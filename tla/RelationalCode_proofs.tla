------------------------ MODULE RelationalCode_proofs ------------------------
(***************************************************************************)
(* The window that minimizeLR and minimizeL2Right leave behind still       *)
(* determines the valid inputs and is minimal.  The stages that            *)
(* relational_code finds after that follow from the outputs, one of them   *)
(* tells the input, and there is a pipeline unless the window is a single  *)
(* frame.  Of the decoder only functions of flow control bits can be       *)
(* missing.  All this for every encoder whose queries satisfy the          *)
(* assumptions of MinimizeWindow, RelationalCode and GenDecoder.           *)
(***************************************************************************)
EXTENDS GenDecoder, TLAPS

\* The parts of the search before and after its last query was answered.
BeforeL2Right == {"minimizeR", "minimizeL", "assert_l", "l_not_0"}
AfterL2Right == {"assert_l2right", "l2right_not_r", "done"}

(***************************************************************************)
(* The inductive invariant.  Nothing is dropped before minimizeL2Right     *)
(* starts, which it does with l = 0; while it runs, the query before the   *)
(* one it is about to make was unsatisfiable; and what LocallyMinimal says *)
(* of r must survive the moves of minimizeL, so it is said of every pc.    *)
(***************************************************************************)
Inv ==
  /\ TypeOK
  /\ pc \in BeforeL2Right => l2right = 0
  /\ pc \notin BeforeL2Right => l = 0
  /\ NeverNegative
  /\ pc = "minimizeL2Right" => l2right = 0 \/ ~LostLate(enc, p, l2right - 1, r)
  /\ pc \in AfterL2Right => l2right <= r
  /\ StillDetermined
  /\ LocallyMinimal

\* The invariant holds of the window the inference ended with.
LEMMA InvInit == Init => Inv
  BY StartAssumption DEF Init, Inv, TypeOK, StillDetermined, LocallyMinimal,
     NeverNegative, Running, Failed, BeforeL2Right, AfterL2Right

(***************************************************************************)
(* The first assumption about the queries, for the window in hand: a frame *)
(* that could not be spared with l cannot be spared with l - 1.            *)
(***************************************************************************)
LEMMA SpareNoMore ==
  ASSUME Inv, l >= 1, r >= 1, Lost(enc, p, l, r - 1)
  PROVE  Lost(enc, p + 1, l - 1, r - 1)
<1>1. enc \in Encoder /\ bound \in Start(enc) /\ bound \in Nat
  BY StartAssumption DEF Inv, TypeOK
<1>2. PICK i \in 0 .. bound : i = p - bound
  BY <1>1 DEF Inv, TypeOK
<1>3. l \in 0 .. bound /\ r - 1 \in 0 .. bound /\ i + l = bound
  BY <1>1, <1>2 DEF Inv, TypeOK
<1>4. p = bound + i
  BY <1>1, <1>2 DEF Inv, TypeOK
<1>5. Lost(enc, bound + i, l, r - 1) => Lost(enc, bound + i + 1, l - 1, r - 1)
  BY <1>1, <1>3, QueryAssumption
<1>6. QED
  BY <1>4, <1>5

(***************************************************************************)
(* The second one: the first query of minimizeL2Right repeats the last     *)
(* answer of minimizeLR.                                                   *)
(***************************************************************************)
LEMMA FirstLateQuery ==
  ASSUME Inv, pc = "minimizeL2Right"
  PROVE  ~LostLate(enc, p, 0, r)
<1>1. enc \in Encoder /\ bound \in Start(enc) /\ bound \in Nat
  BY StartAssumption DEF Inv, TypeOK
<1>2. l = 0 /\ p = bound + bound /\ r \in 0 .. bound
  BY <1>1 DEF Inv, TypeOK, BeforeL2Right
<1>3. LostLate(enc, bound + bound, 0, r) <=> Lost(enc, bound + bound, 0, r)
  BY <1>1, <1>2, QueryAssumption
<1>4. QED
  BY <1>2, <1>3 DEF Inv, StillDetermined

\* Every step of the search preserves the invariant.
LEMMA InvNext == Inv /\ [Next]_vars => Inv'
<1> SUFFICES ASSUME Inv, [Next]_vars PROVE Inv'
  OBVIOUS
<1> USE DEF Inv, TypeOK, NeverNegative, StillDetermined, LocallyMinimal,
            Running, Failed, BeforeL2Right, AfterL2Right
<1>0. bound \in Nat
  BY StartAssumption
<1>1. CASE MinimizeR
  BY <1>0, <1>1 DEF MinimizeR
<1>2. CASE MinimizeL
  <2>1. CASE l >= 1 /\ ~Lost(enc, p + 1, l - 1, r)
    BY <1>0, <1>2, <2>1, SpareNoMore DEF MinimizeL
  <2>2. CASE ~(l >= 1 /\ ~Lost(enc, p + 1, l - 1, r))
    BY <1>0, <1>2, <2>2 DEF MinimizeL
  <2>3. QED
    BY <2>1, <2>2
<1>3. CASE AssertL
  BY <1>0, <1>3 DEF AssertL
<1>4. CASE DropOutput
  BY <1>0, <1>4 DEF DropOutput
<1>5. CASE KeepOutput
  <2>1. l2right >= 1
    BY <1>0, <1>5, FirstLateQuery DEF KeepOutput
  <2>2. QED
    BY <1>0, <1>5, <2>1 DEF KeepOutput
<1>6. CASE AssertL2Right
  BY <1>0, <1>6 DEF AssertL2Right
<1>7. CASE UNCHANGED vars
  BY <1>7 DEF vars
<1>8. QED
  BY <1>1, <1>2, <1>3, <1>4, <1>5, <1>6, <1>7 DEF Next

\* The invariant holds throughout.
THEOREM SpecInv == Spec => []Inv
  BY InvInit, InvNext, PTL DEF Spec

(***************************************************************************)
(* minimizeLR and minimizeL2Right keep p + l and stay within the bound.    *)
(***************************************************************************)
THEOREM SpecTypeOK == Spec => []TypeOK
<1>1. Inv => TypeOK
  BY DEF Inv
<1>2. QED
  BY <1>1, SpecInv, PTL

(***************************************************************************)
(* No window they hold, and none they return, confuses a valid input.      *)
(***************************************************************************)
THEOREM SpecStillDetermined == Spec => []StillDetermined
<1>1. Inv => StillDetermined
  BY DEF Inv
<1>2. QED
  BY <1>1, SpecInv, PTL

(***************************************************************************)
(* The window they return cannot spare a frame.                            *)
(***************************************************************************)
THEOREM SpecLocallyMinimal == Spec => []LocallyMinimal
<1>1. Inv => LocallyMinimal
  BY DEF Inv
<1>2. QED
  BY <1>1, SpecInv, PTL

(***************************************************************************)
(* minimizeL2Right never passes -1 to the generation of the decoder.       *)
(***************************************************************************)
THEOREM SpecNeverNegative == Spec => []NeverNegative
<1>1. Inv => NeverNegative
  BY DEF Inv
<1>2. QED
  BY <1>1, SpecInv, PTL

-----------------------------------------------------------------------------
\* The search for stages leaves the minimisation of the window as it is.
THEOREM Minimises == RelationalSpec => Spec
<1>1. RelationalInit => Init
  BY DEF RelationalInit
<1>2. [RelationalNext]_allVars => [Next]_vars
  BY DEF RelationalNext, allVars, vars, stageVars, Minimize, LastStage, EarlierStage,
         EndStages, NextCandidate, Candidate
<1>3. QED
  BY <1>1, <1>2, PTL DEF RelationalSpec, Spec

(***************************************************************************)
(* The inductive invariant.  What the search adds to its type: the window  *)
(* is done and stays; until the stages are split off there are two at      *)
(* least, and the latest is where the next query is asked from; and the    *)
(* stage that is tried exists.                                             *)
(***************************************************************************)
SInv ==
  /\ Inv
  /\ RelationalTypeOK
  /\ pc = "done" => l2right = r
  /\ phase = "minimize" => stages = <<>> /\ flow = <<>>
  /\ phase = "stages" => Len(stages) >= 2 /\ Latest.pos >= p
  /\ phase \in {"input"} \cup Ended => head \in DOMAIN stages /\ (r > 0 => Len(stages) >= 2)
  /\ StagesFollow
  /\ InputStageFound
  /\ PipelineUnlessAlone

\* The invariant holds before the search starts.
LEMMA SInvInit == RelationalInit => SInv
<1> SUFFICES ASSUME RelationalInit PROVE SInv
  OBVIOUS
<1>1. Inv
  BY InvInit DEF RelationalInit
<1>2. QED
  BY <1>1 DEF SInv, Inv, Init, RelationalInit, RelationalTypeOK, Searching, StagesFollow,
     InputStageFound, PipelineUnlessAlone, Ended

(***************************************************************************)
(* The window that the search works in.                                    *)
(***************************************************************************)
LEMMA WindowDone ==
  ASSUME SInv, pc = "done"
  PROVE  /\ enc \in Encoder /\ bound \in Start(enc) /\ bound \in Nat
         /\ r \in 0 .. bound /\ l2right = r
         /\ p = bound + bound /\ l = 0
         /\ LastFrame = bound + bound + r /\ LastFrame \in Int /\ p \in Int
         /\ Shortest(enc, bound, r)
         /\ ~LostLate(enc, p, r, r)
<1>1. Inv /\ l2right = r
  BY DEF SInv
<1>2. enc \in Encoder /\ bound \in Start(enc) /\ bound \in Nat
  BY <1>1, StartAssumption DEF Inv, TypeOK
<1>3. l = 0 /\ p = bound + bound /\ r \in 0 .. bound
  BY <1>1, <1>2 DEF Inv, TypeOK, BeforeL2Right
<1>4. ~Lost(enc, p, 0, r) /\ (r = 0 \/ Lost(enc, p, 0, r - 1)) /\ ~LostLate(enc, p, r, r)
  BY <1>1, <1>3 DEF Inv, StillDetermined, LocallyMinimal
<1>5. QED
  BY <1>1, <1>2, <1>3, <1>4 DEF Shortest, LastFrame

(***************************************************************************)
(* The chain of two queries, in the terms of the search: what the bits of  *)
(* a stage determine one frame earlier, the outputs determine.             *)
(***************************************************************************)
LEMMA ChainedStage ==
  ASSUME SInv, pc = "done", NEW hd \in p .. LastFrame - 1, NEW V \in SUBSET Dffs(enc),
         findUniqDecidedList(Outs(enc), LastFrame, V, hd + 1, TRUE) = V,
         NEW d \in Dffs(enc), Decides(enc, p, r, V, hd + 1, d, hd, TRUE)
  PROVE  Decides(enc, p, r, Outs(enc), LastFrame, d, hd, TRUE)
<1>1. \A v \in V : Decides(enc, p, r, Outs(enc), LastFrame, v, hd + 1, TRUE)
  BY DEF findUniqDecidedList
<1>2. /\ enc \in Encoder /\ bound \in Start(enc) /\ r \in 0 .. bound /\ Shortest(enc, bound, r)
      /\ p = bound + bound /\ LastFrame = bound + bound + r
  BY WindowDone
<1>3. hd \in bound + bound .. bound + bound + r - 1
  BY <1>2
<1>4. \A j \in bound + bound .. bound + bound + r - 1 : \A W \in SUBSET Dffs(enc) :
        (\A v \in W : Decides(enc, bound + bound, r, Outs(enc), bound + bound + r, v, j + 1, TRUE)) =>
          \A c \in Dffs(enc) :
            Decides(enc, bound + bound, r, W, j + 1, c, j, TRUE) =>
              Decides(enc, bound + bound, r, Outs(enc), bound + bound + r, c, j, TRUE)
  BY <1>2, ChainAssumption, Zenon
<1>5. \A W \in SUBSET Dffs(enc) :
        (\A v \in W : Decides(enc, p, r, Outs(enc), LastFrame, v, hd + 1, TRUE)) =>
          \A c \in Dffs(enc) :
            Decides(enc, p, r, W, hd + 1, c, hd, TRUE) =>
              Decides(enc, p, r, Outs(enc), LastFrame, c, hd, TRUE)
  BY <1>2, <1>3, <1>4, Zenon
<1>6. QED
  BY <1>1, <1>5, Zenon

(***************************************************************************)
(* While the stages are searched the window stays, and so does what the    *)
(* outputs determine in it.                                                *)
(***************************************************************************)
LEMMA WindowKept ==
  ASSUME SInv, UNCHANGED vars
  PROVE  /\ Inv' /\ TypeOK' /\ LastFrame' = LastFrame
         /\ pc' = "done" => l2right' = r'
         /\ \A s : Follows(s)' <=> Follows(s)
<1>1. Inv'
  BY InvNext DEF SInv
<1>2. TypeOK'
  BY <1>1 DEF Inv
<1>3. LastFrame' = LastFrame
  BY DEF vars, LastFrame
<1>4. \A s : Follows(s)' <=> Follows(s)
  BY <1>3 DEF vars, Follows, findUniqDecidedList
<1>5. QED
  BY <1>1, <1>2, <1>3, <1>4 DEF SInv, vars

\* The first query: the registers of the last frame that the outputs determine.
LEMMA LastStageKeeps == SInv /\ LastStage => SInv'
<1> SUFFICES ASSUME SInv, LastStage PROVE SInv'
  OBVIOUS
<1> DEFINE bits == findUniqDecidedList(Outs(enc), LastFrame, Dffs(enc), LastFrame, TRUE)
<1>1. /\ pc = "done" /\ phase = "minimize" /\ phase' = "stages"
      /\ stages' = <<Stage(LastFrame, Outs(enc)), Stage(LastFrame, bits)>>
      /\ rest' = Dffs(enc) \ bits
      /\ UNCHANGED <<vars, head, flow>>
  BY DEF LastStage
<1>2. bits \subseteq Dffs(enc) /\ findUniqDecidedList(Outs(enc), LastFrame, bits, LastFrame, TRUE) = bits
  BY DEF findUniqDecidedList
<1> HIDE DEF bits
<1>3. LastFrame \in Int /\ LastFrame \in p .. LastFrame /\ p \in Int
  BY <1>1, WindowDone
<1>4. Len(stages') = 2 /\ stages'[1] = Stage(LastFrame, Outs(enc)) /\ stages'[2] = Stage(LastFrame, bits)
  BY <1>1
<1>5. UNCHANGED <<enc, p, r, pc, head, flow>>
  BY <1>1 DEF vars
<1>6. RelationalTypeOK'
  <2>1. stages' \in Seq([pos : Int, bits : SUBSET (Outs(enc) \cup Dffs(enc))])
    BY <1>1, <1>2, <1>3 DEF Stage
  <2>2. \A n \in 2 .. Len(stages') : stages'[n].pos = LastFrame + 2 - n /\ stages'[n].bits \subseteq Dffs(enc) \ rest'
    BY <1>1, <1>2, <1>3, <1>4 DEF Stage
  <2>3. head' = 0
    BY <1>1, <1>5 DEF SInv, RelationalTypeOK
  <2>4. QED
    BY <1>1, <1>3, <1>4, <1>5, <2>1, <2>2, <2>3, WindowKept
       DEF SInv, RelationalTypeOK, Searching
<1>7. StagesFollow'
  <2>1. Follows(stages'[2])
    <3>1. stages'[2].pos = LastFrame /\ stages'[2].bits = bits
      BY <1>4 DEF Stage
    <3>2. QED
      BY <1>2, <1>3, <3>1, Zenon DEF Follows
  <2>2. QED
    BY <1>1, <1>4, <2>1, WindowKept DEF StagesFollow
<1>8. QED
  BY <1>1, <1>3, <1>4, <1>5, <1>6, <1>7, WindowKept
     DEF SInv, Latest, Stage, InputStageFound, PipelineUnlessAlone, Ended

(***************************************************************************)
(* doproc: the new stage is chained to the outputs through the latest one, *)
(* and what is left over is in neither.                                    *)
(***************************************************************************)
LEMMA EarlierStageKeeps == SInv /\ EarlierStage => SInv'
<1> SUFFICES ASSUME SInv, EarlierStage PROVE SInv'
  OBVIOUS
<1> DEFINE hd == Latest.pos - 1
           V == Latest.bits
           bits == findUniqDecidedList(V, hd + 1, rest, hd, TRUE)
           N == Len(stages)
<1>1. /\ phase = "stages" /\ Latest.pos > p
      /\ stages' = Append(stages, Stage(hd, bits))
      /\ rest' = rest \ bits
      /\ UNCHANGED <<vars, head, flow, phase>>
  BY DEF EarlierStage
<1>2. /\ pc = "done" /\ N \in Nat /\ N >= 2 /\ rest \subseteq Dffs(enc)
      /\ stages \in Seq([pos : Int, bits : SUBSET (Outs(enc) \cup Dffs(enc))])
      /\ \A n \in 2 .. N : stages[n].pos = LastFrame + 2 - n /\ stages[n].bits \subseteq Dffs(enc) \ rest
      /\ stages[1] = Stage(LastFrame, Outs(enc))
      /\ Latest = stages[N]
  BY <1>1 DEF SInv, RelationalTypeOK, Latest
<1>3. LastFrame \in Int /\ p \in Int
  BY <1>2, WindowDone
<1>4. hd \in p .. LastFrame - 1 /\ hd = LastFrame + 2 - (N + 1)
  BY <1>1, <1>2, <1>3, SMTT(60)
<1>5. V \in SUBSET Dffs(enc) /\ findUniqDecidedList(Outs(enc), LastFrame, V, hd + 1, TRUE) = V
  <2>1. Follows(stages[N]) /\ stages[N].bits \subseteq Dffs(enc)
    BY <1>2 DEF SInv, StagesFollow
  <2>2. stages[N].pos = hd + 1
    BY <1>2, <1>3
  <2>3. QED
    BY <1>2, <2>1, <2>2, Zenon DEF Follows
<1>6. bits \subseteq rest
  BY DEF findUniqDecidedList
<1>7. findUniqDecidedList(Outs(enc), LastFrame, bits, hd, TRUE) = bits
  <2>1. SUFFICES ASSUME NEW d \in bits PROVE Decides(enc, p, r, Outs(enc), LastFrame, d, hd, TRUE)
    BY DEF findUniqDecidedList
  <2>2. d \in Dffs(enc) /\ Decides(enc, p, r, V, hd + 1, d, hd, TRUE)
    BY <1>2, <2>1 DEF findUniqDecidedList
  <2> HIDE DEF hd, V, bits
  <2>3. QED
    BY <1>2, <1>4, <1>5, <2>2, ChainedStage
<1> HIDE DEF hd, V, bits
<1>8. /\ Len(stages') = N + 1
      /\ \A n \in 1 .. N : stages'[n] = stages[n]
      /\ stages'[N + 1] = Stage(hd, bits)
  BY <1>1, <1>2
<1>9. UNCHANGED <<enc, p, r, pc, head, flow, phase>>
  BY <1>1 DEF vars
<1>10. RelationalTypeOK'
  <2>1. stages' \in Seq([pos : Int, bits : SUBSET (Outs(enc) \cup Dffs(enc))])
    <3>1. Stage(hd, bits) \in [pos : Int, bits : SUBSET (Outs(enc) \cup Dffs(enc))]
      BY <1>2, <1>3, <1>4, <1>6 DEF Stage
    <3>2. QED
      BY <1>1, <1>2, <3>1
  <2>2. ASSUME NEW n \in 2 .. Len(stages')
        PROVE  stages'[n].pos = LastFrame + 2 - n /\ stages'[n].bits \subseteq Dffs(enc) \ rest'
    <3>1. CASE n <= N
      BY <1>1, <1>2, <1>8, <3>1
    <3>2. CASE n = N + 1
      BY <1>1, <1>2, <1>4, <1>6, <1>8, <3>2 DEF Stage
    <3>3. QED
      BY <1>2, <1>8, <3>1, <3>2
  <2>3. head' \in 0 .. Len(stages') /\ rest' \subseteq Dffs(enc) /\ stages' # <<>>
        /\ stages'[1] = Stage(LastFrame, Outs(enc))
    BY <1>1, <1>2, <1>8, <1>9, SMTT(30) DEF SInv, RelationalTypeOK
  <2>4. QED
    BY <1>1, <1>2, <1>9, <2>1, <2>2, <2>3, WindowKept
       DEF SInv, RelationalTypeOK, Searching, Stage
<1>11. StagesFollow'
  <2>1. ASSUME NEW n \in 2 .. N + 1 PROVE Follows(stages'[n])
    <3>1. CASE n <= N
      BY <1>2, <1>8, <3>1 DEF SInv, StagesFollow
    <3>2. CASE n = N + 1
      <4>1. stages'[n].pos = hd /\ stages'[n].bits = bits
        BY <1>8, <3>2 DEF Stage
      <4>2. hd \in p .. LastFrame
        BY <1>3, <1>4
      <4>3. QED
        BY <1>7, <4>1, <4>2, Zenon DEF Follows
    <3>3. QED
      BY <1>2, <3>1, <3>2
  <2>2. QED
    BY <1>1, <1>8, <2>1, WindowKept DEF StagesFollow
<1>12. QED
  BY <1>1, <1>2, <1>3, <1>4, <1>8, <1>9, <1>10, <1>11, WindowKept
     DEF SInv, Latest, Stage, InputStageFound, PipelineUnlessAlone, Ended

(***************************************************************************)
(* getHeadListTail takes no stage away from a window of more frames.       *)
(***************************************************************************)
LEMMA EndStagesKeeps == SInv /\ EndStages => SInv'
<1> SUFFICES ASSUME SInv, EndStages PROVE SInv'
  OBVIOUS
<1>1. /\ phase = "stages" /\ phase' = "input"
      /\ stages' = IF l2right = 0 THEN <<stages[1]>> ELSE stages
      /\ head' = Len(stages')
      /\ UNCHANGED <<vars, rest, flow>>
  BY DEF EndStages
<1> DEFINE S == [pos : Int, bits : SUBSET (Outs(enc) \cup Dffs(enc))]
<1>2. /\ pc = "done" /\ l2right = r /\ Len(stages) >= 2 /\ stages \in Seq(S)
      /\ stages[1] = Stage(LastFrame, Outs(enc))
  <2>1. pc = "done" /\ Len(stages) >= 2 /\ stages \in Seq(S)
    BY <1>1 DEF SInv, RelationalTypeOK
  <2>2. l2right = r /\ stages[1] = Stage(LastFrame, Outs(enc))
    BY <1>1, <2>1 DEF SInv, RelationalTypeOK
  <2>3. QED
    BY <2>1, <2>2
<1>3. UNCHANGED <<enc, p, r, l2right, pc, rest, flow>>
  BY <1>1 DEF vars
<1>4. r \in Nat
  BY <1>2, WindowDone
<1>5. CASE l2right = 0
  <2>1. stages' = <<stages[1]>> /\ Len(stages') = 1 /\ stages'[1] = stages[1]
    BY <1>1, <1>5
  <2>2. RelationalTypeOK'
    <3>1. stages[1] \in S
      BY <1>2, WindowDone DEF Stage
    <3>2. stages' \in Seq(S) /\ stages' # <<>>
      BY <2>1, <3>1
    <3>3. head' = 1 /\ rest' \subseteq Dffs(enc)
      BY <1>1, <1>3, <2>1 DEF SInv, RelationalTypeOK
    <3>4. QED
      BY <1>1, <1>2, <1>3, <2>1, <3>2, <3>3, WindowKept
         DEF SInv, RelationalTypeOK, Searching, Stage
  <2>3. QED
    BY <1>1, <1>2, <1>3, <1>5, <2>1, <2>2, WindowKept
       DEF SInv, StagesFollow, InputStageFound, PipelineUnlessAlone, Ended
<1>6. CASE l2right # 0
  <2>1. stages' = stages
    BY <1>1, <1>6
  <2>2. RelationalTypeOK'
    BY <1>1, <1>2, <1>3, <2>1, WindowKept DEF SInv, RelationalTypeOK, Searching, Stage
  <2>3. QED
    BY <1>1, <1>2, <1>3, <1>4, <1>6, <2>1, <2>2, WindowKept
       DEF SInv, StagesFollow, InputStageFound, PipelineUnlessAlone, Ended
<1>7. QED
  BY <1>5, <1>6

(***************************************************************************)
(* checkRevRealList: the last candidate is the outputs, of which           *)
(* minimizeL2Right already asked whether they determine the input.         *)
(***************************************************************************)
LEMMA NextCandidateKeeps == SInv /\ NextCandidate => SInv'
<1> SUFFICES ASSUME SInv, NextCandidate PROVE SInv'
  OBVIOUS
<1>1. /\ phase = "input" /\ ~DeterminesInput
      /\ IF head > 1 THEN head' = head - 1 /\ UNCHANGED phase
                     ELSE phase' = "no_input_stage" /\ UNCHANGED head
      /\ UNCHANGED <<vars, stages, rest, flow>>
  BY DEF NextCandidate
<1>2. /\ pc = "done" /\ head \in DOMAIN stages /\ stages[1] = Stage(LastFrame, Outs(enc))
      /\ Len(stages) \in Nat /\ DOMAIN stages = 1 .. Len(stages)
  BY <1>1 DEF SInv, RelationalTypeOK
<1>3. head > 1
  <2>1. SUFFICES ASSUME head = 1 PROVE FALSE
    BY <1>2
  <2>2. stages[head].bits = Outs(enc) /\ stages[head].pos = LastFrame
    BY <1>2, <2>1 DEF Stage
  <2>3. /\ enc \in Encoder /\ bound \in Start(enc) /\ r \in 0 .. bound
        /\ p = bound + bound /\ LastFrame = bound + bound + r /\ ~LostLate(enc, p, r, r)
    BY <1>2, WindowDone
  <2>4. Outs(enc) # {}
    BY <2>3, OutputAssumption
  <2>5. \A i \in Ins(enc) : Decides(enc, p, r, Outs(enc), LastFrame, i, p, TRUE)
    BY <2>3, OutputAssumption
  <2>6. DeterminesInput
    BY <2>2, <2>4, <2>5 DEF DeterminesInput, findUniqDecidedList
  <2>7. QED
    BY <1>1, <2>6
<1>4. head' = head - 1 /\ UNCHANGED <<enc, p, r, pc, stages, rest, flow, phase>>
  BY <1>1, <1>3 DEF vars
<1>5. RelationalTypeOK'
  BY <1>1, <1>2, <1>3, <1>4, WindowKept DEF SInv, RelationalTypeOK
<1>6. QED
  BY <1>1, <1>2, <1>3, <1>4, <1>5, WindowKept
     DEF SInv, StagesFollow, InputStageFound, PipelineUnlessAlone, Ended

(***************************************************************************)
(* getPosList: the frame of the outputs has a stage of registers too, so   *)
(* that there is always one in the list unless that stage was split off.   *)
(***************************************************************************)
LEMMA PipelineShape ==
  ASSUME SInv, phase = "input"
  PROVE  \E n \in 1 .. Len(stages) : Pipeline = SubSeq(stages, 1, n) /\ (r > 0 => n >= 2)
<1> DEFINE here == {k \in DOMAIN stages : stages[k].pos = stages[head].pos}
           n == CHOOSE n \in here : \A k \in here : k <= n
<1>1. /\ pc = "done" /\ head \in DOMAIN stages /\ stages[1] = Stage(LastFrame, Outs(enc))
      /\ Len(stages) \in Nat /\ DOMAIN stages = 1 .. Len(stages)
      /\ \A k \in 2 .. Len(stages) : stages[k].pos = LastFrame + 2 - k
      /\ r > 0 => Len(stages) >= 2
  BY DEF SInv, RelationalTypeOK
<1>2. LastFrame \in Int /\ r \in Nat /\ stages[1].pos = LastFrame
  BY <1>1, WindowDone DEF Stage
<1>3. \E m \in here : (\A k \in here : k <= m) /\ (r > 0 => m >= 2)
  <2>1. CASE head >= 2 \/ Len(stages) = 1
    <3>1. head \in here /\ \A k \in here : k <= head
      BY <1>1, <1>2, <2>1
    <3>2. QED
      BY <1>1, <2>1, <3>1
  <2>2. CASE head = 1 /\ Len(stages) >= 2
    <3>1. 2 \in here /\ \A k \in here : k <= 2
      BY <1>1, <1>2, <2>2
    <3>2. QED
      BY <3>1
  <2>3. QED
    BY <1>1, <2>1, <2>2
<1>4. n \in here /\ \A k \in here : k <= n
  BY <1>3
<1>5. r > 0 => n >= 2
  BY <1>1, <1>3, <1>4
<1>6. Pipeline = SubSeq(stages, 1, n)
  BY DEF Pipeline
<1>7. QED
  BY <1>1, <1>4, <1>5, <1>6

\* computeCF: a list of one element is a window of one frame.
LEMMA CandidateKeeps == SInv /\ Candidate => SInv'
<1> SUFFICES ASSUME SInv, Candidate PROVE SInv'
  OBVIOUS
<1>1. /\ phase = "input" /\ UNCHANGED <<vars, stages, rest, head>>
      /\ \/ /\ flow' = [k \in 1 .. Len(Pipeline) - 1 |-> FlowOf(Pipeline[k + 1])]
            /\ phase' = "pipeline"
         \/ ~(Len(Pipeline) > 1) /\ phase' = "no_pipeline" /\ flow' = flow
  BY DEF Candidate
<1>2. PICK n \in 1 .. Len(stages) : Pipeline = SubSeq(stages, 1, n) /\ (r > 0 => n >= 2)
  BY <1>1, PipelineShape
<1>3. /\ pc = "done" /\ r \in Nat /\ LastFrame \in Int /\ Len(stages) \in Nat
      /\ stages \in Seq([pos : Int, bits : SUBSET (Outs(enc) \cup Dffs(enc))])
      /\ \A k \in 2 .. Len(stages) : stages[k].pos = LastFrame + 2 - k /\ stages[k].bits \subseteq Dffs(enc)
  BY <1>1, WindowDone DEF SInv, RelationalTypeOK
<1>4. Len(Pipeline) = n /\ \A k \in 1 .. n : Pipeline[k] = stages[k]
  BY <1>2, <1>3
<1>5. UNCHANGED <<enc, p, r, pc, stages, rest, head>>
  BY <1>1 DEF vars
<1>6. flow' \in Seq([pos : Int, known : SUBSET Dffs(enc), other : SUBSET Dffs(enc)])
  <2>1. CASE flow' = flow
    BY <2>1 DEF SInv, RelationalTypeOK
  <2>2. CASE flow' = [k \in 1 .. n - 1 |-> FlowOf(Pipeline[k + 1])]
    <3>1. ASSUME NEW k \in 1 .. n - 1
          PROVE  FlowOf(Pipeline[k + 1]) \in [pos : Int, known : SUBSET Dffs(enc), other : SUBSET Dffs(enc)]
      <4>1. Pipeline[k + 1].pos \in Int /\ Pipeline[k + 1].bits \subseteq Dffs(enc)
        <5>1. k + 1 \in 2 .. n /\ k + 1 \in 1 .. n /\ k + 1 \in 2 .. Len(stages)
          BY <1>2, <1>3
        <5>2. Pipeline[k + 1] = stages[k + 1]
          BY <1>4, <5>1, Zenon
        <5>3. LastFrame + 2 - (k + 1) \in Int
          BY <1>3
        <5>4. QED
          BY <1>3, <5>1, <5>2, <5>3, Zenon
      <4>2. QED
        BY <4>1 DEF FlowOf, findUniqDecidedList
    <3>2. n - 1 \in Nat
      BY <1>2, <1>3
    <3>3. QED
      BY <2>2, <3>1, <3>2
  <2>3. QED
    BY <1>1, <1>4, <2>1, <2>2
<1>7. phase' = "no_pipeline" => r = 0
  BY <1>1, <1>2, <1>3, <1>4
<1>8. RelationalTypeOK'
  BY <1>1, <1>3, <1>5, <1>6, WindowKept DEF SInv, RelationalTypeOK, Searching, Ended
<1>9. QED
  BY <1>1, <1>5, <1>7, <1>8, WindowKept
     DEF SInv, StagesFollow, InputStageFound, PipelineUnlessAlone, Ended

(***************************************************************************)
(* The minimisation runs before there are any stages.                      *)
(***************************************************************************)
LEMMA MinimizeKeeps == SInv /\ Minimize => SInv'
<1> SUFFICES ASSUME SInv, Minimize PROVE SInv'
  OBVIOUS
<1>1. Next /\ UNCHANGED <<stages, rest, head, flow, phase>>
  BY DEF Minimize, stageVars
<1>2. pc # "done" /\ (pc' = "done" => l2right' = r')
  BY <1>1 DEF Next, MinimizeR, MinimizeL, AssertL, DropOutput, KeepOutput, AssertL2Right
<1>3. phase = "minimize" /\ stages = <<>> /\ flow = <<>>
  BY <1>2 DEF SInv, RelationalTypeOK
<1>4. Inv' /\ enc' = enc
  BY <1>1, InvNext DEF SInv, Next, MinimizeR, MinimizeL, AssertL, DropOutput, KeepOutput, AssertL2Right
<1>5. RelationalTypeOK'
  BY <1>1, <1>3, <1>4 DEF SInv, Inv, RelationalTypeOK, Searching
<1>6. QED
  BY <1>1, <1>2, <1>3, <1>4, <1>5
     DEF SInv, StagesFollow, InputStageFound, PipelineUnlessAlone, Ended

\* Every step of the search preserves the invariant.
LEMMA SInvNext == SInv /\ [RelationalNext]_allVars => SInv'
<1>1. SInv /\ UNCHANGED allVars => SInv'
  <2> SUFFICES ASSUME SInv, UNCHANGED allVars PROVE SInv'
    OBVIOUS
  <2>1. UNCHANGED vars /\ UNCHANGED <<enc, p, r, pc, stages, rest, head, flow, phase>>
    BY DEF allVars, vars, stageVars
  <2>2. RelationalTypeOK'
    BY <2>1, WindowKept DEF SInv, RelationalTypeOK
  <2>3. QED
    BY <2>1, <2>2, WindowKept
       DEF SInv, Latest, StagesFollow, InputStageFound, PipelineUnlessAlone, Ended
<1>2. QED
  BY <1>1, MinimizeKeeps, LastStageKeeps, EarlierStageKeeps, EndStagesKeeps,
     NextCandidateKeeps, CandidateKeeps DEF RelationalNext

\* The invariant holds throughout.
THEOREM RelationalInv == RelationalSpec => []SInv
  BY SInvInit, SInvNext, PTL DEF RelationalSpec

(***************************************************************************)
(* The lists of relational_code stay in shape: one stage a frame, of       *)
(* registers that are not left over.                                       *)
(***************************************************************************)
THEOREM SearchTypeOK == RelationalSpec => []RelationalTypeOK
<1>1. SInv => RelationalTypeOK
  BY DEF SInv
<1>2. QED
  BY <1>1, RelationalInv, PTL

(***************************************************************************)
(* Every stage that findUniqDecidedList is led to, from stage to stage,    *)
(* follows from the outputs alone.                                         *)
(***************************************************************************)
THEOREM SearchStagesFollow == RelationalSpec => []StagesFollow
<1>1. SInv => StagesFollow
  BY DEF SInv
<1>2. QED
  BY <1>1, RelationalInv, PTL

\* The assert at the end of checkRevRealList is never reached.
THEOREM SearchInputStageFound == RelationalSpec => []InputStageFound
<1>1. SInv => InputStageFound
  BY DEF SInv
<1>2. QED
  BY <1>1, RelationalInv, PTL

\* The assert of computeCF is reached with a window of one frame only.
THEOREM SearchPipeline == RelationalSpec => []PipelineUnlessAlone
<1>1. SInv => PipelineUnlessAlone
  BY DEF SInv
<1>2. QED
  BY <1>1, RelationalInv, PTL

-----------------------------------------------------------------------------
\* What follows the search leaves it as it is.
THEOREM Searches == GenSpec => RelationalSpec
<1>1. GenInit => RelationalInit
  BY DEF GenInit
<1>2. [GenNext]_decoderVars => [RelationalNext]_allVars
  BY DEF GenNext, decoderVars, Search, StartPredicates, inferPredicateUniq_Pipe,
         StartFunctions, genDecoderFunction, Write
<1>3. QED
  BY <1>1, <1>2, PTL DEF GenSpec, RelationalSpec

(***************************************************************************)
(* What the decoder relies on: every stage follows from the one found      *)
(* before it, under the predicate; the stage at head tells the input; and  *)
(* the pipeline is the beginning of that list, each stage split into the   *)
(* f that the outputs tell without the predicate and the d.                *)
(***************************************************************************)
FollowsFrom(s, t) == \A d \in t.bits : Decides(enc, p, r, s.bits, s.pos, d, t.pos, TRUE)

TellsInput(s) == s.bits # {} /\ \A i \in Ins(enc) : Decides(enc, p, r, s.bits, s.pos, i, p, TRUE)

SplitOf(s, c) ==
  /\ c.pos = s.pos
  /\ c.known \cup c.other = s.bits
  /\ \A f \in c.known : Decides(enc, p, r, Outs(enc), LastFrame, f, s.pos, FALSE)

CInv ==
  /\ \A n \in 2 .. Len(stages) : FollowsFrom(stages[n - 1], stages[n])
  /\ phase = "pipeline" =>
       /\ TellsInput(stages[head])
       /\ Len(flow) \in 1 .. Len(stages) - 1
       /\ \A k \in 1 .. Len(flow) : SplitOf(stages[k + 1], flow[k])

\* It holds before the search starts.
LEMMA CInvInit == RelationalInit => CInv
  BY DEF RelationalInit, CInv

\* The queries of the window that stays have the answers they had.
LEMMA AnswersKept ==
  ASSUME UNCHANGED vars
  PROVE  /\ \A s, t : FollowsFrom(s, t)' <=> FollowsFrom(s, t)
         /\ \A s : TellsInput(s)' <=> TellsInput(s)
         /\ \A s, c : SplitOf(s, c)' <=> SplitOf(s, c)
BY DEF vars, FollowsFrom, TellsInput, SplitOf, LastFrame

\* A stage of findUniqDecidedList follows from what it was asked with.
LEMMA FoundFollows ==
  ASSUME NEW s, NEW pos, NEW diff
  PROVE  FollowsFrom(s, Stage(pos, findUniqDecidedList(s.bits, s.pos, diff, pos, TRUE)))
BY DEF FollowsFrom, Stage, findUniqDecidedList

\* computeCF splits the bits of a stage.
LEMMA FlowSplits ==
  ASSUME NEW s
  PROVE  SplitOf(s, FlowOf(s))
BY DEF SplitOf, FlowOf, findUniqDecidedList

\* The stages already found still follow, and so does a new one.
LEMMA EarlierStageChains == SInv /\ CInv /\ EarlierStage => CInv'
<1> SUFFICES ASSUME SInv, CInv, EarlierStage PROVE CInv'
  OBVIOUS
<1> DEFINE N == Len(stages)
           hd == Latest.pos - 1
           new == Stage(hd, findUniqDecidedList(Latest.bits, hd + 1, rest, hd, TRUE))
<1>1. /\ phase = "stages" /\ stages' = Append(stages, new) /\ phase' = phase /\ UNCHANGED vars
  BY DEF EarlierStage
<1>2. /\ N \in Nat /\ N >= 2 /\ pc = "done"
      /\ stages \in Seq([pos : Int, bits : SUBSET (Outs(enc) \cup Dffs(enc))])
      /\ \A n \in 2 .. N : stages[n].pos = LastFrame + 2 - n
      /\ Latest = stages[N]
  BY <1>1 DEF SInv, RelationalTypeOK, Latest
<1>3. stages[N].pos \in Int
  <2>1. N \in 2 .. N /\ LastFrame \in Int /\ LastFrame + 2 - N \in Int
    BY <1>2, WindowDone
  <2>2. stages[N].pos = LastFrame + 2 - N
    BY <1>2, <2>1, Zenon
  <2>3. QED
    BY <2>1, <2>2
<1>4. hd + 1 = stages[N].pos
  BY <1>2, <1>3
<1>5. FollowsFrom(stages[N], new)
  BY <1>2, <1>4, FoundFollows, Zenon
<1> HIDE DEF new
<1>6. /\ Len(stages') = N + 1
      /\ \A n \in 1 .. N : stages'[n] = stages[n]
      /\ stages'[N + 1] = new
  BY <1>1, <1>2
<1>7. ASSUME NEW n \in 2 .. N + 1 PROVE FollowsFrom(stages'[n - 1], stages'[n])
  <2>1. CASE n <= N
    <3>1. n - 1 \in 1 .. N /\ n \in 1 .. N /\ n \in 2 .. N
      BY <1>2, <2>1
    <3>2. FollowsFrom(stages[n - 1], stages[n])
      BY <3>1 DEF CInv
    <3>3. QED
      BY <1>6, <3>1, <3>2, Zenon
  <2>2. CASE n = N + 1
    <3>1. n - 1 = N /\ N \in 1 .. N
      BY <1>2, <2>2
    <3>2. QED
      BY <1>5, <1>6, <2>2, <3>1, Zenon
  <2>3. QED
    BY <1>2, <2>1, <2>2
<1>8. QED
  BY <1>1, <1>6, <1>7, AnswersKept DEF CInv

\* computeCF cuts the list where it likes: it is its beginning.
LEMMA CandidateChains == SInv /\ CInv /\ Candidate => CInv'
<1> SUFFICES ASSUME SInv, CInv, Candidate PROVE CInv'
  OBVIOUS
<1>1. /\ DeterminesInput /\ phase = "input" /\ UNCHANGED <<vars, stages, head>>
      /\ phase' = "pipeline" =>
           /\ Len(Pipeline) > 1
           /\ flow' = [k \in 1 .. Len(Pipeline) - 1 |-> FlowOf(Pipeline[k + 1])]
  BY DEF Candidate
<1>2. PICK n \in 1 .. Len(stages) : Pipeline = SubSeq(stages, 1, n)
  BY <1>1, PipelineShape
<1>3. Len(stages) \in Nat /\ stages \in Seq([pos : Int, bits : SUBSET (Outs(enc) \cup Dffs(enc))])
  BY DEF SInv, RelationalTypeOK
<1>4. Len(Pipeline) = n /\ \A k \in 1 .. n : Pipeline[k] = stages[k]
  BY <1>2, <1>3
<1>5. TellsInput(stages[head])
  BY <1>1 DEF DeterminesInput, TellsInput, findUniqDecidedList
<1>6. ASSUME phase' = "pipeline"
      PROVE  /\ Len(flow') \in 1 .. Len(stages) - 1
             /\ \A k \in 1 .. Len(flow') : SplitOf(stages[k + 1], flow'[k])
  <2>1. n - 1 \in Nat /\ n > 1
    BY <1>1, <1>2, <1>3, <1>4, <1>6
  <2>2. flow' = [k \in 1 .. n - 1 |-> FlowOf(Pipeline[k + 1])]
    BY <1>1, <1>4, <1>6
  <2>3. Len(flow') = n - 1
    BY <2>1, <2>2
  <2>4. ASSUME NEW k \in 1 .. n - 1 PROVE SplitOf(stages[k + 1], flow'[k])
    <3>1. k + 1 \in 1 .. n
      BY <2>1
    <3>2. flow'[k] = FlowOf(stages[k + 1])
      BY <1>4, <2>2, <3>1, Zenon
    <3>3. QED
      BY <3>2, FlowSplits, Zenon
  <2>5. QED
    BY <1>2, <1>3, <2>1, <2>3, <2>4
<1>7. QED
  BY <1>1, <1>5, <1>6, AnswersKept DEF CInv

\* Every step of the search keeps it.
LEMMA CInvNext == SInv /\ CInv /\ [RelationalNext]_allVars => CInv'
<1> SUFFICES ASSUME SInv, CInv, [RelationalNext]_allVars PROVE CInv'
  OBVIOUS
<1>1. CASE UNCHANGED allVars
  <2>1. UNCHANGED <<vars, stages, head, flow, phase>>
    BY <1>1 DEF allVars, stageVars
  <2>2. QED
    BY <2>1, AnswersKept DEF CInv
<1>2. CASE Minimize
  <2>1. pc # "done" /\ UNCHANGED <<stages, phase>>
    BY <1>2 DEF Minimize, stageVars, Next, MinimizeR, MinimizeL, AssertL, DropOutput,
       KeepOutput, AssertL2Right
  <2>2. phase = "minimize" /\ stages = <<>>
    BY <2>1 DEF SInv, RelationalTypeOK
  <2>3. QED
    BY <2>1, <2>2 DEF CInv
<1>3. CASE LastStage
  <2> DEFINE first == Stage(LastFrame, Outs(enc))
             last == Stage(LastFrame, findUniqDecidedList(Outs(enc), LastFrame, Dffs(enc), LastFrame, TRUE))
  <2>1. stages' = <<first, last>> /\ phase' = "stages" /\ UNCHANGED vars
    BY <1>3 DEF LastStage
  <2>2. FollowsFrom(first, last)
    BY DEF FollowsFrom, Stage, findUniqDecidedList
  <2> HIDE DEF first, last
  <2>3. FollowsFrom(stages'[1], stages'[2])
    BY <2>1, <2>2
  <2>4. QED
    BY <2>1, <2>3, AnswersKept DEF CInv
<1>4. CASE EndStages
  <2>1. /\ phase' = "input" /\ UNCHANGED vars
        /\ stages' = IF l2right = 0 THEN <<stages[1]>> ELSE stages
    BY <1>4 DEF EndStages
  <2>2. QED
    BY <2>1, AnswersKept DEF CInv
<1>5. CASE NextCandidate
  <2>1. phase' # "pipeline" /\ UNCHANGED <<vars, stages>>
    BY <1>5 DEF NextCandidate
  <2>2. QED
    BY <2>1, AnswersKept DEF CInv
<1>6. QED
  BY <1>1, <1>2, <1>3, <1>4, <1>5, EarlierStageChains, CandidateChains DEF RelationalNext

(***************************************************************************)
(* A layer of the decoder, in the terms of the search: the list of stages  *)
(* was reversed, so what comes next in the decoder was found before.       *)
(***************************************************************************)
LEMMA SourceOfStage ==
  ASSUME SInv, CInv, phase = "pipeline", NEW k \in 1 .. NumStages
  PROVE  LET m == NumStages + 2 - k
         IN  /\ m \in 2 .. Len(stages)
             /\ SplitOf(stages[m], Layer(k))
             /\ Source(k).pos = stages[m - 1].pos /\ Source(k).bits = stages[m - 1].bits
<1> DEFINE m == NumStages + 2 - k
<1>1. /\ Len(stages) \in Nat /\ Len(flow) \in 1 .. Len(stages) - 1 /\ pc = "done"
      /\ stages[1] = Stage(LastFrame, Outs(enc))
      /\ \A j \in 1 .. Len(flow) : SplitOf(stages[j + 1], flow[j])
  BY DEF SInv, RelationalTypeOK, CInv
<1>2. m \in 2 .. Len(stages) /\ m - 1 \in 1 .. Len(flow) /\ NumStages + 1 - k = m - 1 /\ (m - 1) + 1 = m
  BY <1>1 DEF NumStages
<1>3. Layer(k) = flow[m - 1]
  BY <1>2 DEF Layer, PipeStage
<1>4. SplitOf(stages[m], Layer(k))
  BY <1>1, <1>2, <1>3, Zenon
<1>5. CASE k = NumStages
  <2>1. Source(k) = Stage(p + r, Outs(enc)) /\ m - 1 = 1
    BY <1>1, <1>5 DEF Source, NumStages
  <2>2. LastFrame = p + r
    BY <1>1, WindowDone
  <2>3. QED
    BY <1>1, <1>2, <1>4, <2>1, <2>2
<1>6. CASE k # NumStages
  <2>1. Source(k) = Stage(PipeStage(k + 1).pos, PipeStage(k + 1).known \cup PipeStage(k + 1).other)
    BY <1>1, <1>6 DEF Source, NumStages
  <2>2. m - 2 \in 1 .. Len(flow) /\ NumStages + 1 - (k + 1) = m - 2 /\ (m - 2) + 1 = m - 1
    BY <1>1, <1>6 DEF NumStages
  <2>3. PipeStage(k + 1) = flow[m - 2]
    BY <2>2 DEF PipeStage
  <2>4. SplitOf(stages[m - 1], PipeStage(k + 1))
    BY <1>1, <2>2, <2>3, Zenon
  <2>5. /\ Source(k).pos = PipeStage(k + 1).pos
        /\ Source(k).bits = PipeStage(k + 1).known \cup PipeStage(k + 1).other
    BY <2>1 DEF Stage
  <2>6. Source(k).pos = stages[m - 1].pos /\ Source(k).bits = stages[m - 1].bits
    BY <2>4, <2>5, Zenon DEF SplitOf
  <2>7. QED
    BY <1>2, <1>4, <2>6
<1>7. QED
  BY <1>5, <1>6

(***************************************************************************)
(* The query of a function that is asked under the predicate in both       *)
(* copies has the answer of the search, which asked with it in one.        *)
(***************************************************************************)
LEMMA AskedInBoth ==
  ASSUME SInv, pc = "done", NEW n \in 1 .. Len(stages),
         NEW d \in Dffs(enc) \cup Ins(enc), NEW pos \in p .. LastFrame,
         Decides(enc, p, r, stages[n].bits, stages[n].pos, d, pos, TRUE)
  PROVE  Determines(enc, p, r, stages[n].bits, stages[n].pos, d, pos)
<1>1. /\ enc \in Encoder /\ bound \in Start(enc) /\ bound \in Nat /\ r \in 0 .. bound
      /\ Shortest(enc, bound, r) /\ p = bound + bound /\ LastFrame = bound + bound + r
  BY WindowDone
<1>2. stages[n].bits \in {Outs(enc)} \cup SUBSET Dffs(enc) /\ stages[n].pos \in p .. LastFrame
  <2>1. CASE n = 1
    <3>1. stages[1] = Stage(LastFrame, Outs(enc))
      BY DEF SInv, RelationalTypeOK
    <3>2. QED
      BY <1>1, <2>1, <3>1 DEF Stage
  <2>2. CASE n # 1
    <3>1. Len(stages) \in Nat /\ \A j \in 2 .. Len(stages) : stages[j].bits \subseteq Dffs(enc) \ rest
      BY DEF SInv, RelationalTypeOK
    <3>2. n \in 2 .. Len(stages)
      BY <2>2, <3>1
    <3>3. stages[n].pos \in p .. LastFrame
      BY <3>2 DEF SInv, StagesFollow, Follows
    <3>4. QED
      BY <3>1, <3>2, <3>3
  <2>3. QED
    BY <2>1, <2>2
<1>3. \A U \in {Outs(enc)} \cup SUBSET Dffs(enc) : \A c \in Dffs(enc) \cup Ins(enc) :
        \A i, j \in bound + bound .. bound + bound + r :
          Decides(enc, bound + bound, r, U, i, c, j, TRUE) => Determines(enc, bound + bound, r, U, i, c, j)
  BY <1>1, BothAssumption, Zenon
<1>4. \A U \in {Outs(enc)} \cup SUBSET Dffs(enc) : \A c \in Dffs(enc) \cup Ins(enc) :
        \A i, j \in p .. LastFrame :
          Decides(enc, p, r, U, i, c, j, TRUE) => Determines(enc, p, r, U, i, c, j)
  BY <1>1, <1>3, Zenon
<1>5. QED
  BY <1>2, <1>4, Zenon

\* There is a function for every d of every layer.
LEMMA AllDataTold ==
  ASSUME SInv, CInv, phase = "pipeline", NEW k \in 0 .. NumStages
  PROVE  DataTold(k)
<1>1. /\ pc = "done" /\ head \in DOMAIN stages /\ Len(stages) \in Nat /\ DOMAIN stages = 1 .. Len(stages)
      /\ Len(flow) \in Nat /\ NumStages > 0
  BY DEF SInv, CInv, RelationalTypeOK, Ended, NumStages
<1>2. p \in p .. LastFrame
  BY <1>1, WindowDone
<1>3. CASE k = 0
  <2>1. Source(k) = stages[head] /\ Layer(k).other \subseteq Ins(enc) /\ Layer(k).pos = p
    <3>1. Source(0) = stages[head]
      BY <1>1 DEF Source
    <3>2. Layer(0) = [pos |-> p, known |-> FlowIns(enc), other |-> Ins(enc) \ FlowIns(enc)]
      BY DEF Layer
    <3>3. QED
      BY <1>3, <3>1, <3>2
  <2>2. \A i \in Ins(enc) : Decides(enc, p, r, stages[head].bits, stages[head].pos, i, p, TRUE)
    BY DEF CInv, TellsInput
  <2>3. ASSUME NEW i \in Ins(enc)
        PROVE  Determines(enc, p, r, stages[head].bits, stages[head].pos, i, p)
    BY <1>1, <1>2, <2>2, AskedInBoth
  <2>4. QED
    BY <2>1, <2>3 DEF DataTold
<1>4. CASE k # 0
  <2> DEFINE m == NumStages + 2 - k
  <2>1. /\ m \in 2 .. Len(stages) /\ SplitOf(stages[m], Layer(k))
        /\ Source(k).pos = stages[m - 1].pos /\ Source(k).bits = stages[m - 1].bits
    <3>1. k \in 1 .. NumStages
      BY <1>1, <1>4 DEF NumStages
    <3>2. QED
      BY <3>1, SourceOfStage
  <2> HIDE DEF m
  <2>2. m - 1 \in 1 .. Len(stages)
    BY <1>1, <2>1
  <2>3. stages[m].bits \subseteq Dffs(enc) /\ stages[m].pos \in p .. LastFrame
    BY <2>1 DEF SInv, RelationalTypeOK, StagesFollow, Follows
  <2>4. FollowsFrom(stages[m - 1], stages[m])
    BY <2>1 DEF CInv
  <2>5. ASSUME NEW d \in stages[m].bits
        PROVE  Determines(enc, p, r, stages[m - 1].bits, stages[m - 1].pos, d, stages[m].pos)
    <3>1. Decides(enc, p, r, stages[m - 1].bits, stages[m - 1].pos, d, stages[m].pos, TRUE)
      BY <2>4 DEF FollowsFrom
    <3>2. QED
      BY <1>1, <2>2, <2>3, <3>1, AskedInBoth
  <2>6. QED
    BY <2>1, <2>5 DEF DataTold, SplitOf
<1>5. QED
  BY <1>3, <1>4

\* The f of the last stage are told by the output, as computeCF was answered.
LEMMA LastHasFunctions ==
  ASSUME SInv, CInv, phase = "pipeline"
  PROVE  HasFunctions(NumStages)
<1>1. NumStages \in 1 .. NumStages /\ NumStages \in 0 .. NumStages
  BY DEF CInv, SInv, RelationalTypeOK, NumStages
<1>2. DataTold(NumStages)
  BY <1>1, AllDataTold
<1>3. Source(NumStages) = Stage(p + r, Outs(enc)) /\ enc \in Encoder /\ LastFrame = p + r
  BY <1>1, WindowDone DEF Source, SInv, RelationalTypeOK
<1>4. Source(NumStages).bits = Outs(enc) /\ Source(NumStages).pos = LastFrame
  BY <1>3 DEF Stage
<1>5. Outs(enc) # {}
  BY <1>3, OutputAssumption
<1>6. \A f \in Layer(NumStages).known : Decides(enc, p, r, Outs(enc), LastFrame, f, Layer(NumStages).pos, FALSE)
  <2>1. SplitOf(stages[NumStages + 2 - NumStages], Layer(NumStages))
    BY <1>1, SourceOfStage
  <2>2. QED
    BY <2>1 DEF SplitOf
<1>7. QED
  BY <1>2, <1>4, <1>5, <1>6 DEF HasFunctions, FlowTold

(***************************************************************************)
(* The inductive invariant of the whole.  The search does nothing more     *)
(* once it has its pipeline, so what follows works on the lists it left.   *)
(***************************************************************************)
GInv ==
  /\ SInv
  /\ CInv
  /\ GenTypeOK
  /\ part = "search" => layer = 0
  /\ FlowOnly

\* It holds before the search starts.
LEMMA GInvInit == GenInit => GInv
<1> SUFFICES ASSUME GenInit PROVE GInv
  OBVIOUS
<1>1. SInv /\ CInv /\ RelationalTypeOK
  BY SInvInit, CInvInit DEF GenInit, SInv
<1>2. part = "search" /\ layer = 0 /\ NumStages = 0
  BY DEF GenInit, RelationalInit, NumStages
<1>3. QED
  BY <1>1, <1>2 DEF GInv, GenTypeOK, FlowOnly, Stopped

\* A search with a pipeline has ended.
LEMMA SearchOver == SInv /\ RelationalNext => phase # "pipeline"
<1> SUFFICES ASSUME SInv, RelationalNext, phase = "pipeline" PROVE FALSE
  OBVIOUS
<1>1. pc = "done"
  BY DEF SInv, RelationalTypeOK
<1>2. QED
  BY <1>1 DEF RelationalNext, Minimize, Next, MinimizeR, MinimizeL, AssertL, DropOutput, KeepOutput,
     AssertL2Right, LastStage, EarlierStage, EndStages, NextCandidate, Candidate

\* What follows the search changes nothing of it.
LEMMA SearchKept ==
  ASSUME GInv, UNCHANGED allVars
  PROVE  /\ SInv' /\ CInv' /\ RelationalTypeOK' /\ phase' = phase /\ NumStages' = NumStages
         /\ \A k : DataTold(k)' <=> DataTold(k)
<1>1. SInv' /\ CInv'
  BY SInvNext, CInvNext DEF GInv
<1>2. RelationalTypeOK'
  BY <1>1 DEF SInv
<1>3. UNCHANGED <<enc, p, r, stages, head, flow, phase>>
  BY DEF allVars, vars, stageVars
<1>4. \A k : DataTold(k)' <=> DataTold(k)
  BY <1>3 DEF DataTold, Layer, Source, PipeStage, NumStages
<1>5. QED
  BY <1>1, <1>2, <1>3, <1>4 DEF NumStages

\* Every step preserves the invariant.
LEMMA GInvNext == GInv /\ [GenNext]_decoderVars => GInv'
<1> SUFFICES ASSUME GInv, [GenNext]_decoderVars PROVE GInv'
  OBVIOUS
<1> USE DEF Stopped
<1>1. CASE UNCHANGED decoderVars
  <2>1. UNCHANGED allVars /\ part' = part /\ layer' = layer
    BY <1>1 DEF decoderVars, genVars
  <2>2. QED
    BY <2>1, SearchKept DEF GInv, GenTypeOK, FlowOnly
<1>2. CASE Search
  <2>1. RelationalNext /\ part' = part /\ layer' = layer
    BY <1>2 DEF Search, genVars
  <2>2. part = "search" /\ layer = 0
    BY <2>1, SearchOver DEF GInv, GenTypeOK
  <2>3. SInv' /\ CInv' /\ RelationalTypeOK'
    BY <2>1, SInvNext, CInvNext DEF GInv, SInv
  <2>4. NumStages' \in Nat
    BY <2>3 DEF RelationalTypeOK, NumStages
  <2>5. GenTypeOK'
    <3>1. part' = "search" /\ layer' = 0 /\ 0 \in 0 .. NumStages' + 1
      BY <2>1, <2>2, <2>4 DEF NumStages
    <3>2. QED
      BY <2>3, <3>1 DEF GenTypeOK
  <2>6. FlowOnly'
    BY <2>1, <2>2 DEF FlowOnly
  <2>7. QED
    BY <2>1, <2>2, <2>3, <2>5, <2>6 DEF GInv
<1>3. CASE StartPredicates
  <2>1. UNCHANGED allVars /\ phase = "pipeline" /\ part' = "predicates" /\ layer' = 1
    BY <1>3 DEF StartPredicates
  <2>2. NumStages \in Nat /\ NumStages > 0
    BY <2>1 DEF GInv, CInv, NumStages, SInv, RelationalTypeOK
  <2>3. QED
    BY <2>1, <2>2, SearchKept DEF GInv, GenTypeOK, FlowOnly
<1>4. NumStages \in Nat
  BY DEF GInv, GenTypeOK, RelationalTypeOK, NumStages
<1>5. CASE inferPredicateUniq_Pipe
  BY <1>4, <1>5, SearchKept DEF GInv, GenTypeOK, FlowOnly, inferPredicateUniq_Pipe
<1>6. CASE StartFunctions
  BY <1>4, <1>6, SearchKept DEF GInv, GenTypeOK, FlowOnly, StartFunctions
<1>7. CASE genDecoderFunction
  <2>1. /\ UNCHANGED allVars /\ part = "functions" /\ layer <= NumStages
        /\ \/ layer' = layer + 1 /\ part' = part
           \/ ~HasFunctions(layer) /\ part' = "no_function" /\ layer' = layer
    BY <1>7 DEF genDecoderFunction
  <2>2. phase = "pipeline" /\ layer \in 0 .. NumStages
    BY <1>4, <2>1 DEF GInv, GenTypeOK
  <2>3. DataTold(layer) /\ HasFunctions(NumStages)
    BY <2>2, AllDataTold, LastHasFunctions DEF GInv
  <2>4. FlowOnly'
    BY <2>1, <2>3, SearchKept DEF FlowOnly
  <2>5. GenTypeOK'
    BY <1>4, <2>1, <2>2, SearchKept DEF GInv, GenTypeOK
  <2>6. QED
    BY <2>1, <2>4, <2>5, SearchKept DEF GInv
<1>8. CASE Write
  BY <1>4, <1>8, SearchKept DEF GInv, GenTypeOK, FlowOnly, Write
<1>9. QED
  BY <1>1, <1>2, <1>3, <1>5, <1>6, <1>7, <1>8 DEF GenNext

\* The invariant holds throughout.
THEOREM GenInv == GenSpec => []GInv
  BY GInvInit, GInvNext, PTL DEF GenSpec

(***************************************************************************)
(* No stage is worked on before the search has its pipeline, and no layer  *)
(* that is not of it.                                                      *)
(***************************************************************************)
THEOREM GenTypeCorrect == GenSpec => []GenTypeOK
<1>1. GInv => GenTypeOK
  BY DEF GInv
<1>2. QED
  BY <1>1, GenInv, PTL

(***************************************************************************)
(* The functions that genDecoderFunction cannot find are of flow control   *)
(* bits, and none of them of the last stage.                               *)
(***************************************************************************)
THEOREM FunctionsFlowOnly == GenSpec => []FlowOnly
<1>1. GInv => FlowOnly
  BY DEF GInv
<1>2. QED
  BY <1>1, GenInv, PTL
=============================================================================
