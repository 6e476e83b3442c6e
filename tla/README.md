# compsyn in TLA+

compsyn is a set of OCaml programs that synthesise a decoder from the Verilog of
an encoder. The encoder is unrolled into a CNF formula over two copies of
itself; SAT queries on growing unrollings find out which input bits the output
determines; Craig interpolants of the refutations become the circuits of the
decoder and of the condition `valid(f)` under which it works. This directory
models the newest of the programs, `src/vp/compsyn_pred`, with the interpolation
code it shares (`src/vp/share/interp.ml`) and the SAT solver it is linked with,
which logs the proofs the interpolation reads
(`src/other/MiniSat-ocaml-0.2.v1.14_simproof/MiniSat/src`).

The program is sequential. What is hard about it is not concurrency but

- **long sequences of queries** whose answers are combined across bounds: a bit
  found unique in a small window is relied on when a larger one is loaded;
- **nondeterminism of the solver**: which model it returns decides which bits
  are given up together and which context is explored next, which proof it
  returns decides how far an interpolant reaches, and the result must be right
  for all of them;
- **stale state**: one incremental solver serves all the bits of a pass and is
  reloaded for the next; the cover of one bound is forced in the next one;
- **termination**: the loops over bounds have no limit, and end because of a
  property of the encoder's state graph;
- **in-place updates** in the solver: clauses that change the order of their
  literals, watcher lists that are walked while they change, a log whose numbers
  must fit whatever was learnt and forgotten;
- **boundaries**: frames counted from 0 to p+l+r, segments that share their end
  frames, indices that are one more than a maximum.

## 1. Inventory

State, operations and correctness of each component; line numbers are those of
`src/vp/compsyn_pred/elabmod.ml` unless another file is named.

| Component | State it keeps | Operations | What makes it correct | Module |
|---|---|---|---|---|
| Two-copy unrolling: `construct_nonloop` 2611, `construct_loop` 2306, `double_loop` 2744, `connect_dffpair` 2868, `try_assertion` 635 | `clause_list_multiple`, `last_index`, `dff_pair`, a lock | build the formula for prefix p, left l, right r | it allows exactly the pairs of runs that put out the same in frames p..p+l+r; more context never confuses more; a confusion inside loops stays for ever | `Encoder`, `EncoderFrames`, `Unroll` |
| Input classification: `procDetermineUniqueInputs` 659 | an array (bit, result, p, l, r), the bound, the incremental solver | per bound: query each unknown bit, then again with loops; a model decides other bits as well | each bit decided once and rightly; asserts hold; it ends | `UniqueInputs`, `InputClasses` |
| Predicate inference: `inferPredicateUniq` 2140, `inferSATFormula_plr*` 2217-2304, 2701-2718; `allsat_interp` in `interp.ml` 718 | bound, the lists `..._old_nonloop`, `..._old_loop`, the cover being built | per bound: cover what is open, then what is open in loops; enlarge each model by an interpolant | `valid(f)` excludes all f that the final window leaves open; it ends | `InferPredicate`, `Predicate`, `PredicateFrames` |
| Interpolation: `characterization_interp`, `characterization_interp_AB`, `read_proof_classfyAB` in `interp.ml`; the renaming in `dumpsat.ml` | the proof trace, one circuit per entry | copy the clauses, tell A from B, walk chains | the circuit is true where the target must be, false where it must not | `CraigInterp` |
| Window minimisation: `minimizeLR` 824, `minimizeL2Right` 1678, called at 1000 | p, l, r, l2right | shrink the window one query at a time | the window still determines valid inputs and no frame can be spared | `MinimizeWindow` |
| CNF encoding of the netlist: `encode_oneInstance2SAT_step1` and the `encode_*` methods 2975-4258 | `name_index_lst`, `clause_list_1inst`, `last_index` | give names their variables, encode statements and expressions under guards | the models of the clauses are the steps that Verilog gives the module; no variable has two owners | `Gates`, `Operators`, `EncodeExp`, `EncodeModule`, against `Verilog` |
| Index allocation and lock of the unrolling: `alloc_index`, `set_last_index`, `lock_multiple` 4593-4652 | `last_index`, lock | allocate, append clauses | auxiliary variables never meet those of the instances; the list is unlocked only while it is written | `Unroll` |
| Pipeline stage search: `relational_code` 1028-1206, `findUniqDecidedList` 1491, `checkRevRealList`, `computeCF` | list of stages, remaining registers, the candidate | one query per register bit and stage, from the outputs back | each stage follows from the outputs; one of them tells the input | `RelationalCode` |
| Solver: `MiniSATWrap.C`, `Solver.C`, `VarOrder.h` | clauses in memory, watcher lists, trail, reasons, levels, heap, the log | add clauses, solve under assumptions, learn, minimise, restart, forget, simplify | the answers are right, every query gets one, no assert fails, each logged chain derives the clause it is logged for | `Solver` (log: `ResolutionLog`), against `SatSession` |
| Proof log: `Proof.C`, `save_proof`, `read_proof_classfyAB` | a file of numbers | write, read back, throw unused entries away, renumber, hand over | what arrives is still a refutation of the clauses | `ProofTrace` |
| Circuits: `construct_ITPLST` .. `encode_assertion`, `simplify_withBDD` in `interp.ml` | arrays of circuits that refer to places | build along a proof, join, invert, shift, simplify, write as clauses | the clauses exclude exactly what the circuit stands for | `Circuits` |
| Decoder: `inferPredicateUniq_Pipe` 2094, `genDecoderVerilog` 1278, `genDecoderFunction` 1832 | the stages, split into f and d | a predicate for each stage, a function for each bit of the input and of each stage, from the stage before it in the decoder; print Verilog | each function exists, over the bits and frames it is asked of | `GenDecoder`; the text is not modelled |
| Verilog front end, drivers, list helpers | a syntax tree | lexing, parsing, dispatch | data conversion | not modelled |
| Predecessor programs (`compsyn_halting*`, `compsyn_infer_multidec*`, `compsyn_relarional*`, `compsyn_pipeline`) | - | - | earlier forms of the same algorithms | not modelled |

How they interact. `relational_code` in `elabmod.ml` elaborates and encodes the
netlist, classifies the bits, infers `valid(f)` over the unique ones, minimises
the window that the inference ended with, searches pipeline stages, and
characterises each decoder bit by interpolation. Every step is a call that
returns before the next starts; the shared state is the object's clause list
and `last_index`, rebuilt from one instance's clauses for every formula, and the
solver object inside one pass. `PROJECT.json` lists the hazards with their
lines.

## 2. Modules

An arrow reads "is extended or instantiated by".

```
Clauses -> Gates -> Operators -> EncodeExp -> Verilog -> EncodeModule -> MCEncodeModule
   |          |                VerilogOperators --^
   |          `---> Unroll -> UnrollMeaning -> MCUnroll
   `-> Models -> EncodeModule, UnrollMeaning         Encoder -> UnrollMeaning

Encoder -> EncoderFrames -> MCEncoders -> MCUniqueInputs, MCInferPredicate, MCGenDecoder
   `-> Predicate -> PredicateFrames -> MCWindow, MCInferPredicate

UniqueInputs   -> MCUniqueInputs       (InputClasses is its abstract specification)
InferPredicate -> MCInferPredicate
MinimizeWindow -> RelationalCode -> GenDecoder -> MCGenDecoder
CraigInterp    -> MCCraigInterp        (extends Clauses)

Clauses -> ResolutionLog -> Solver, ProofTrace -> MCSolver   (SatSession is Solver's
                 Gates -> Circuits, MCCraigInterp ---^        abstract specification)

X_proofs extends X, for X = Unroll, Encoder, Predicate, UniqueInputs, InferPredicate,
                            CraigInterp, Solver; RelationalCode_proofs extends GenDecoder;
                            Unroll_proofs also Operators and VerilogOperators;
                            CraigInterp_proofs takes ResolutionLog by INSTANCE,
                            SolverAnswers_proofs extends Solver_proofs and ProofTrace
```

From the netlist to the queries, bottom up:

**Clauses** and **Gates** are the vocabulary: a clause is a set of non-zero
integers, and each `encode_` method that writes a gate is an operator with the
code's name. `Fresh` is what `alloc_index` hands out, one variable at a time.

**Operators** is what `encode_exp` writes for one operator, given the variables
of its operands: `Operator` and `Reduction`, and the `ResultWidth`. **EncodeExp**
is the recursion over an expression: the clauses, the variables of its bits, and
how far `last_index` gets. A reduction takes its variable before its operand is
encoded, the other operators after; `<=` and `>=` are rewritten with a strict
comparison and an equality. `Width` is 0 where `encode_exp` ends the program
(operands of different widths, an offset out of range).

**EncodeModule** is `encode_oneInstance2SAT_step1` as a state machine:
`encode_explictname` gives one name its variables, in any order, as the code
follows its hash table; then `work` holds the statements to encode with the guard
each is under, and there is one action for each kind of statement
(`encode_nba`, `encode_if`, `encode_if_else`, `encode_case`,
`encode_seq_block`). The else branch is encoded before the then branch, as
OCaml evaluates the operands of `@` from the right. A case statement is
rewritten into nested `if`s one item at a time. `FatalError` is every
`assert false` and exit of these methods.

**VerilogOperators** and **Verilog** are the reference: what an operator computes,
with vectors as numbers, and the values of expressions and what nonblocking
assignments write. **Models** is the solver: the valuations that satisfy a list
of clauses.

**Unroll** is the other half of the encoding: the methods `construct_nonloop`,
`construct_nonloop_uniq_nonuniq`, `construct_nonloop_bitIs`, `construct_loop`
and `construct_instance_loop`, split where `last_index`, the clause list or the
lock changes: `Begin`, `Instantiate`, `Connect`, `CompareOutputs`, `BitIs`,
`BeginLoop`, `ComparePair` (one pair of frames of `double_loop`), `EndRegion`,
`EndLoop`. Variable x of frame k is x + k * `final_index_oneinst`.
**UnrollMeaning** states that the models of these clauses are the assignments
that `Encoder` has, which links the variables to everything below. Of the clauses
of one instance it assumes that their models are the transitions of the encoder
(`EncoderAssumption`, the registers and vectors being where
`encode_oneInstance2SAT_step1` says), and of a partition that its bits are protocol
inputs (`PartitionAssumption`, as `listUniqBitI` and `listNonuniqBitI` are).

**Encoder** says what the formulas allow, as sets of assignments. An encoder is
a record of state and input valuations, next-state, output and assertion
functions; a frame is what one assignment says of both copies at one instant; a
window is a chain of frames 0..p+l+r that puts out the same in frames p..p+l+r.
Frame 0 is in any state, as in the code, which asserts no reset. `Nonloop` and
`Loop` are the pairs of current inputs (frame p+l) that `construct_nonloop` and
`construct_loop` allow. `double_loop` compares frames by `Key`, the first bit of
every register in both copies, because the code does (see the findings).
What is abstracted here: clauses and variable numbers, which `Unroll` has; the
non-protocol inputs, which the code leaves out of the input list that is
classified and which here do not exist.

**EncoderFrames** computes the same sets frame by frame (reachable pairs of
states instead of whole assignments), so that long windows can be used;
**MCWindow** checks that it computes the same.

**UniqueInputs** is the loop of `procDetermineUniqueInputs`: `NextBound`,
`ProcBitNonloop`, `LoadLoop`, `ProcBitLoopUnsat`, `ProcBitLoopSat`, `EndLoop`,
`Finish`. The variables are those of the code; `models` is what the incremental
solver's clauses allow the current inputs to be, and a satisfiable answer picks
any of them. `ProcBitLoopSat` includes the whole of `procdiffv`, which
overwrites the array from its first bit and may stop at its assert half-way.
**InputClasses** is what it promises: undecided bits become what they truly
are, once, in any groups, and all do. `UniqueInputs!Classifies` is the
refinement, under the identity on `enc` and `res`.

**Predicate** cuts the formulas of the inference into contexts, as
`allsat_interp` does: a context fixes everything of an unrolling except f; it
has the f that make the target true (`must`) and those that do not make it false
(`may`). **PredicateFrames** computes them frame by frame; `MCWindow`
compares the two.

**InferPredicate** is the loop over bounds: `NextBound`, `Unique` (nothing is
open, the end), `Enlarge` (one round of `allsat_interp`: some context not yet
covered, and *any* set between `must` and `may` joins the cover), `EndNonloop`
(the cover replaces the list of the last bound), `EndLoop` (it joins the list
excluded for good). `Restrict` is the forcing of the predicates of earlier
bounds in both copies; f outside them contradict both sides, so an interpolant
may or may not take them in.

**CraigInterp** justifies `Enlarge`: it is `characterization_interp` from the
clauses to the circuit. Literals are integers as in the code, the copy of the
clauses is made by adding `max_index` to the variables that are not shared, and
the proof is *any* resolution derivation (`BeginChain`, `Resolve`, `EndChain`).
Each entry gets the circuit the code builds: a clause is of B iff one of its
variables exceeds `max_index`; a pivot is a conjunction iff B knows it. A
circuit is the set of valuations of the shared variables that make it true.

**MinimizeWindow** is the part of `relational_code` around `minimizeLR` and
`minimizeL2Right`, with the two asserts that follow them as actions of their
own (`AssertL`, `AssertL2Right`): a failed assert is a value of `pc`.

**RelationalCode** goes on where that ends. `LastStage` asks which registers the
outputs of the last frame determine in that frame; `EarlierStage` (`doproc`)
which of the others the latest stage determines one frame earlier; `EndStages`
splits off what is left (`getHeadListTail`); `NextCandidate` and `Candidate`
(`checkRevRealList`, `getPosList`, `computeCF`) look for the stage closest to the
input that determines it. `Decides` is one query; `Encoder!Decided` says what its
formula allows, and `MCGenDecoder` computes it frame by frame.
`Minimize` leaves the stages alone, so the composed machine refines
`MinimizeWindow` (`RelationalCode_proofs!Minimises`).

**GenDecoder** is the end of the program. The layers of the decoder are the input
and the stages of the pipeline, each split into the flow control bits f, which the
output tells without the predicate, and the data d. `inferPredicateUniq_Pipe`
takes one stage at a time: if the output leaves some d open, there must be f to
state a predicate over. `genDecoderFunction` takes one layer at a time: `Source`
is the bits and the frame that its functions are over, and `HasFunctions` what the
interpolation asserts, that two copies of the clauses with the source in common
do not give a bit two values. The clauses are `instCNF_4f` for f, without the
predicate (`FlowTold`, a query like those of the search), and `instCNF_4d` for d,
with it in both copies (`DataTold`; `Encoder!Determined` is its formula). An assert
that fails leaves `part` at `no_flow` or `no_function`. The predicates of stages go
into a listing and into nothing else, so only whether there is one is kept.

**Solver** is the solver watcher by watcher: `propagate` takes a literal
(`TakeNext`) and visits its watchers one at a time in any order
(`VisitSatisfied`, `VisitNewWatch`, `VisitUnit`), each exchanging the literals of
the clause as the code does; `analyze` with its minimisation and its log is the
operator that `SearchConflict` applies at once, as nothing can happen in between.
The trail, levels, reasons, the heap of `VarOrder`, ids of units and the log are
variables; clauses live at addresses, so that a dangling reference can be said.
Activities and random numbers only choose: which variable is decided, which
watcher is next, which learnt clauses `reduceDB` drops are left open.
`MCSolver!Promise` is the refinement of **SatSession**, what the programs take the
solver to be: every query is answered, by a model or rightly by UNSAT.

**ResolutionLog** is the log in memory: roots and chains, each named by its
position; the records of clauses thrown away name none and are kept apart
(`deletions`), with the number of clauses before them. **ProofTrace** what becomes of it: the
numbers of its file (distances between ids, sorted literals), `traverse`,
`checkProof`, which keeps and renumbers what the last entry rests on, the array
that `save_proof` hands to OCaml, and how `read_proof_classfyAB` cuts it.

**Circuits** is what OCaml makes of it: one circuit for each entry with the
shortcuts of `do_varcls_lst` (constants left out, neighbouring conjunctions
flattened, references followed), `or_assertion`, `and_assertion`,
`invert_assertion`, `shiftAssertion`, `simplify_withBDD` (a BDD is the set of
valuations it holds of; its cubes are the paths for *any* order of the
variables), and `encode_assertion`, which writes each entry once. `MCSolver`
chains the three: solver, log, array of numbers, circuits, clauses.

How the assumptions of one module are met by another:

| Assumption | of | met by |
|---|---|---|
| `UnrollingAssumption` | UniqueInputs | `Encoder_proofs`: `LoopIsNonloop`, `NonloopShrinks`, `CopiesExchange` |
| `ContextAssumption`, what is open shrinks | InferPredicate | `Encoder_proofs!OpenShrinks` |
| `ContextAssumption`, an interpolant exists | InferPredicate | `Encoder_proofs!QueriesSolvable` |
| an interpolant lies between `must` and `may` | `Enlarge` | `CraigInterp_proofs!SpecInterpolates` |
| the proof is a resolution derivation from the clauses | CraigInterp | `SolverAnswers_proofs!SpecKeptRefutes` of the entries that `checkProof` keeps, `MCSolver!SavedRefutes` as they are written and read back |
| a query is answered rightly | all | `SolverAnswers_proofs!AnswersRight` |
| a query is answered | all | `MCSolver!Promise` |
| `ChainAssumption` | RelationalCode | `Encoder_proofs!DecidedChain` |
| `OutputAssumption` | RelationalCode | `Encoder_proofs!LateQueryDecides` |
| `BothAssumption` | GenDecoder | `Encoder_proofs!DecidedDetermined` |
| `QueryAssumption`, trading l for p only loses | MinimizeWindow | `Encoder_proofs!TradeLeftForPrefix` |
| `StartAssumption` | MinimizeWindow | `InferPredicate!Covered` |
| `InstanceAssumption` | Unroll | `EncodeModule!TypeOK` for what one module's encoding leaves behind |
| `EncoderAssumption` | UnrollMeaning | `EncodeModule!StepsAreModels`, `ModelsAreSteps`, `OneModelPerStep` |
| the assignments of an unrolling are `Windows` and `LoopWindows` | Encoder, and all that use it | `Unroll_proofs!SpecMeansTheQuery` |

## 3. Runs

| Run | Module, bounds | Question | States |
|---|---|---|---|
| `solver` | MCSolver; 493 sessions of up to five variables: all but a clause of a cube and subsets of chained implications with the log on, two queries under assumptions on subsets of six clauses, every refutation that `characterization_interp` asks for the gates of `craig`, and cases for each rare path | Are the answers right and does every query get one, whatever is decided, visited or forgotten; does the log refute, and still after it was renumbered and read back; do the clauses of the circuit exclude what they should from the next query? | 104,712 |
| `uniq` | MCUniqueInputs; all 256 machines of one register bit and one input bit, two delay lines, a count-down (with a second input that is tied), 15 encoders of two input bits; bounds 3..6 | Are the bits classified rightly, at the least bound, is none decided on half of the evidence, do the asserts hold, and does it end? | 2,297 |
| `uniq_wide` (violation) | vector registers | Is a bit that is given up lost at every bound? No. | |
| `window` | MCWindow; every encoder of one register and one input in which the assertion allows at most `NumAllowed` transitions, 64 encoders of two input bits; last frame up to `MaxFrame` (answers about single bits: below it), for two bits up to `MaxRuns` sequences of frames | Are the frame-by-frame queries, contexts and answers about single bits exact; do confusions in loops last; do interpolants exist? | 7,520 |
| `predicate` | MCInferPredicate; 10 named encoders and 72 samples (those with a unique bit); bounds up to 5 | Does `valid(f)` exclude every open f whatever the interpolants; does it end? | 1,400 |
| `minimize` | MCGenDecoder; 14 named encoders and all 256 of one register and one input bit, those that have a unique bit; start bounds 3 and 4 | From the minimisation to the decoder: does the window stay sufficient, is it minimal; do the stages follow from the outputs, does one tell the input, is there a pipeline unless the window is one frame; are only functions of flow control bits missing; does it end? | 2,636 |
| `decoder` (violation) | an encoder that puts out one flow control bit before the rest | Is a decoder written for every pipeline? No. | |
| `minimize_l`, `minimize_l2right` (violations) | a self-synchronising encoder; one with skewed outputs | Do the asserts of `relational_code` hold? No. | |
| `craig` | MCCraigInterp; 11 gates with shared and fixed inputs; one chain, two for the full exclusive or | Is the circuit an interpolant whatever the proof? | 74,538 |
| `encode` | MCEncodeModule; 33 modules: every operator on vectors of two bits with ranges in either direction, nested expressions, clocked and other always blocks, modules that are refused; every order of the names | Are the models of the clauses the steps of Verilog? | 1,261 |
| `unroll` | MCUnroll; seven encoders, windows of up to ten frames for those without a choice of inputs, two or three frames for the others | Do the clauses of each query mean what the other modules take it to mean? | 451 |

Why the bounds are enough. A machine of k state bits has pairs of states that
number 4^k, so windows with loops appear at small bounds: every unknown bit of
the encoders used is decided below `MaxBnd` (this is what `Classifies` and
`Ends` show; if the cap came first the runs would fail their liveness). The
longest a bit takes is the delay line of three or the count-down of three bits,
which need bounds 4 and above; `UniqLeast` and the mutant that skips bounds
tell bounds apart. `MaxChains` is the number of derived clauses of a proof;
every query of `craig` reaches the empty clause within it, the exclusive or with
a chain that cites an earlier chain. `Suite` and the other MC constants are
choices of encoders, and `MaxBnd`, `MaxB`, `MaxBound`, `MaxFrame`, `MaxRuns`,
`MaxChains` the only caps. In `solver` nothing is capped: a session is finite,
and `FirstNofConflicts = 2` in place of 100 makes restarts happen in small
formulas. With three variables and nearly all clauses over them the search learns
several times, jumps back over levels and restarts; the special sessions are one
each for a reason to shorten the learnt clause, learnt clauses to forget, facts
learnt under an assumption, conflicts while clauses are added. In `minimize` the
machines include delay lines of three stages, so that stages are found one frame
after the other, and encoders whose input only the outputs tell.

In `encode` an operator sees every pair of two-bit operands, three bits in one
addition, so every row of the one-bit gates and every carry occurs; a chain of
two has a first bit, a last bit and a step between. In `unroll` the seven
encoders have registers of one bit and of two, up to two inputs and outputs, and
an assertion or none. Only those whose inputs are fixed (a counter, two bits
that change places, a register that loads under an assertion) are few enough to
be unrolled with loops, up to p = l = r = 3; the models of the loop clauses of
the others would be too many to enumerate. `IsVector` and `InstanceAssumption`
are checked for all seven.

Deadlock is checked in `unroll`, where the program can always build another
query, and in `solver`, which must not get stuck before its session is over
(`Terminating`). It is not checked elsewhere: all the other machines end (a result, an
assert, a fatal error, or the cap of the enumeration), and that they end rightly
is a property of its own.

**Fairness.** `WF_vars(Next)`: the program is sequential and runs on while it
has something to do, a solver call being one step. That is what the liveness
properties need: nothing is assumed about which model or proof the solver gives.
In `Solver` it is written `[]<>Over \/ []<><<Next>>_vars`, which is the same where
no deadlock exists and spares evaluating `ENABLED`; it makes no choice of the
solver fair.

**Abstraction of `Truth`.** In `uniq` a bit is recoverable if some bound up to
the cap rules out confusion. That it is not recovered at a bound beyond the cap
follows for encoders with one-bit registers from `Encoder_proofs!GivenUpRightly`.

### Findings

1. `uniq_wide`: `double_loop` compares frames by the first bit of each register.
   Two frames that differ in other bits of a vector register count as a loop, so
   a bit of a delay line held in one vector is given up though a decoder exists.
   Netlists whose registers are all one bit wide (as after synthesis) are safe,
   which `GivenUpRightly` states.
2. `minimize_l`: `assert (l=0)` fails for encoders that need an output from
   before the input (self-synchronising scramblers).
3. `minimize_l2right`: `assert (l2right=r)` fails for encoders that spread one
   input word over two output words.
4. `decoder`: the functions of flow control bits are asked for without the
   predicate, from registers that tell them under it only. For an encoder that puts
   out one of these bits at once and its data an instant later the bit is unique,
   but the minimised window does not compare its output any more, and the program
   stops at "FATAL : it is SAT in characterization_interp_AB". `FlowOnly`, proved for
   every encoder, says that no other function can be missing.

Not runs of their own:

- If minimisation leaves r = l2right = 0 (an encoder that is purely
  combinational), `getHeadListTail` takes the only stage of registers away and
  `computeCF` stops at its `assert false`. `PipelineUnlessAlone` says that this is
  the only way to get there.
- A stage may have no f, as when data is held in two registers that differ; then
  `inferPredicateUniq_Pipe` has nothing to state a predicate over and
  `characterization_interp_AB` stops at `assert ((List.length oidxlst)>0)`. The
  encoder `DualRail` of `minimize` ends there.
- "should always solvable" (`interp.ml:1389`) is said of the negated cover, which is
  unsatisfiable if every f is excluded, as for the encoder `Mute` of `predicate`;
  the program goes on with a false predicate.

## 4. Proofs

`*_proofs.tla` hold the theorems; each holds for every value of the constants
that satisfies the module's named assumptions.

- **Encoder_proofs** (no assumption): `MoreContext` restricts a window of a
  larger unrolling to a smaller one inside it; `NonloopShrinks`,
  `TradeLeftForPrefix`, `LoopIsNonloop`, `CopiesExchange` follow. `LoopPumps` is
  the reason that the halting algorithm may give a bit up: with one-bit
  registers, equal keys are equal states (`LoopFrames`), so a window can go
  round each of its three loops once more (`RepeatWindow`, `GrowRight`,
  `GrowLeft`, `GrowPrefix`) and is again a window with three loops, larger in
  p, l and r. `GivenUpRightly` repeats that as often as a bound needs. It is
  an induction, which the prover's induction theorems cannot be instantiated for;
  it is done by `Least`, the least element of a set of naturals, from
  well-foundedness of strict inclusion on finite sets. `DecidedChain` and
  `LateQueryDecides` meet the assumptions of RelationalCode, `DecidedDetermined`
  that of GenDecoder.
  Its last part is about contexts: what `allsat_interp` must cover is what the windows leave
  open (`NonloopTargets`), so it shrinks with the bound (`OpenShrinks`). A context
  and f fix all inputs and the first states, hence by induction over the frames
  the whole run (`ContextFixesRun`): no f makes the target true and false in one
  context, and the interpolant exists (`QueriesSolvable`).
- **UniqueInputs_proofs**: the inductive invariant adds to the properties what
  the solver holds at each `pc` (`Loaded`), that unique bits stay unconfused at
  the *present* bound (`UniqKept`, by `UnrollingAssumption`), and at which
  bounds an unknown bit was confused (`UnknownConfused`). Without `UniqKept` the
  assert of `procdiffv` cannot be shown: it compares an old result with a model
  of the present loop formula. `OnePolarity` turns one query into both.
- **InferPredicate_proofs**: the cover of a bound is complete only within the
  predicates forced, so the invariant says what was forced: the list of the
  bound before, which covers what is open now because less is open now.
- **CraigInterp_proofs**: `PartialInterpolant` is inductive as it stands. Roots
  of A, roots of B and the two kinds of pivot are the cases; a clause of shared
  variables only, which the code cannot classify, is a right root of both. The
  renamed clauses of a model give a model of the copy. `LogInterpolates` says
  the same of a given list of entries: if they refute the two copies (`Refutes`: the
  clauses of the chains can be filled in so that every entry is right and the last one
  empty), every entry gets a circuit by the rules of `characterization_interp_AB`
  (`CircuitsOf`; that there is one is `CircuitsExist`, by the order of the entries),
  and the circuit of the last entry is an interpolant. The premise is what
  `SpecKeptRefutes` below concludes of the solver, so the two meet in the definitions
  of `ResolutionLog`. That no root is a tautology is part of it, and needed: with a clause that
  holds a literal and its negation, taking both out at a pivot is not a resolution.
- **Unroll_proofs**: `RedAndMeaning` and `EquvResMeaning` say that the target of
  a comparison of vectors is true exactly if they agree, whatever their length.
  `OperatorMeaning` compares `Operators` with `VerilogOperators`: wherever the
  clauses of an operator hold and the constant FALSE is false, its result has the
  value that Verilog gives it on the values of its operands, for operands of any
  length that `encode_exp` accepts (`Fits`). `ReductionMeaning` says it of the
  reductions, with the converse. `OperatorExtends` is the other half, without which
  clauses that contradict themselves would do as well: every valuation of the
  variables before the operator extends to those it takes, and the variables after
  them keep their values. The adder and the comparisons are chains of gates.
  `LessChain` and `SumChain` relate a chain, bit by bit, to the numbers that the
  vectors stand for (`NumberIs`), by the induction on lengths that `Induction` gives
  for a set of positions (`LeastMember`); `ChainExists` supplies the carries.
  `SpecTypeOK` is the discipline of indices: no clause of a query is about a
  variable that was not handed out. Its inductive invariant `IInv` adds that the
  variables of all 2(p+l+1+r) instances are below `last_index` once they are
  there (`Allocated`), because the comparisons read vectors at sums of five kinds
  of offsets (`AtFrameVector`, `AtFramesVector`, `StateVectors`), and that the
  frames compared lie within the window and in order (`InRegion`).
  `SpecMeansTheQuery` joins the variables to `Encoder`: for every encoder, window and
  partition, whenever the program may ask the solver, the models of the clauses are
  exactly the pairs of runs whose current inputs are as asked for, and the target is
  true in exactly those that `Windows` or `LoopWindows` has. `MeansTheQuery` speaks of
  finished queries only; what is inductive is `Means` (`SpecMeans`), which says at
  every point of the construction what the clauses so far mean (`Meaning`: the
  instances, the connections, the comparison of the outputs and of the inputs, the
  loops over the pairs compared so far, `Done`), and conversely that a valuation of
  the frames that is as asked for extends to the variables behind them. Without that
  half clauses that rule runs out would pass. `Progress` keeps which region is looked
  at and how many are done. `DecodedRuns`, `OutputsMeaning`, `OnSplitMeaning` and
  `StatesMeaning` translate the comparisons to the frames (`StatesMeaning` to `Key`,
  the first bit of each register); `EncodedRuns` gives a pair of runs its valuation,
  frame by frame, from the models that `EncoderAssumption` says there are.
  `ModelsMeaning` says that the answers of `Models` are the valuations that satisfy the
  clauses, whatever the order in which it looks at them.
- **RelationalCode_proofs**: first the minimisation. `LocallyMinimal` needs that
  the query that stopped `minimizeR` stays satisfiable while `minimizeL` moves
  frames. Then the search: `Minimises` (it leaves the window alone) carries those
  theorems over, so p, r and l2right are where minimisation left them. The
  invariant `SInv` adds where the latest stage and the candidate are and that
  r = l2right. `StagesFollow` is inductive because each query says that a stage
  follows from the one after it, and `ChainAssumption` closes the chain;
  `PipelineShape` derives what `getPosList` returns. Last the decoder: `CInv` keeps
  of the search what a function needs, that each stage follows from the one found
  before it and that the pipeline is the beginning of the list, split. `SourceOfStage`
  takes that through the reversal of the list, and `BothAssumption` to the question
  that is asked (`AskedInBoth`); the f of the last stage have the answer `computeCF`
  got. So `FunctionsFlowOnly` holds, and `GenTypeCorrect`. `Searches` carries the
  theorems about the search over.
- **Solver_proofs** (from `SessionAssumption` alone, so for all clauses, queries
  and choices): no freed clause is used (`ClausesInMemory`), reasons imply
  (`ReasonsImply`), nothing is learnt that the clauses do not entail
  (`LearntFollows`), the final conflict is right (`ConflictIsFinal`). None of them
  is inductive alone: a learnt clause follows because the reasons that `analyze`
  resolves with do, and a reason stays one because of what propagation and
  backtracking keep. The invariant `IInv` has six parts: the order of the calls
  (`Calls`), the clauses and their watchers (`Memory`), trail, levels and reasons
  (`Assigned`), the state of propagation (`Queue`), and the two properties about
  meaning. The parts of it that are easily got wrong are these. A fact learnt under
  assumptions has level 0 though it lies above them on the trail, but never above
  the decisions (`Levelled`). Above the assumptions a reason has a literal of the
  level of what it implies, and a conflict has one that was propagated since the last
  decision (`Reasoned`, `Queue`): this is why `analyze` meets a unique implication
  point before it meets the decision. The assignment is stated of *any* trail
  (`Consistent`), as `Learn` and `Restart` go back and go on in one step.
  The loops over the trail have invariants of their own: `Walk` keeps that the
  literals found and those still to be resolved follow from the clauses together
  (`Found`), the minimisation that what was removed follows from what stays
  (`RestFollows`), `TraceBack` that the conflict and what is still to be traced do
  (`Traced`). They are recursive functions; that they exist is shown by
  a least counterexample, as in `Encoder_proofs`.

- **SolverAnswers_proofs** goes on from `IInv`. `PropagationComplete` (no watcher is
  missed) rests on `WInv`: the literals of the trail up to `simpDB_assigns` are
  settled, so that their watcher lists stay empty and the clauses that watched them
  are true for good (`Lists`); and if a watched literal of any other clause is false
  and was visited, the other one is true and stays so at least as long as the
  first is false, wherever the solver may go back to (`Guarded`, `Outlives`): not
  "is true", which backtracking would break. `RInv` adds that variables without a
  value are in the heap, that the assumptions made are true (`Made`) and that the
  clauses kept, with the facts that are never taken back, still say all that was
  given (`Kept`). With it `AnswersRight` says that Solver implements `SatSession`.
  `AssertionsHold` needs `AInv`: a unit clause in the log is a value that is never
  taken back (`Units`), and while assumptions are made what follows from them
  follows from something that is not a fact (`Assuming`), so the final conflict is
  not empty. `SolverTypes` is not plain either: a level is at most the number of
  variables because each decision above the assumptions assigned one (`Decided`)
  and the literals that open the levels are about different variables
  (`LevelsBounded`). `LogAssumption` is used by the last two and by `LogIsRight` below: a session with the log on
  has only plain queries, as `characterization_interp_AB` is the one caller of
  `reset_proof` that is called itself (`characterization_interp_AB_mass`,
  `interp.ml:241`, is not).
  `LogIsRight` is `ProofSound`: each chain of the log, replayed (`RightChain`),
  derives the clause it is logged for. The notion to reason with is `Resolves`
  (`ResolvesIs` leads back to `RightChain`; the invariant is `LogSound`): a chain
  of steps leads from one clause to another if each resolves with a clause of the log
  on the one variable that the two disagree on, and meets no tautology;
  chains compose, and a chain of unit clauses removes the facts (`UnitsResolve`).
  The walk over the trail keeps `Derives`: the chain so far leads from the conflict
  to the literals found with those still to be resolved. Minimisation looks
  at the removed literals in the opposite order of the trail, so that a reason
  may bring back literals that are still to be removed but none that was removed:
  after the first m the clause is `Replaced`. Two things are needed that do not look
  like the log's business: both watched literals of a conflict are of the last level
  (`TwoHigh`, from `Guarded`), so that the chain has a step: `endChain` writes nothing
  for an empty chain, and `last()` would be the id of another clause; and a literal
  that is removed is not a decision, so has a reason, whose id is that of the clause
  (`Ids`).
  `SpecLogRefutes` is what the reader of the log needs besides: after UNSAT the last
  clause is the empty one, derived from the clauses given. The answer is given where nothing is logged, so the
  invariant `Final` says that with the log on only a contradiction at the top level
  ends a session, that propagate or `newClause` logged it, and that nothing comes after.
  `SpecKeptRefutes` goes through `checkProof`: the entries it keeps and renumbers
  refute the clauses given. Its work list runs empty in at most as many steps as there are
  entries, and what it visited then holds all it cites (`VisitedClosed`: as long as
  something is listed, each step visits an entry more); the new places keep the order
  (`RankFacts`), so that no entry cites a place not yet given (`newante > 0`).

Only model-checked: liveness (in `Classifies`, `Ends`, `Finishes`, `Promise`); the
agreement of the frame-by-frame computations, which are recursive; `LoopLasts` and
`Interpolable` as the run states them, by frames and bounds (the theorems
`GivenUpRightly` and `QueriesSolvable` are their general form);
the numbers of `ProofTrace`, all of `Circuits`, and `EncodeExp` and
`EncodeModule`, where the theorems on operators cover one operator and the runs
their nesting, the guards and the statements. Of `Solver` nothing but liveness is left. Expressions, circuits and the walks over the log
are recursive data: induction over them, and recursive operators at all, are out
of the prover's reach.

### Limits of the encoding modules

- A number is a sequence of bits; its text (`encode_number`) is not parsed.
- Clocked `if`s without `else` leave the next state free where Verilog keeps the
  old value. `StepsAreModels` is checked of such a module too, `ModelsAreSteps`
  and `OneModelPerStep` of modules that assign their registers on every path,
  which is how the netlists the program is run on are written.
- A register assigned twice on one path, where Verilog lets the last assignment
  win, contradicts itself in the clauses; the modules checked have none.
- The `_Pipe` variants of the `construct_` methods and the clauses of inferred
  assertions are not in `Unroll`.

### Limits of the solver modules

- `simpDB_props`, which only says when simplification is worth its time, is a
  choice; so are all activities. The exit of `save_proof` at 2^29 numbers and the
  bytes of a number (`putUInt`) are left out.
- `simplifyDB` is called by the solver itself only, as in the programs.
- A BDD is the set of valuations it holds of; `bddForeachCube` gives the paths of
  the reduced diagram. `simplify_withBDD_withassumption` and
  `check_itpo_var_membership`, which only asserts, are not modelled.

## 5. Plan

Done: from the netlist's clauses to the functions of the decoder, and from the
solver's clauses through its log to the circuits that go into the next query.
What is left, in this order:

1. `tryPCSAT` and the `_Pipe` variants of the `construct_` methods variable by
   variable, in `Unroll`;
2. `characterization_interp_AB_mass`, several outputs from one incremental
   solver, as an extension of `Circuits` and `MCSolver`;
3. the elaboration of a module (`proc_T_*`), which leaves behind what
   `EncodeModule` starts from.

Not modelled: the Verilog front end and the printers (data conversion), the text
of the decoder, the BDD package, scripts, benchmarks, and the predecessor
programs, whose algorithms `compsyn_pred` contains in their latest form. The
repository is for the most part vendored code of other projects (under
`src/other`: iimc, CUDD, IC3ref, blast, zchaff and further versions of MiniSat;
benchmarks under `src/test`), which the programs never call, or call as a
library: of its lines the share that is modelled stays small, however completely
the programs' own logic is.
