# A verification model of the staged MLIR compiler

This directory holds TLA+ modules that model the compiler in `src/`, TLC
configurations that check them on small instances, and theorems that TLAPS
proves about them for every instance.

Run inside this directory:

    tlc -workers 2 -config MCPipeDemo.cfg MCPipeDemo.tla     # a TLC run
    tlapm PipeDemoProofs.tla                                 # a proof module

`PROJECT.json` lists the runs, the mutations each property was tried against,
the source lines behind each definition, the hazards and the theorems.

## 1. The system

`pipe-demo` reads a StableHLO module, sends it through up to five stages and
prints it or runs it with the MLIR ExecutionEngine. A stage is a list of
passes; some are upstream MLIR/StableHLO passes, the others are this
repository's. The same passes are also offered to an external `mlir-opt`
through a plugin.

| component | state it keeps | operations | what makes it correct |
|---|---|---|---|
| driver (`tools/pipe-demo/main.cpp`) | options, the module, the exit code, what went to stdout | list passes, load, check the JIT entry, parse options, run the pipeline, print, JIT | what it prints agrees with how it ended |
| staged pipeline (`lib/Pipeline`) | the current stage call; the pass manager of the stage | one call per stage: skip, or run its passes, or fail | exactly the stages the mode and stop ask for; the same passes as the single-manager builder |
| stage builders (`lib/Transforms/*Stage`) | none | append passes, some conditionally | each stage brings the module down to the dialects its name says; nothing comes back up |
| fusion stage, annotating passes (13 files) | marks (`aicom.*` attributes) on ops | match a decomposition, mark its root | marks are right, are not lost, and a pass has a fixpoint |
| fusion stage, rewriting passes (7 files) | the StableHLO graph | replace a match, erase what has no use | the function's value is unchanged, no use of an erased op, a fixpoint |
| loop tiling (`CustomLoopTiling.cpp`) | the `scf.for` nest | strip-mine an outermost constant loop by 4 | the body sees the same induction variables in the same order |
| buffer promotion (`CustomBufferOpt.cpp`) | allocs, their views and deallocs | `memref.alloc` to `memref.alloca`, drop the dealloc | no stack memory freed or returned, nothing leaked |
| parallel lowering (`CustomLinalgToParallelLoops.cpp`) | linalg ops on memrefs | three patterns, to `scf.parallel` | the nest computes what the op does for any order of its iterations |
| affine strip-mining (`CustomAffineOpt.cpp`) | the `affine.for` nest | collect outermost constant loops, tile each by 4 | as for loop tiling |
| constant folding (`StablehloConstantFold.cpp`, `ConvBNFusion.cpp`, `CustomLinalgOpt.cpp`) | constants, as splats or lists | compute an op on constants element by element | every element is what the op's definition says; chains fold to their end |
| linalg tiling (`CustomLinalgTile.cpp`) | the function's matmuls | make a nest of 2x2x2 tiles beside a matmul | the nest computes the matmul, in the same order, and reads nothing too early |
| vector transfer lowering (`CustomVectorOpt.cpp`) | the transfers of a vectorised nest | `vector.transfer_*` to `vector.load`/`store` | no access leaves the row it was in |
| LLVM cleanup (`CustomLLVMCleanup.cpp`) | the ops of a function, two worklists | erase stores to unread slots, then dead ops, round by round | no use of an erased op; callers and callees see no difference |
| pass list and plugin (`RegisterPasses.cpp`, `AICompilerPlugin.cpp`) | none | print passes and their stages; a second spelling of the fusion pipeline | the list and the pipeline agree with what runs |
| harness, exports, tests | none | scripts around the tools | not modelled |

How the parts interact. The driver calls `runAICompilerPipeline`, which makes
five `runIf` calls in a row; each asks `runThroughStage` whether the stop
includes the stage, lets a builder fill a fresh pass manager and runs it on the
module. Passes speak to each other only through the module: through the
dialects present (an upstream conversion does nothing if its input is not there
yet) and through the marks (attention looks for the mark of softmax, the
flash-attention pass for the mark of attention, the layout fold for a
convolution and the transpose the bridge pass marks).

What is hard here:

- *order*. Twenty fusion passes and some thirty lowering passes are scheduled
  by hand, and each needs what earlier ones leave;
- *rewriting under a greedy driver*. The driver may visit ops in any order, it
  erases dead ops in between, and repeats until nothing matches;
- *facts kept across rewrites*. Marks are set by one pass and trusted by later
  ones while other passes replace the operands;
- *generated concurrency*. `scf.parallel` claims independent iterations;
- *memory*. The promotion pass decides which buffers outlive the function;
- *machine integers*, in the strip-mined loops;
- *what a rewriting drops*: padding and bounds of a vector access, the order of
  a generic's block arguments, NaN;
- *worklists* that are collected once and worked off without another look;
- *lists kept in step by hand*: three spellings of the pass order, two arrays
  behind `--list-passes`.

Nothing is persisted, there is no network, and there are no threads in the
compiler; crash recovery and message loss do not arise.

## 2. Modules

| module | models | proofs |
|---|---|---|
| `PipelineStages` | stages, modes, validation, all stage builders, the single-manager builder, and what each pass does to the set of dialects | |
| `PipeDemo` | `main`, `runJit`, `runAICompilerPipeline`, pass by pass | `PipeDemoProofs` |
| `LoweringLadder` | what a staged lowering promises; implemented by `PipeDemo` | |
| `StablehloGraph` | a function of StableHLO ops as a graph, the edits a pattern makes, the term a function computes | |
| `FusionPatterns` | the matchers of the fusion passes | |
| `FusionStage` | the twenty passes under the greedy driver, in the order of the tool that schedules them | `FusionStageProofs` |
| `SeqLoop` | what a counted loop promises; implemented by `LoopTiling` | |
| `LoopTiling` | the two strip-mining passes (scf and affine) and the loops' execution | `LoopTilingProofs` |
| `BufferPromotion` | functions, the promotion pattern, the execution of the result | `BufferPromotionProofs` |
| `LinalgSemantics`, `AtomicOp` | what a linalg op on buffers does, in one step; implemented by `ParallelLoops` | |
| `ParallelLoops` | the three lowering patterns and the execution of the nests | `ParallelLoopsProofs` |
| `ConstantFolds` | the arithmetic of the three passes that fold constants, against the meaning of the ops | `LinalgOptimizationProofs` |
| `LinalgTile` | the matmul tiling, and the execution of the function it leaves | `LinalgOptimizationProofs` |
| `VectorLowering` | the two transfer patterns, and the execution of the vectorised nest on row-major memory | `VectorLoweringProofs` |
| `LLVMCleanup` | the two walks, erasure by erasure, and what a function shows its caller | `LLVMCleanupProofs` |
| `MC*` | the constants of the TLC runs | |

### State and actions against the code

**PipeDemo.** `cli` holds the options that decide anything (`--list-passes`,
the input file, stop, loop mode, `--no-vectorize`, `--jit`, `--dump-ir`); `ir`
is the set of dialects present, `rank` the rank of the entry's result; `call` is the number
of the `runIf` call, `todo` the passes its manager has still to run, `done` and
`ran` the stages and passes that have completed; `out` and `code` are stdout and
the exit code. The actions follow `main` (`ListPasses`, `NoModule`,
`LoadModule`, `ParseOptions`, `PrintModule`), `runJit` before and after the
pipeline (`EntryAccepted`, `EntryRejected`, `EntryWithoutResult`,
`CreateEngine`, `EngineFails`, `Invoke`, `InvokeCrashes`, `InvokeFails`) and
`runAICompilerPipeline` (`BeginStage`, `SkipStage`, `RunPass`, `FailPass`,
`AbortPass`, `EndStage`). `kPasses` and `kStages` are the two arrays `--list-passes` prints,
`LoopModePath` the passes of one lowering. Every pass and the engine may fail
(exit code 1). `AbortPass` is an assertion or a null dereference inside one of
the passes of `MayAbort`; the modules of these passes model it in detail, but
for the matchers that read an f64 scalar (the fusion model has f32 only);
`InvokeCrashes` is a fault of the compiled code, or the `free()` of a result
that is not heap memory, which comes after the result was printed
(`main.cpp:160-176`): what was printed may or may not have left the buffer. An
upstream pass is external: `Converts` and `Emits` say which dialects it removes
and which it *may* create, so `ir` is the set of dialects that may be present,
and no property claims that a dialect is. A conversion that meets no op of its
dialect changes nothing.

**FusionStage.** `entry` is the tool: `BuildPipeline` takes the passes from
`buildFusionStage` for `pipe-demo` and from the plugin's
`registerFusionPipeline` for `mlir-opt`, where `RefuseOptions` is the error on
options after the pipeline's name. The graph maps the number of an op to its name, operands,
attributes, shape and marks; a new op gets a fresh number. `at` is the pass
that runs. Each pass is an action that picks *any* match of its pattern, which
covers every order the greedy driver can take; `EraseDead` is the driver's
erasure of ops without a use, at any moment; `EndPass` moves on when no match
is left, if the verifier accepts the convolutions; `VerifierRejects` and
`MatMulBiasAbort` are the two ways the stage stops short. `Computes` turns a
graph into the terms its results denote: the term of an op is its name, its
attributes and the terms of its operands, but for `Meaning`'s cases, where two
forms are equal over the reals and denote one term (a maximum with zero and a
clamp between zero and infinity; `exp(a) * exp(-b)` and `exp(a - b)`; a sum or
product of constants and its value; a chain of broadcasts and one broadcast, or
none; a batch norm of a convolution and the scaled convolution with a bias). A
convolution keeps its layout and a broadcast the shape it starts from, so
nothing is equal by leaving these out. `Verified` is what the parser and the
verifier grant the first pass; TLC evaluates it on the programs of the run
(`ProgramsAssumption`), and the proofs start from it.

**LoopTiling.** `RunPass` and `RunAffineOpt` are the two walks' target tests
and the rewriting (in the affine dialect the cut of the last tile is left out
where the tile divides the trip count); the other actions execute the loop (`Iterate`, `Finish`) or the two loops that
replace it (`EnterTile`, `IterateTile`, `LeaveTile`, `FinishTiles`). All index
arithmetic wraps at `MaxIndex`.

**BufferPromotion.** `AddOp` and `AddReturn` build any function in the form
the deallocation pipeline leaves (every buffer is freed once or returned);
`Promote` is `matchAndRewrite`, on any allocation that matches, `AssertWidth`
the assertion on index elements, `EndPass` the driver's fixpoint; `Allocate`,
`Free`, `Skip`, `Return` execute the result. Control flow appears as the ops
that hand a buffer on: a call, a branch, the yield of an `scf.if`, the init
operand of a loop.

**ParallelLoops.** `Lower`, `Reject` (the verifier refuses an `scf.parallel`
without dimensions), `LeaveUpstream` and `Upstream` are the pass and its
successor; `Load(x)` and `Store(x)` are the steps of iteration `x`, which
interleave freely.

**ConstantFolds.** A function is a sequence of ops, named by position.
`FoldConstantElementwiseGeneric`, `foldBinaryConstants` and `ConvBNFusion`
replace any op that matches; `AssertElementType` is the assertion on elements
`CustomLinalgOpt` cannot read; `EndPass` is the fixpoint. `Dense` stores equal elements
as a splat, `channelIndexForLinearIdx` is the source's.
`AssertFloat` is the assertion of `getValues<float>` on a kernel or a batch
norm's parameter of another float type (`ConvBNFusion.cpp:63-79`). `Values` is what a
function computes by definition, for a convolution by kernel coordinates.

**LinalgTile.** `Collect` and `Tile` are the pass, with its insertion point;
then the function runs: a matmul in one step, a nest tile by tile
(`EnterNest`, `RunTile`, `LeaveNest`). An element is the sequence of the
reduction steps added up for it, so a lost, repeated or reordered product
shows. The matmul keeps its users and the nest's result has none: only the nest
can be found dead by a later pass, the matmul stays.

**VectorLowering.** `TransferReadToLoad` and `TransferWriteToStore` replace
transfers in any order; then `Iterate` runs the nest, one vector at a time, on
buffers laid out row by row. A transfer pads and clips at the end of a row, a
load or store goes on.

**LLVMCleanup.** `AddOp` and `AddReturn` build any function of one block;
`CollectDeadStores`, `EraseStore`, `EndStores` are `eliminateDeadStores`, the
stores in any order; `CollectDeadOps`, `EraseOp`, `EndRound`, `EndPass` are the
rounds of `eliminateDeadOps`. `Behaviour` runs a function: the memory the
caller owns, what callees find, the value returned.

## 3. Abstract specifications

- `LoweringLadder`: a run moves a module down a ladder of levels (StableHLO,
  linalg on tensors, linalg on buffers, loops, LLVM), never up, and succeeds
  only on the requested rung. `DescendsLadder` in `PipeDemo` reads the level
  off the dialects.
- `SeqLoop`: a loop sees `lb, lb + step, ...` below `ub`, each once and in
  order. `TilingPreservesLoop` maps the tiled loops to it, liveness included.
- `AtomicOp`: the linalg op changes memory in one step.
  `LoweringIsAtomic` maps a nest to it by showing the memory when it ends.

## 4. What TLC checks

Runs that pass:

| run | properties | what it shows |
|---|---|---|
| `pipe_demo` | `TypeOK`, `RunsDocumentedPlan`, `OutputMatchesExit`, `BuilderMatchesDriver`, `ListTellsRuns`, `StopKeepsDialect`, `NoRaise`, `DescendsLadder` | for every command line the driver runs the documented stages, each reaches its rung, nothing comes back up, a stop at affine or vector never takes the dialect asked for away again, `--list-passes` says what runs, and stdout agrees with how the run ended: nothing after code 1, at most the values of a `--jit` run after a crash, exactly what the options ask for after success |
| `fusion_stage` | `NoUseOfErased`, `FlashIsAttention`, `SoftmaxSharesNumerator`, `RecordsBoundaries`, `PreservesFunction`, `BoundariesSurvive`, `EndedPassesStayDone`, `StageEnds` | on each program, from each tool and in each order of rewrites: the graph stays closed, the value stays (but for the three steps below), the boundaries the tests look for in each decomposition are recorded, marks stay true and are not lost, a pass that has ended gets nothing new to do but by the five rewrites `Reopens` lists, and the stage ends |
| `loop_tiling` | `TypeOK`, `TilesAreFull`, `TilingPreservesLoop` | strip-mining implements the original loop, in both dialects |
| `buffer_promotion` | `MemorySafeOutsideLoops`, `NoLeak`, `PromotionsIndependent`, `PromotionEnds` | promoted functions free and return heap memory only, unless a loop is in between; nothing leaks; the order of promotions does not matter |
| `parallel_loops` | `TypeOK`, `LoadsOldValues`, `LoweringIsAtomic`, `NoRace` | every interleaving of a nest computes the op, without a race; what an iteration has loaded half way is what the op reads, from the memory before the nest |
| `constant_folds` | `FoldsPreserveValues`, `ChainsAreFolded`, `FoldingEnds` | folding changes no value but by two habits of `CustomLinalgOpt`, and these explain each difference; a chain on constants becomes a constant; a batch norm goes to the right channels wherever a convolution has its features; the pass ends, at the fixpoint or in an assertion |
| `linalg_tile` | `NestsComputeMatmul` | a nest computes its matmul, with tiles that fit and tiles that do not, and stands where its operands are known |
| `vector_lowering` | `AccessesInRow`, `WholeVectorsComputeOp`, `LoweringEnds` | with rows of whole vectors, or dynamic shapes, the nest computes the op, whichever transfers were replaced |
| `llvm_cleanup` | `NoUseOfErased`, `BehaviourPreserved`, `LeavesNeeded`, `RoundsEnd` | on every short function the cleanup leaves no dangling operand between two erasures, and, if the function stores no slot's address, cannot be observed and ends with what a mark-and-sweep keeps |

Runs that show a disagreement between the code and what its documents say, each
with one property that TLC finds violated:

| run | what it shows |
|---|---|
| `argument_bias` | `MatMulBiasFusion` applies `isa<>` to the null defining op of a function argument |
| `loop_escape` | `CustomBufferOpt` does not follow a buffer through the init operand of a loop; the loop's result is returned stack memory |
| `vector_overrun` | `CustomVectorOpt` drops the bounds of a transfer: with rows of a vector and a half, the last store of a row goes into the next row |

Known differences, stated in the properties themselves rather than by a run:

- `PreservesFunction` excepts three steps and says of two of them which value
  comes out: `ProducerConsumerLegalize` takes the scores for the minuend on
  either side, so that `exp(max - scores)` becomes its reciprocal; a transposing
  broadcast of a square tensor is removed, since `BroadcastSimplify` compares
  shapes only; `LayoutFold` gives NHWC dimension numbers to a convolution whose
  input is still NCHW.
- `EndedPassesStayDone`: one run of the stage is not always enough. The product
  `ProducerConsumerLegalize` makes is elementwise and may stand under a maximum,
  a folded layout brings a convolution under another transpose,
  `BroadcastSimplify` may uncover an operand that a matcher looks for, and
  `StablehloConstantFold` may make the constant bias or weight that an earlier
  pass needs; all of these come after the matcher that would profit
  (`PipelineStages.cpp:86-107`). `Reopens` names the five; no other step of
  either tool's pass list gives an ended pass something to do.
- `FoldsPreserveValues`: `CustomLinalgOpt` takes a generic's inputs in order,
  whatever the order of the block arguments in its body, and `std::max` loses a
  NaN on the right. On f64 and integer inputs it asserts (`crash`), as
  `ConvBNFusion` does on parameters and kernels that are not f32.
- `SoftmaxSharesNumerator`: the mark says "divided by the sum of its own
  numerator" (`Passes.td:36`), but `isReduceOf` does not look at what a
  reduction does. A marked divide may divide by another reduction of its
  numerator only where the function the stage was given already divides by it;
  the program `Softmax("max", 5)` is such a one.
- `BehaviourPreserved` and `LeavesNeeded` except functions that store the
  address of a slot: the store is then taken for a store *to* the slot and
  erased (`CustomLLVMCleanup.cpp:34`), or is on the list twice (`doubleErase`).
  What a function needs (`Roots`, `Unread`) is stated by the address a store
  writes to, so such a store counts as needed.
- `OutputMatchesExit`: a rank-3 result is run and printed as unsupported
  (`main.cpp:152`). A crash may come inside a pass, in the compiled code or in
  the `free()` after the print; it may leave the values of a run that then did
  not end with 0 on stdout.
- `Reject` in `ParallelLoops`: a rank-0 elementwise generic becomes an
  `scf.parallel` without dimensions, which the verifier refuses.

Also seen while reading: of the 28 passes `--list-passes` prints,
`registerAICompilerPasses` registers 27 (`custom-linalg-tile` is missing,
`RegisterPasses.cpp:7-43`); `registerAICompilerPassPipelines` is never called;
the pass list of a loop mode need not name every pass of it (the scf-par line
omits `convert-linalg-to-parallel-loops`), so `ListTellsRuns` asks that what is
printed runs and not the converse; the plugin schedules `layout-fold` without
offering it as a pass; the matmul is never replaced by its tiles although
`Passes.td:278-284` says it is strip-mined, and the tile sizes
`{kTileM, kTileM, kTileN}` go to `(m, n, k)` while the target test treats the
second as `k`; `exp` divided by a reduction other than a sum is marked softmax;
an RMS norm without its root, and a layer norm with the variance of something
else, are marked; index elements make the promotion pass assert; strip-mining
wraps when the end of the last tile exceeds the index type; the exponential
behind a marked softmax loses its shift by the maximum.

### Bounds, and why they suffice

- `MCPipeDemo`: *every* combination of options, three input dialect sets
  (plain, with `chlo`, with `scf`) and ranks 0 to 5. The driver has no
  counter, so this is the whole behaviour up to the abstraction of a module by
  its dialects; rank 5 is the first the driver refuses.
- `MCFusionStage`: both tools; 35 single programs: each decomposition of the lit
  tests, and variants that decide a guard (operands exchanged, another use of
  an intermediate, an argument in place of a constant, extents that agree or
  not, a batch norm along another dimension than the features, chains of
  broadcasts that turn a matrix twice), and eight pairs or chains of them in one
  function, so that matches compete. A pattern looks at a fixed neighbourhood of its root, so larger
  functions only repeat these neighbourhoods side by side.
- `MCLoopTiling`: both dialects; the tile is the source's 4; ranges of 0 to 13
  iterations with steps 1 to 3 put the trip count below, on and beyond one, two
  and three tiles, with full and cut last tiles, empty ranges and negative
  bounds; further loops end one tile below `MaxIndex = 127`, so that the last
  value of the outer induction variable just fits.
- `MCBufferPromotion`: functions of up to four ops and a return. Two
  allocations with a view and a dealloc each, or a chain of three forwards, are
  the largest patterns `mayEscape` can tell apart; sizes are at the limit, one
  element above it, zero, dynamic, sub-byte and index.
- `MCParallelLoops`: extents 0, 1 and 2, reductions of depth 0 to 2, an output
  that is also an input. Two iterations suffice for a race, and four are there.
- `MCConstantFolds`: chains of two folds over pairs of lists, splats, NaN, one
  element and none, every order of a body's block arguments and every scalar
  op; kernels of two and three dimensions with unequal extents and every place
  of the features: a stride is wrong as soon as two extents differ.
- `MCLinalgTile`: extents from one below what the target test asks for to one
  beyond two tiles; chains of two matmuls for the insertion point.
- `MCVectorLowering`: two lanes, as in the source; one to three rows and one to
  five columns, so rows end with a vector, inside one, or are shorter than one.
- `MCLLVMCleanup`: all functions with four ops between parameter and return
  (`MaxOps = 6`): two slots with a store each, or a chain of four dead ops for
  as many rounds.

### Fairness

`WF` on the next-state relation as a whole in `PipeDemo`, `FusionStage`,
`LoopTiling`, `ConstantFolds` and `VectorLowering`: the driver, the greedy
driver and a loop nest never wait for anything, they run until they end. Which
match, iteration or outcome comes next is left open, so an end is shown for
every choice. In `BufferPromotion` and `LLVMCleanup` fairness is on the pass
(and the execution) only: a function need not ever be finished by its author.
`ParallelLoops` and `LinalgTile` assume none: their passes are a walk over a
list collected beforehand and their loops have fixed extents, so that an end
would hold by the shape of the model, and only safety is claimed.
`CHECK_DEADLOCK FALSE` is set since the modelled programs end; that they do not
stop earlier is `StageEnds`, `PromotionEnds`, `FoldingEnds`, `LoweringEnds`,
`RoundsEnd`, `TilingPreservesLoop` and `DescendsLadder`.

## 5. What is proved

All for every value of the constants. Each theorem follows from an inductive
invariant of its component; the invariant is preserved action by action, one
step of the proof per action.

**Driver and staged pipeline** (`PipeDemoProofs`)

| theorem | states | argument |
|---|---|---|
| `TypeCorrect` | `TypeOK` | each stage builder is a sequence of known passes (`PartsArePasses`), and `After` stays within the known dialects |
| `PlanHonoured` | `RunsDocumentedPlan` | `PlanInv`: after `call - 1` calls `done` is the documented plan cut at that length, and a stage is entered only when `runThroughStage` admits it. The property speaks of success only; the invariant of every moment on the way |
| `OutputHonest` | `OutputMatchesExit` | `OutInv`: `out` is empty until the step that sets the code; what that step prints depends on the options and the rank alone (`Printed`), and only an invocation prints for `--jit`, which is reached with the LLVM stage done (`LoweredToLLVM`) |
| `BuilderHonest` | `BuilderMatchesDriver` | `RanInv`: what has run and what is still to run of the stage are together the passes of the calls so far (`Upto`), and `TodoInv`: `todo` is a suffix of what the call scheduled. After the last call `Upto` is the single-manager builder's list |
| `ListHonest` | `ListTellsRuns` | `RanInv` again, with the passes of each call as a set: each entry of the two arrays against the builders, for each loop mode and stop |
| `StopHonest` | `StopKeepsDialect` | a stop at affine or vector admits no LLVM stage and its builder is told of the stop, so `lower-affine` and `convert-vector-to-llvm` are never scheduled (`BeforeLLVM`), and no other pass converts the two dialects. No premise on the input |
| `LoweringNeverUndone` | `NoRaise` | the dialects after each number of passes of each call (`OnGraph`, `OnTensors`, `OnMemrefs`, `OnLoops`, ...): a table with one line per pass, each line proved from the one before |
| `DriverDescends` | the safety part of `DescendsLadder` | the same table gives the level of each call; initial states map to initial states and each step to a step down or a stutter |

**Fusion stage** (`FusionStageProofs`)

| theorem | states | argument |
|---|---|---|
| `NothingErasedIsUsed` | `NoUseOfErased` | `GraphOK`: the graph is closed, and *acyclic*, which is stated as a numbering that grows from operands to users (`Ranks`). Closed alone is not inductive: an edit that renames uses could tie an op to itself, and no erasure would be safe |
| `SoftmaxKeepsNumerator` | `SoftmaxSharesNumerator` | that the numerator is shared is part of `GraphOK`; that the denominator is a sum, or one the source divides by, is `TInv`: until softmax-legalize ends every divide by a reduction is as in the source, and from then on no rewrite changes what a marked divide divides by (`SameTotals`). It needs `ShapesFit`: the numerator and the broadcast denominator agree in shape, and a reduction is smaller than what it reduces, so that no rewrite makes one of the other |
| `FlashStaysAttention` | `FlashIsAttention` | the attention mark implies the structure it was set for (`AttentionOK`), with an earlier matmul still there; for "still there" the invariant says that every matmul is *live* (`DotsLive`: in a set of ops each of which is returned or used by one of the set), so neither the driver nor a pattern erases it. That holds from the second pass on; before, no mark exists (`Early`) |
| `RewritesPreserveFunction` | `PreservesFunction` | `Denotation` is the one solution of its equations on an acyclic graph (least counterexample along the numbering of `Ranks`), so that one lemma serves all rewrites: if the new ops have terms that make the replacement's term the old one's, then renaming the uses keeps the term of every op that is left (`ReplaceValues`). Each pattern then owes an equation between terms. For a nested broadcast it needs `DimensionsFit`, that the dimensions of every broadcast made on the way still lie in the shapes, or the composition would read outside them. For the turned subtraction it needs that the exponential is its only user (`hasOneUse`), or another result would change with it |
| `RewritesKeepBoundaries` | `BoundariesSurvive` | `MarksOK`: a mark of a boundary sits on an op of a kind that no rewrite replaces (`divide`, `dot_general`, `concatenate`, `clamp`), on a sum or product that has an operand which never becomes a constant (`Anchored`), so that no constant fold takes it, or is `layout_folded`, which the folds hand on. The driver must not erase a marked op either: at the end of a pass every op is used (`FixpointAlive`), and from then on what a pass leaves without a use (`Loose`) is nothing, or in three passes constants and broadcasts, none of which is marked. In the first pass, where this does not hold yet, nothing is marked |

The lemmas under them are about the edits of `StablehloGraph`: what the
replacement of an op by new ones (`ReplaceOpReplaces`), by a value
(`ReplaceByReplaces`), an erasure (`EraseKeeps`) and a mark (`MarkKeeps`) keep
of a graph, each stated once, and one lemma per rewriting pattern that shows
its edit to be such a replacement.

**Loops and memory**

| theorem | states | argument |
|---|---|---|
| `LoopTilingProofs!TilingRefinesLoop` | the safety part of `TilingPreservesLoop` | `Aligned`: between tiles `j` is the start of the next tile or past the end, within a tile a whole number of steps from its start. Without it a step of the inner loop could not be told to be the original's next iteration |
| `LoopTilingProofs!TypeCorrect` | `TypeOK` | part of the same invariant: nothing wraps |
| `LoopTilingProofs!TilesAlwaysFull` | `TilesAreFull` | the invariant counts the iterations seen (`Len(trace)`) in tiles and steps; an affine loop whose cut is left out ends its last tile exactly at the bound (`WholeTiles`) |
| `BufferPromotionProofs!PromotionIsMemorySafe`, `PromotionLeaksNothing` | `MemorySafeOutsideLoops`, `NoLeak` | `Owned`: each heap buffer has its dealloc or is what the function returns, no buffer is both, and a promoted one does not escape. `MemoryAt` then gives the memory behind each buffer before each op |
| `BufferPromotionProofs!PromotionsDoNotInteract` | `PromotionsIndependent` | what `mayEscape` follows from one allocation is disjoint from what a promotion of another changes |
| `ParallelLoopsProofs!ParallelLoopsImplementLinalg` | `LoweringIsAtomic` | memory is always "the old memory with the results of the finished iterations" (`MemoryAfter`), and what an iteration has loaded is a prefix of the old values it needs (`Prefix`); `NoInterference` says that no iteration loads what another stores |
| `ParallelLoopsProofs!IterationsDoNotRace` | `NoRace` | the same invariant and `NoInterference` |
| `ParallelLoopsProofs!NestLoadsOldValues` | `LoadsOldValues` | `Prefix` again, and that what an iteration loads is what the op reads (`LoadsAreReads`) |
| `LinalgOptimizationProofs!NestsAreMatmuls` | `NestsComputeMatmul` | while the nest runs, the elements of the tiles in front of the current one have all reduction steps, those of the current tile as many as the loop over `k` has reached, the others none (`NestOK`, `Reached`); `BodyOK` says that a nest stands behind the matmuls its own could read, so that `env` holds the operand (`EnvOK`) |
| `LinalgOptimizationProofs!ChainsFoldToTheirEnd` | `ChainsAreFolded` | `FoldInv`: an op is what the source has, or a constant of its size, or was a batch norm; and the pass ends with no work left. The first value that follows from constants (`known`, the greatest solution of its equation, `KnownUnfolds`) and is none would have constants for inputs, of the right sizes, and so be work. The module instantiates `ConstantFolds` beside `LinalgTile`: `CustomLinalgOpt` and `CustomLinalgTile` make up one stage |
| `VectorLoweringProofs!LoadsAndStoresInRow` | `AccessesInRow` | the column is always a multiple of the vector size (`Position`), so a vector that starts in a row of whole vectors ends in it |
| `VectorLoweringProofs!VectorNestComputes` | `WholeVectorsComputeOp` | memory after the vectors before `(i, k, j)`: each element of the output is the fold of the loaded products of the depths done so far, every other element is the old one |
| `LLVMCleanupProofs!OperandsSurvive` | `NoUseOfErased` | `Closed`: the operands of what is left are values, and the lists hold only stores, which define nothing, or ops without uses (`ListsUnused`); erasing an unused op leaves the others unused (`EraseUnused`), so the list need not be looked at again |
| `LLVMCleanupProofs!RoundsReachTheNeeded` | `LeavesNeeded` | for functions that store no slot's address. `TrimInv`: what is left contains what the mark-and-sweep needs and, at the end, has no dead op; the greatest of the unneeded ops would be one |
| `LLVMCleanupProofs!CallerCannotTell` | `BehaviourPreserved` | a simulation, op by op: the two runs agree on every value that is still there and on all memory but the unread slots |

### Assumptions

Each is stated as a named operator that the theorem takes as its premise, or as
an `ASSUME` that TLC evaluates on a run.

- `TilesFit` (`LoopTilingProofs`): the end of the tile that holds the last
  iteration is representable. The code does not test it; loops of real programs
  are far below, and at the edge the property fails.
- `WellFormed` (`ParallelLoopsProofs`, `VectorLoweringProofs`) for each op:
  known kinds, an output that is a buffer, and a matmul with two inputs that
  reads neither from its output and has the default indexing maps, as
  bufferization leaves it. In the vector nest, where extents come from the op,
  a matmul with the same factor twice is square, as its type demands. That rows
  are whole vectors is part of `WholeVectorsComputeOp` and `AccessesInRow` and
  not assumed.
- `PlainInputs` (`LoweringNeverUndone`, `DriverDescends`): the
  input file has no affine or vector ops. The parser would take them
  (`main.cpp` registers all dialects), but the tool is made for StableHLO
  modules, and with affine loops from the start "affine comes in at its stage"
  is not a fact about the pipeline. The three inputs of `MCPipeDemo` are plain.
  The other theorems of the module take no premise.
- `ProgramsAssumption` (`FusionStageProofs`): operands come before users, ops
  have the number of operands their definition asks for, a denominator
  broadcast to its numerator has its shape, a reduction is smaller than its
  operand, a broadcast and a batch norm name dimensions of their result, one for
  each of the operand's (`DimsFit`), and no op is marked. All but the last are
  what MLIR's parser and StableHLO's verifier reject otherwise; marks are this
  repository's own attributes.
- `Verified` (`ChainsFoldToTheirEnd`; `ConstantFolds!ProgramsAssumption` has TLC
  evaluate it): operands come before users, an `add` or `multiply` has two
  operands of its own size, and a generic's scalar op is one of the model's
  names. The first two are what the parser and StableHLO's verifier grant.
- `CleanupAssumption`, `BufferAssumption`, `TileAssumption`,
  `VectorAssumption`, `TilingAssumption`, `InputAssumption`,
  `MaxDimAssumption`: the types of constants, positive tile sizes, a function
  with room for a parameter and a return.

### What stays with TLC

- *Liveness*: `StageEnds`, `PromotionEnds`, `FoldingEnds`, `LoweringEnds` and
  `RoundsEnd`, and the fairness halves of `TilingPreservesLoop` and
  `DescendsLadder`. This prover has no rule for `WF`.
- `RecordsBoundaries`: which boundaries a program has is data of the programs
  of the run, not a fact about every graph.
- `EndedPassesStayDone`. It is about all pairs of a matcher and a later rewrite,
  and is an action property without an invariant of its own: the matchers go
  several ops deep, and an erasure changes the use counts some of them read.
- `FoldsPreserveValues`: it compares folds over element lists with sums over
  coordinates, for kernels of any rank: an induction over data.

Recursion. Functions defined by recursion over a set (`Behaviour`'s runs, the
aliases of a buffer, what the effects need) are proved about, with the
well-founded order of the numbers: the function exists since it is the least
one closed under its equation, or since a least counterexample would not be
one (`NatLessThanWellFounded`, `WFMin`). What is out of reach are theorems that
take an operator as a parameter and `RECURSIVE` operators.

## 6. Abstractions

- A module on its way down is the set of dialects present. `tensor` stands for
  all ops on tensor values, `view` for memref ops without a direct LLVM
  lowering, `cast` for unrealized conversion casts.
- All tensors are f32 and static in the fusion model; a batch norm's four
  parameters are one constant operand; kernels are 1x1 with stride 1; constants
  are names. Folded constants are terms there; how a fold computes them element
  by element is in `ConstantFolds`.
- Arithmetic is exact in the fusion model, and uninterpreted but ordered in the
  parallel-loop model: a sum is the sequence of its terms, so a reordering
  would show.
- `ConstantFolds` has integers and NaN: no rounding, no signed zero. A batch
  norm's variance is given by the reciprocal of the root the pass takes of it.
- `LLVMCleanup` has one block per function; volatile accesses, aggregates and
  regions are left out. A value is named by its position, an erased op stays as
  a hole.
- The tilings by `tilePerfectlyNested` and `tileLinalgOp` and the vectorisation
  by `affine-super-vectorize` are upstream and modelled by the loops they leave;
  they do not fail on the targets the passes select.
- The greedy driver's limit of ten iterations is left out.
- `BufferPromotion` executes straight-line code; a loop counts once.
- Wording of diagnostics, timing output and the contents of `--dump-ir` are
  left out.

## 7. Not modelled

The registration of passes, dialects and pipelines with MLIR and the plugin's
entry points (static tables; what they list is modelled where it must agree
with what runs); the test harness (`pipe-demo` in sequence and a text
comparison); the torch export and the GPU code generation scripts (sequences of
external tools); the lit tests, which are the source of the programs in
`MCFusionStage`; MLIR, StableHLO and LLVM, which appear as far as the code uses
them. Nothing else of the compiler's own logic is left out.

Nine hazards have no property, each with its reason in `PROJECT.json`: two
outcomes of `runJit` that are written into the model as the code has them
(`main.cpp:152`, `main.cpp:194`); floating point range
(`ProducerConsumerLegalize.cpp:59`); two steps that are wrong by what a pass
compares or leaves out (`LayoutFold.cpp:88`, `LayerNormLegalize.cpp:80`); two
inputs on which the compiler stops (`CustomBufferOpt.cpp:51`,
`CustomLinalgToParallelLoops.cpp:63`); loops at the end of the index type
(`CustomLoopTiling.cpp:63`), which `TilesFit` excludes; and functions that store
the address of a slot (`CustomLLVMCleanup.cpp:34`), which the properties of the
cleanup except.

## 8. Plan

Done: the staged pipeline and driver with the pass list; the fusion stage for
both tools; loop tiling in both dialects; buffer promotion; parallel lowering;
constant folding; linalg tiling; vector lowering; LLVM cleanup; 29 theorems,
which state every invariant of the runs but those under "What stays with TLC".

Next, proofs:

1. `FoldsPreserveValues` for elementwise folds, where no coordinates are
   involved.
2. `EndedPassesStayDone`, matcher by matcher: for each, which kinds of op its
   match reads, and that the rewrites outside `Reopens` make none of them.
