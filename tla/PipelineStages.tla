--------------------------- MODULE PipelineStages ---------------------------
(***************************************************************************)
(* The vocabulary of the staged compiler: the stages and loop modes, which *)
(* combinations the command line accepts, the passes each stage schedules  *)
(* and what each pass does to the set of dialects present in the module.   *)
(* lib/Pipeline/PipelineStages.cpp, lib/Pipeline/Pipeline.cpp and the      *)
(* stage builders in lib/Transforms.                                       *)
(***************************************************************************)
EXTENDS Naturals, Sequences

Stage == {"Fusion", "Linalg", "Bufferize", "Loops", "Affine", "Vector",
          "LLVM", "All"}

LoopMode == {"ScfSeq", "ScfPar", "Affine", "Vector"}

\* The integer value of the enumerator, which the driver compares.
StageNo(stage) ==
  CASE stage = "Fusion"    -> 0
    [] stage = "Linalg"    -> 1
    [] stage = "Bufferize" -> 2
    [] stage = "Loops"     -> 3
    [] stage = "Affine"    -> 4
    [] stage = "Vector"    -> 5
    [] stage = "LLVM"      -> 6
    [] stage = "All"       -> 7

\* Mutant: the stop is exclusive.
runThroughStage_exclusive(stage, stopAfter) ==
  stopAfter = "All" \/ StageNo(stage) < StageNo(stopAfter)

runThroughStage(stage, stopAfter) ==
  stopAfter = "All" \/ StageNo(stage) <= StageNo(stopAfter)

loopModeStage(mode) == IF mode \in {"ScfSeq", "ScfPar"} THEN "Loops" ELSE mode

validatePipelineOptions(stopAfter, mode) ==
  \/ stopAfter \in {"All", "Fusion", "Linalg", "Bufferize", "LLVM"}
  \/ stopAfter = "Loops" /\ mode \in {"ScfSeq", "ScfPar"}
  \/ stopAfter = "Affine" /\ mode = "Affine"
  \/ stopAfter = "Vector" /\ mode = "Vector"

(***************************************************************************)
(* The five stages runAICompilerPipeline tries, in the order it tries them *)
(***************************************************************************)
StageCalls(mode) ==
  <<"Fusion", "Linalg", "Bufferize", loopModeStage(mode), "LLVM">>

-----------------------------------------------------------------------------
(***************************************************************************)
(* The passes each stage builder adds to its pass manager.                 *)
(***************************************************************************)

buildFusionStage ==
  <<"conv-bn-fusion", "conv-bn-relu-fusion", "softmax-legalize",
    "rmsnorm-legalize", "attention-legalize", "flash-attention-tile",
    "rope-legalize", "layernorm-legalize", "gelu-legalize",
    "swiglu-legalize", "qdq-legalize", "matmul-bias-fusion",
    "horizontal-gemm-fusion", "elementwise-chain-legalize",
    "producer-consumer-legalize", "layout-bridge-legalize", "layout-fold",
    "kvcache-legalize", "broadcast-simplify", "stablehlo-constant-fold">>

\* Mutant: the plugin legalizes attention before softmax.
registerFusionPipeline_attentionFirst ==
  [buildFusionStage EXCEPT ![3] = "attention-legalize", ![5] = "softmax-legalize"]

\* The fusion stage once more, spelled out in the mlir-opt plugin.
registerFusionPipeline ==
  <<"conv-bn-fusion", "conv-bn-relu-fusion", "softmax-legalize",
    "rmsnorm-legalize", "attention-legalize", "flash-attention-tile",
    "rope-legalize", "layernorm-legalize", "gelu-legalize", "swiglu-legalize",
    "qdq-legalize", "matmul-bias-fusion", "horizontal-gemm-fusion",
    "elementwise-chain-legalize", "producer-consumer-legalize",
    "layout-bridge-legalize", "layout-fold", "kvcache-legalize",
    "broadcast-simplify", "stablehlo-constant-fold">>

buildStableHloToLinalgStage ==
  <<"stablehlo-refine-shapes", "chlo-legalize-to-stablehlo",
    "stablehlo-legalize-to-linalg", "canonicalize", "cse">>

buildLinalgOptimizationStage ==
  <<"linalg-fuse-elementwise-ops", "linalg-fold-unit-extent-dims",
    "custom-linalg-opt", "canonicalize", "cse", "custom-linalg-tile">>

buildBufferizationStage ==
  <<"one-shot-bufferize", "buffer-deallocation-pipeline",
    "custom-buffer-opt", "canonicalize", "cse">>

\* Mutant: the two conversions swapped.
buildLowerToLoopsStage_cfFirst ==
  <<"convert-bufferization-to-memref", "convert-scf-to-cf",
    "convert-linalg-to-loops", "custom-loop-tiling">>

buildLowerToLoopsStage ==
  <<"convert-bufferization-to-memref", "convert-linalg-to-loops",
    "custom-loop-tiling", "convert-scf-to-cf">>

buildVectorizationStage ==
  <<"convert-bufferization-to-memref", "custom-linalg-to-parallel-loops",
    "convert-linalg-to-parallel-loops", "convert-scf-to-cf">>

buildAffineStage(stopAfterAffine) ==
  <<"convert-bufferization-to-memref", "convert-linalg-to-affine-loops",
    "custom-affine-opt">>
  \o (IF stopAfterAffine THEN <<>> ELSE <<"lower-affine", "convert-scf-to-cf">>)

buildVectorDialectStage(stopAfterVector) ==
  <<"convert-bufferization-to-memref", "convert-linalg-to-affine-loops",
    "affine-super-vectorize", "custom-vector-opt">>
  \o (IF stopAfterVector THEN <<>> ELSE <<"lower-affine", "convert-scf-to-cf">>)

\* Mutant: convert-vector-to-llvm forgotten.
buildLLVMLoweringStage_noVector(mode) ==
  <<"expand-strided-metadata", "lower-affine", "convert-arith-to-llvm",
    "convert-cf-to-llvm", "convert-func-to-llvm", "convert-index-to-llvm",
    "convert-math-to-llvm", "finalize-memref-to-llvm",
    "reconcile-unrealized-casts", "custom-llvm-cleanup">>

buildLLVMLoweringStage(mode) ==
  <<"expand-strided-metadata", "lower-affine", "convert-arith-to-llvm",
    "convert-cf-to-llvm", "convert-func-to-llvm", "convert-index-to-llvm",
    "convert-math-to-llvm">>
  \o (IF mode = "Vector" THEN <<"convert-vector-to-llvm">> ELSE <<>>)
  \o <<"finalize-memref-to-llvm", "reconcile-unrealized-casts",
       "custom-llvm-cleanup">>

buildLoopModeStage(mode, stopAfter) ==
  CASE mode = "ScfSeq" -> buildLowerToLoopsStage
    [] mode = "ScfPar" -> buildVectorizationStage
    [] mode = "Affine" -> buildAffineStage(stopAfter = "Affine")
    [] mode = "Vector" -> buildVectorDialectStage(stopAfter = "Vector")

\* Mutant: the mode stage is built without knowing the stop.
PassesOfCall_blind(k, mode, stopAfter) ==
  CASE k = 1 -> buildFusionStage
    [] k = 2 -> buildStableHloToLinalgStage \o buildLinalgOptimizationStage
    [] k = 3 -> buildBufferizationStage
    [] k = 4 -> buildLoopModeStage(mode, "All")
    [] k = 5 -> buildLLVMLoweringStage(mode)

\* What the driver's k-th call builds.
PassesOfCall(k, mode, stopAfter) ==
  CASE k = 1 -> buildFusionStage
    [] k = 2 -> buildStableHloToLinalgStage \o buildLinalgOptimizationStage
    [] k = 3 -> buildBufferizationStage
    [] k = 4 -> buildLoopModeStage(mode, stopAfter)
    [] k = 5 -> buildLLVMLoweringStage(mode)

Elements(s) == {s[i] : i \in 1..Len(s)}

\* The names of all the passes a stage may schedule.
Pass == Elements(buildFusionStage) \cup Elements(buildStableHloToLinalgStage)
        \cup Elements(buildLinalgOptimizationStage)
        \cup Elements(buildBufferizationStage)
        \cup Elements(buildLowerToLoopsStage) \cup Elements(buildVectorizationStage)
        \cup Elements(buildAffineStage(FALSE))
        \cup Elements(buildVectorDialectStage(FALSE))
        \cup Elements(buildLLVMLoweringStage("Vector"))

(***************************************************************************)
(* The same pipeline built into one pass manager. This entry point does no *)
(* validation of its own.                                                  *)
(***************************************************************************)
buildAICompilerPipeline(mode, stopAfter) ==
  LET part(stage, passes) ==
        IF runThroughStage(stage, stopAfter) THEN passes ELSE <<>>
  IN  part("Fusion", buildFusionStage)
      \o part("Linalg", buildStableHloToLinalgStage
                        \o buildLinalgOptimizationStage)
      \o part("Bufferize", buildBufferizationStage)
      \o part(loopModeStage(mode), buildLoopModeStage(mode, stopAfter))
      \o part("LLVM", buildLLVMLoweringStage(mode))

-----------------------------------------------------------------------------
(***************************************************************************)
(* What --list-passes prints: the passes each loop mode goes through, and  *)
(* every pass of the project's own with the stage that runs it. Names and  *)
(* stages are two arrays read in step.                                     *)
(***************************************************************************)
LoopModePath(mode) ==
  CASE mode = "ScfSeq" -> {"custom-loop-tiling", "convert-linalg-to-loops",
                           "convert-scf-to-cf"}
    [] mode = "ScfPar" -> {"custom-linalg-to-parallel-loops", "convert-scf-to-cf"}
    [] mode = "Affine" -> {"custom-affine-opt", "convert-linalg-to-affine-loops",
                           "lower-affine", "convert-scf-to-cf"}
    [] mode = "Vector" -> {"custom-vector-opt", "convert-linalg-to-affine-loops",
                           "affine-super-vectorize", "lower-affine",
                           "convert-scf-to-cf", "convert-vector-to-llvm"}

kPasses ==
  <<"conv-bn-fusion", "conv-bn-relu-fusion", "softmax-legalize",
    "rmsnorm-legalize", "attention-legalize", "flash-attention-tile",
    "rope-legalize", "layernorm-legalize", "gelu-legalize", "swiglu-legalize",
    "qdq-legalize", "matmul-bias-fusion", "horizontal-gemm-fusion",
    "elementwise-chain-legalize", "producer-consumer-legalize",
    "layout-bridge-legalize", "layout-fold", "kvcache-legalize",
    "broadcast-simplify", "stablehlo-constant-fold",
    "custom-linalg-opt", "custom-linalg-tile", "custom-buffer-opt",
    "custom-loop-tiling", "custom-linalg-to-parallel-loops",
    "custom-affine-opt", "custom-vector-opt", "custom-llvm-cleanup">>

\* Mutant: a pass was added without its stage.
kStages_short ==
  [i \in 1..20 |-> "fusion"]
  \o <<"linalg", "bufferize", "loops/scf-seq", "loops/scf-par", "affine",
       "vector", "llvm", "">>

kStages ==
  [i \in 1..20 |-> "fusion"]
  \o <<"linalg", "linalg", "bufferize", "loops/scf-seq", "loops/scf-par",
       "affine", "vector", "llvm">>

-----------------------------------------------------------------------------
(***************************************************************************)
(* The dialects a module can hold. "tensor" stands for every op on tensor  *)
(* values, "view" for the memref ops that have no direct LLVM lowering     *)
(* (expand_shape, collapse_shape, subview), "apply" for affine.apply,      *)
(* "affine" for the affine loops and accesses, and "cast" for the          *)
(* unrealized_conversion_casts a partial conversion leaves.                *)
(***************************************************************************)
Dialect == {"chlo", "stablehlo", "linalg", "tensor", "bufferization",
            "memref", "view", "scf", "affine", "apply", "vector", "arith",
            "math", "cf", "func", "index", "cast", "llvm"}

\* The dialects a pass converts away.
Converts(pass) ==
  CASE pass = "chlo-legalize-to-stablehlo"      -> {"chlo"}
    [] pass = "stablehlo-legalize-to-linalg"    -> {"stablehlo"}
    [] pass = "one-shot-bufferize"              -> {"tensor"}
    [] pass = "convert-bufferization-to-memref" -> {"bufferization"}
    [] pass \in {"convert-linalg-to-loops", "convert-linalg-to-parallel-loops",
                 "convert-linalg-to-affine-loops"} -> {"linalg"}
    [] pass = "convert-scf-to-cf"               -> {"scf"}
    [] pass = "lower-affine"                    -> {"affine", "apply"}
    [] pass = "expand-strided-metadata"         -> {"view"}
    [] pass = "convert-arith-to-llvm"           -> {"arith"}
    [] pass = "convert-cf-to-llvm"              -> {"cf"}
    [] pass = "convert-func-to-llvm"            -> {"func"}
    [] pass = "convert-index-to-llvm"           -> {"index"}
    [] pass = "convert-math-to-llvm"            -> {"math"}
    [] pass = "convert-vector-to-llvm"          -> {"vector"}
    [] pass = "finalize-memref-to-llvm"         -> {"memref"}
    [] OTHER                                    -> {}

(***************************************************************************)
(* The dialects a pass may create operations of on a module that holds     *)
(* `ir`. It need not create any: a function of constants only gives no     *)
(* linalg op, and affine-super-vectorize leaves some loops alone.          *)
(***************************************************************************)
Emits(pass, ir) ==
  LET given(cause, effect) == IF cause \in ir THEN effect ELSE {}
  IN CASE pass = "chlo-legalize-to-stablehlo" -> given("chlo", {"stablehlo"})
       [] pass = "stablehlo-legalize-to-linalg" ->
            given("stablehlo", {"linalg", "tensor", "arith", "math"})
       [] pass = "custom-linalg-tile" ->
            given("linalg", {"scf", "tensor", "arith"})
       [] pass = "one-shot-bufferize" ->
            given("tensor", {"memref", "view", "bufferization"})
       [] pass = "buffer-deallocation-pipeline" ->
            given("memref", {"bufferization", "arith"})
       [] pass = "convert-bufferization-to-memref" ->
            given("bufferization", {"memref", "view", "scf", "arith"})
       [] pass \in {"convert-linalg-to-loops",
                    "convert-linalg-to-parallel-loops",
                    "custom-linalg-to-parallel-loops"} ->
            given("linalg", {"scf", "memref", "arith"})
       [] pass = "custom-loop-tiling" -> given("scf", {"arith"})
       [] pass = "convert-linalg-to-affine-loops" ->
            given("linalg", {"affine", "apply", "memref", "arith"})
       [] pass = "affine-super-vectorize" -> given("affine", {"vector", "arith"})
       [] pass = "lower-affine" ->
            given("affine", {"scf", "memref", "arith"}) \cup given("apply", {"arith"})
       [] pass = "convert-scf-to-cf" -> given("scf", {"cf", "arith"})
       [] pass = "expand-strided-metadata" ->
            given("view", {"apply", "memref", "arith"})
       [] pass \in {"convert-arith-to-llvm", "convert-cf-to-llvm",
                    "convert-func-to-llvm", "convert-index-to-llvm",
                    "convert-math-to-llvm", "convert-vector-to-llvm",
                    "finalize-memref-to-llvm"} ->
            IF Converts(pass) \cap ir # {} THEN {"llvm", "cast"} ELSE {}
       [] OTHER -> {}

\* reconcile-unrealized-casts removes a cast only when its uses cancel out.
Reconciled(ir) == IF ir \subseteq {"llvm", "cast"} THEN ir \ {"cast"} ELSE ir

\* The dialects that may be present after `pass` on a module that holds `ir`.
After(pass, ir) ==
  IF pass = "reconcile-unrealized-casts"
  THEN Reconciled(ir)
  ELSE (ir \ Converts(pass)) \cup Emits(pass, ir)
=============================================================================
