------------------------------ MODULE PipeDemo ------------------------------
(***************************************************************************)
(* The driver: main() and runJit() of tools/pipe-demo/main.cpp around      *)
(* runAICompilerPipeline() of lib/Pipeline/Pipeline.cpp. A stage runs its  *)
(* passes one by one on the module, any pass may fail, some may abort, and *)
(* either ends the program. The module is abstracted to the dialects that  *)
(* may be in it.                                                           *)
(***************************************************************************)
EXTENDS PipelineStages

CONSTANTS
  InputIRs,    \* the dialect sets an input file may hold
  Ranks        \* the ranks of the entry function's result

ASSUME InputAssumption ==
  /\ \A ir \in InputIRs : ir \subseteq Dialect /\ "stablehlo" \in ir
  /\ Ranks \subseteq Nat

VARIABLES
  cli,     \* the command line
  pc,      \* where main() is
  ir,      \* the dialects the module may hold; {} before it is parsed
  rank,    \* the rank runJit() read off the entry function
  call,    \* the driver's next stage call, 1..5; 6 when all are done
  todo,    \* the passes the current stage has still to run
  done,    \* the stages completed
  ran,     \* the passes completed
  out,     \* what has been printed on stdout
  code     \* the exit code; "none" while the program runs

vars == <<cli, pc, ir, rank, call, todo, done, ran, out, code>>

CommandLine ==
  [listPasses : BOOLEAN, input : BOOLEAN, jit : BOOLEAN, dumpIr : BOOLEAN,
   noVectorize : BOOLEAN, loopMode : LoopMode \cup {"absent", "unknown"},
   stopAfter : Stage \cup {"unknown"}]

\* parsePipelineOptions: the mode it settles on, and whether it accepts.
mode == CASE cli.noVectorize          -> "ScfSeq"
          [] cli.loopMode = "absent"  -> "ScfPar"
          [] OTHER                    -> cli.loopMode

parsePipelineOptions ==
  /\ ~(cli.noVectorize /\ cli.loopMode # "absent")
  /\ mode \in LoopMode
  /\ cli.stopAfter \in Stage
  /\ validatePipelineOptions(cli.stopAfter, mode)

-----------------------------------------------------------------------------
Init == /\ cli \in CommandLine
        /\ pc = "main" /\ ir = {} /\ rank = 0
        /\ call = 1 /\ todo = <<>> /\ done = <<>> /\ ran = <<>>
        /\ out = <<>> /\ code = "none"

Exit(c) == pc' = "exit" /\ code' = c

driver == <<rank, call, todo, done, ran>>

ListPasses ==
  /\ pc = "main" /\ cli.listPasses
  /\ out' = <<"pass-list">>
  /\ Exit("0")
  /\ UNCHANGED <<cli, ir, driver>>

\* A missing --input, an unreadable file and a parse error all end the run.
NoModule ==
  /\ pc = "main" /\ ~cli.listPasses
  /\ Exit("1")
  /\ UNCHANGED <<cli, ir, out, driver>>

LoadModule ==
  /\ pc = "main" /\ ~cli.listPasses /\ cli.input
  /\ ir' \in InputIRs
  /\ pc' = IF cli.jit THEN "entry" ELSE "options"
  /\ UNCHANGED <<cli, out, code, driver>>

\* runJit: the entry must be a func.func, nullary, and return a ranked f32
\* tensor.
EntryAccepted ==
  /\ pc = "entry" /\ "func" \in ir
  /\ rank' \in Ranks
  /\ pc' = "options"
  /\ UNCHANGED <<cli, ir, call, todo, done, ran, out, code>>

EntryRejected ==
  /\ pc = "entry"
  /\ Exit("1")
  /\ UNCHANGED <<cli, ir, out, driver>>

\* getResult(0) of an entry without results reads past the type list.
EntryWithoutResult ==
  /\ pc = "entry" /\ "func" \in ir
  /\ Exit("crash")
  /\ UNCHANGED <<cli, ir, out, driver>>

ParseOptions ==
  /\ pc = "options"
  /\ IF parsePipelineOptions THEN pc' = "driver" /\ UNCHANGED code ELSE Exit("1")
  /\ UNCHANGED <<cli, ir, out, driver>>

-----------------------------------------------------------------------------
\* runIf: a stage beyond the stop is skipped, any other is built and run.
BeginStage ==
  /\ pc = "driver" /\ call <= 5
  /\ runThroughStage(StageCalls(mode)[call], cli.stopAfter)
  /\ todo' = PassesOfCall(call, mode, cli.stopAfter)
  /\ pc' = "stage"
  /\ UNCHANGED <<cli, ir, rank, call, done, ran, out, code>>

SkipStage ==
  /\ pc = "driver" /\ call <= 5
  /\ ~runThroughStage(StageCalls(mode)[call], cli.stopAfter)
  /\ call' = call + 1
  /\ UNCHANGED <<cli, pc, ir, rank, todo, done, ran, out, code>>

RunPass ==
  /\ pc = "stage" /\ todo # <<>>
  /\ ir' = After(Head(todo), ir)
  /\ ran' = Append(ran, Head(todo))
  /\ todo' = Tail(todo)
  /\ UNCHANGED <<cli, pc, rank, call, done, out, code>>

\* A pass, or the verifier after it, signals failure.
FailPass ==
  /\ pc = "stage" /\ todo # <<>>
  /\ Exit("1")
  /\ UNCHANGED <<cli, ir, out, driver>>

(***************************************************************************)
(* The passes that can stop the process on some input: a constant of       *)
(* another element type read as f32 or as a float (ConvBNFusion.cpp:63-66, *)
(* 79, RoPELegalize.cpp:28, GeluLegalize.cpp:25, SwiGLULegalize.cpp:23,    *)
(* CustomLinalgOpt.cpp:60-72), a block argument asked for its defining op  *)
(* (MatMulBiasFusion.cpp:24), the width of an index (CustomBufferOpt.cpp:  *)
(* 51), an op erased while it has users (CustomLLVMCleanup.cpp:46-47).     *)
(***************************************************************************)
MayAbort ==
  {"conv-bn-fusion", "rope-legalize", "gelu-legalize", "swiglu-legalize",
   "matmul-bias-fusion", "custom-linalg-opt", "custom-buffer-opt",
   "custom-llvm-cleanup"}

AbortPass ==
  /\ pc = "stage" /\ todo # <<>>
  /\ Head(todo) \in MayAbort
  /\ Exit("crash")
  /\ UNCHANGED <<cli, ir, out, driver>>

\* Mutant: the call counter moves two stages on.
EndStage_two ==
  /\ pc = "stage" /\ todo = <<>>
  /\ done' = Append(done, StageCalls(mode)[call])
  /\ call' = call + 2
  /\ pc' = "driver"
  /\ UNCHANGED <<cli, ir, rank, todo, ran, out, code>>

EndStage ==
  /\ pc = "stage" /\ todo = <<>>
  /\ done' = Append(done, StageCalls(mode)[call])
  /\ call' = call + 1
  /\ pc' = "driver"
  /\ UNCHANGED <<cli, ir, rank, todo, ran, out, code>>

\* Mutant: the module is printed whatever --dump-ir says.
PrintModule_always ==
  /\ pc = "driver" /\ call = 6 /\ ~cli.jit
  /\ out' = Append(out, "module")
  /\ Exit("0")
  /\ UNCHANGED <<cli, ir, driver>>

PrintModule ==
  /\ pc = "driver" /\ call = 6 /\ ~cli.jit
  /\ out' = IF cli.dumpIr THEN out ELSE Append(out, "module")
  /\ Exit("0")
  /\ UNCHANGED <<cli, ir, driver>>

-----------------------------------------------------------------------------
\* ExecutionEngine::create translates the LLVM dialect and nothing else.
CreateEngine ==
  /\ pc = "driver" /\ call = 6 /\ cli.jit
  /\ ir = {"llvm"}
  /\ pc' = "invoke"
  /\ UNCHANGED <<cli, ir, out, code, driver>>

EngineFails ==
  /\ pc = "driver" /\ call = 6 /\ cli.jit
  /\ Exit("1")
  /\ UNCHANGED <<cli, ir, out, driver>>

printMemRefF32(r) == IF r \in {0, 1, 2, 4} THEN "values" ELSE "unsupported rank"

Invoke ==
  /\ pc = "invoke" /\ rank <= 4
  /\ out' = Append(out, printMemRefF32(rank))
  /\ Exit("0")
  /\ UNCHANGED <<cli, ir, driver>>

(***************************************************************************)
(* The compiled code may fault, and invokeJitRanked() hands the result to  *)
(* free() after printing it, which aborts when the result is not heap      *)
(* memory. What was printed is in a buffer then: it reaches stdout or not. *)
(***************************************************************************)
InvokeCrashes ==
  /\ pc = "invoke" /\ rank <= 4
  /\ out' \in {out, Append(out, printMemRefF32(rank))}
  /\ Exit("crash")
  /\ UNCHANGED <<cli, ir, driver>>

\* An invocation error, or a rank the switch has no case for.
InvokeFails ==
  /\ pc = "invoke"
  /\ Exit("1")
  /\ UNCHANGED <<cli, ir, out, driver>>

Main == ListPasses \/ NoModule \/ LoadModule \/ ParseOptions \/ PrintModule

RunJit == EntryAccepted \/ EntryRejected \/ EntryWithoutResult
          \/ CreateEngine \/ EngineFails
          \/ Invoke \/ InvokeCrashes \/ InvokeFails

RunPipeline == BeginStage \/ SkipStage \/ RunPass \/ FailPass \/ AbortPass
               \/ EndStage

Next == Main \/ RunJit \/ RunPipeline

Spec == Init /\ [][Next]_vars /\ WF_vars(Next)

-----------------------------------------------------------------------------
TypeOK ==
  /\ cli \in CommandLine
  /\ pc \in {"main", "entry", "options", "driver", "stage", "invoke", "exit"}
  /\ ir \subseteq Dialect
  /\ rank \in Nat
  /\ call \in 1..6
  /\ todo \in Seq(Pass) /\ ran \in Seq(Pass) /\ done \in Seq(Stage)
  /\ out \in Seq({"pass-list", "module", "values", "unsupported rank"})
  /\ code \in {"none", "0", "1", "crash"}

Succeeded == code = "0" /\ ~cli.listPasses

(***************************************************************************)
(* The stage plan as the design documents tabulate it: one lowering stage, *)
(* chosen by the loop mode, and everything up to the stop, inclusive.      *)
(***************************************************************************)
PlanLength(stop) ==
  CASE stop = "Fusion"                        -> 1
    [] stop = "Linalg"                        -> 2
    [] stop = "Bufferize"                     -> 3
    [] stop \in {"Loops", "Affine", "Vector"} -> 4
    [] stop \in {"LLVM", "All"}               -> 5

Lowering(m) ==
  CASE m = "ScfSeq" -> "Loops"  [] m = "ScfPar" -> "Loops"
    [] m = "Affine" -> "Affine" [] m = "Vector" -> "Vector"

DocumentedPlan ==
  [i \in 1..PlanLength(cli.stopAfter) |->
     <<"Fusion", "Linalg", "Bufferize", Lowering(mode), "LLVM">>[i]]

(***************************************************************************)
(* A run that succeeds has completed exactly the documented stages: the    *)
(* integer comparison of runThroughStage, over an enumeration that puts    *)
(* the alternative stages Loops, Affine and Vector in sequence, neither    *)
(* drops a stage nor runs a second lowering.                               *)
(***************************************************************************)
RunsDocumentedPlan == Succeeded => done = DocumentedPlan

(***************************************************************************)
(* stdout agrees with the exit code and with what was run. A run that ends *)
(* with code 1 has printed nothing, a run that crashes at most the values  *)
(* of a --jit run (the free() after the print), and one that succeeds      *)
(* exactly what its options ask for: the values the entry returned, a      *)
(* placeholder in their place at rank 3; without --jit the module, or      *)
(* nothing under --dump-ir. Values are only printed of a module that went  *)
(* through the LLVM stage: a --jit run with an earlier stop prints none.   *)
(***************************************************************************)
Result == CASE cli.jit    -> <<IF rank = 3 THEN "unsupported rank" ELSE "values">>
            [] ~cli.jit /\ cli.dumpIr  -> <<>>
            [] ~cli.jit /\ ~cli.dumpIr -> <<"module">>

OutputMatchesExit ==
  /\ code \in {"none", "1"} => out = <<>>
  /\ code = "crash" => out = <<>> \/ (cli.jit /\ out = Result)
  /\ Succeeded => out = Result
  /\ cli.jit /\ ~cli.listPasses /\ out # <<>> => "LLVM" \in Elements(done)

(***************************************************************************)
(* The one-pass-manager builder, which embedders call, schedules the very  *)
(* passes the staged driver runs.                                          *)
(***************************************************************************)
BuilderMatchesDriver ==
  Succeeded => ran = buildAICompilerPipeline(mode, cli.stopAfter)

(***************************************************************************)
(* --list-passes tells the truth: a pass on the list runs exactly when the *)
(* stage named beside it does, in that loop mode, and a run down to LLVM   *)
(* goes through every pass printed for its mode.                           *)
(***************************************************************************)
PrintedAs(stage) ==
  CASE stage = "Fusion"    -> "fusion"
    [] stage = "Linalg"    -> "linalg"
    [] stage = "Bufferize" -> "bufferize"
    [] stage = "Loops"     -> IF mode = "ScfSeq" THEN "loops/scf-seq"
                                                 ELSE "loops/scf-par"
    [] stage = "Affine"    -> "affine"
    [] stage = "Vector"    -> "vector"
    [] stage = "LLVM"      -> "llvm"

ListTellsRuns ==
  Succeeded =>
    /\ \A i \in DOMAIN kPasses :
         kPasses[i] \in Elements(ran)
           <=> kStages[i] \in {PrintedAs(stage) : stage \in Elements(done)}
    /\ "LLVM" \in Elements(done) => LoopModePath(mode) \subseteq Elements(ran)

(***************************************************************************)
(* A stop at the affine or the vector stage prints the IR of that stage:   *)
(* no step of such a run takes the dialect asked for out of the module     *)
(* again, so whatever the stage made of it is there at the end             *)
(* (2026-06-16-affine-vector-lowering-design.md:46,60: the stop comes      *)
(* "before lower-affine").                                                 *)
(***************************************************************************)
AskedFor == CASE cli.stopAfter = "Affine" -> {"affine"}
              [] cli.stopAfter = "Vector" -> {"affine", "vector"}
              [] OTHER                    -> {}

StopKeepsDialect == [][AskedFor \cap ir \subseteq ir']_vars

(***************************************************************************)
(* No pass brings back a dialect that a completed stage has lowered away:  *)
(* each stage may rely on what the stages before it removed.               *)
(***************************************************************************)
RemovedBy(stage) ==
  CASE stage = "Linalg"    -> {"stablehlo", "chlo"}
    [] stage = "Bufferize" -> {"tensor"}
    [] stage = "Loops"     -> {"linalg", "bufferization", "scf"}
    [] stage \in {"Affine", "Vector"} -> {"linalg", "bufferization"}
    [] OTHER               -> {}

NoRaise ==
  [][\A i \in DOMAIN done : ir' \cap RemovedBy(done[i]) = {}]_vars

(***************************************************************************)
(* The driver descends the ladder: the level is read off the dialects.     *)
(***************************************************************************)
LevelOf(d) ==
  CASE d = {} \/ d \cap {"chlo", "stablehlo"} # {} -> 0
    [] d \cap {"chlo", "stablehlo"} = {} /\ "tensor" \in d -> 1
    [] d \cap {"chlo", "stablehlo", "tensor"} = {} /\ "linalg" \in d -> 2
    [] d = {"llvm"} -> 4
    [] OTHER -> 3

GoalOf == CASE cli.stopAfter \in {"Fusion", "unknown"}           -> 0
            [] cli.stopAfter = "Linalg"                          -> 1
            [] cli.stopAfter = "Bufferize"                       -> 2
            [] cli.stopAfter \in {"Loops", "Affine", "Vector"}   -> 3
            [] cli.stopAfter \in {"LLVM", "All"}                 -> 4

StatusOf == CASE code = "none" -> "running"
              [] code = "0"    -> IF cli.listPasses THEN "answered" ELSE "ok"
              [] OTHER         -> "failed"

Ladder == INSTANCE LoweringLadder
            WITH Top <- 4, goal <- GoalOf, level <- LevelOf(ir),
                 status <- StatusOf

(***************************************************************************)
(* Every stage moves the module down exactly as far as its name says, in   *)
(* every loop mode, and a successful run has stopped on the requested      *)
(* rung; in particular --pipeline-stop-after=all leaves only LLVM dialect, *)
(* with no unrealized cast.                                                *)
(***************************************************************************)
DescendsLadder == Ladder!Spec
=============================================================================
