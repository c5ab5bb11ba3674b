--------------------------- MODULE PipeDemoProofs ---------------------------
(***************************************************************************)
(* Proofs about the driver, for every set of inputs and ranks: its types,  *)
(* the stages and passes a successful run has completed, what it printed,  *)
(* what --list-passes tells of it, and, for inputs without affine and      *)
(* vector ops, how each pass moves the module down the ladder of levels.   *)
(***************************************************************************)
EXTENDS PipeDemo, TLAPS

(***************************************************************************)
(* The command line never changes, the driver runs only on options that    *)
(* parsed, and at every point the completed stages are the documented plan *)
(* cut at the number of calls made.                                        *)
(***************************************************************************)
PlanInv ==
  /\ cli \in CommandLine
  /\ call \in 1..6
  /\ pc \in {"main", "entry", "options"} => call = 1 /\ done = <<>>
  /\ pc \in {"driver", "stage", "invoke"} => parsePipelineOptions
  /\ pc = "stage" =>
       /\ call <= 5
       /\ runThroughStage(StageCalls(mode)[call], cli.stopAfter)
  /\ pc = "invoke" => call = 6
  /\ (code = "none") <=> (pc # "exit")
  /\ Succeeded => parsePipelineOptions /\ call = 6
  /\ parsePipelineOptions =>
       done = [i \in 1..(IF call - 1 <= PlanLength(cli.stopAfter)
                         THEN call - 1 ELSE PlanLength(cli.stopAfter)) |->
                 StageCalls(mode)[i]]

(***************************************************************************)
(* On options that validate, the driver's test of a call agrees with the   *)
(* documented length of the plan.                                          *)
(***************************************************************************)
LEMMA RunThroughPlan ==
  ASSUME NEW stop \in Stage, NEW m \in LoopMode,
         validatePipelineOptions(stop, m), NEW k \in 1..5
  PROVE  /\ runThroughStage(StageCalls(m)[k], stop) <=> k <= PlanLength(stop)
         /\ PlanLength(stop) \in 1..5
         /\ StageCalls(m) = <<"Fusion", "Linalg", "Bufferize", Lowering(m), "LLVM">>
  <1>1. StageCalls(m) = <<"Fusion", "Linalg", "Bufferize", Lowering(m), "LLVM">>
    BY DEF StageCalls, Lowering, loopModeStage, LoopMode
  <1>2. PlanLength(stop) \in 1..5
    BY DEF PlanLength, Stage
  <1>3. CASE k = 1
    BY <1>1, <1>3 DEF runThroughStage, StageNo, PlanLength, Stage
  <1>4. CASE k = 2
    BY <1>1, <1>4 DEF runThroughStage, StageNo, PlanLength, Stage
  <1>5. CASE k = 3
    BY <1>1, <1>5 DEF runThroughStage, StageNo, PlanLength, Stage
  <1>6. CASE k = 4
    BY <1>1, <1>6 DEF runThroughStage, StageNo, PlanLength, Stage, Lowering,
                      LoopMode, validatePipelineOptions
  <1>7. CASE k = 5
    BY <1>1, <1>7 DEF runThroughStage, StageNo, PlanLength, Stage
  <1>8. QED
    BY <1>1, <1>2, <1>3, <1>4, <1>5, <1>6, <1>7

LEMMA PlanInit == Init => PlanInv
  <1> SUFFICES ASSUME Init PROVE PlanInv
    OBVIOUS
  <1>1. parsePipelineOptions =>
          done = [i \in 1..(IF call - 1 <= PlanLength(cli.stopAfter)
                            THEN call - 1 ELSE PlanLength(cli.stopAfter)) |->
                    StageCalls(mode)[i]]
    <2> SUFFICES ASSUME parsePipelineOptions
                 PROVE  done = [i \in 1..(IF call - 1 <= PlanLength(cli.stopAfter)
                               THEN call - 1 ELSE PlanLength(cli.stopAfter)) |->
                               StageCalls(mode)[i]]
      OBVIOUS
    <2>1. PlanLength(cli.stopAfter) \in 1..5
      BY RunThroughPlan DEF parsePipelineOptions
    <2>2. QED
      BY <2>1 DEF Init
  <1>2. QED
    BY <1>1 DEF Init, PlanInv, Succeeded

LEMMA PlanStep == PlanInv /\ [Next]_vars => PlanInv'
  <1> SUFFICES ASSUME PlanInv, [Next]_vars
               PROVE  PlanInv'
    OBVIOUS
  <1> DEFINE full == StageCalls(mode)
             length == PlanLength(cli.stopAfter)
             cut(c) == [i \in 1..(IF c - 1 <= length THEN c - 1 ELSE length) |->
                          full[i]]
  \* No step touches the command line, so the options and the plan stay.
  <1>1. /\ cli' = cli
        /\ mode' = mode
        /\ parsePipelineOptions' = parsePipelineOptions
    <2>1. cli' = cli
      BY DEF Next, Main, RunJit, RunPipeline, ListPasses, NoModule, LoadModule,
             EntryAccepted, EntryRejected, EntryWithoutResult, ParseOptions,
             BeginStage, SkipStage, RunPass, FailPass, AbortPass, EndStage,
             PrintModule,
             CreateEngine, EngineFails, Invoke, InvokeCrashes, InvokeFails, vars
    <2>2. mode' = mode
      BY <2>1 DEF mode
    <2>3. QED
      BY <2>1, <2>2 DEF parsePipelineOptions
  \* A step that leaves calls and stages alone, by where it goes.
  <1>2. ASSUME call' = call, done' = done,
               \/ pc' = "exit" /\ code' \in {"1", "crash"}
               \/ pc' = "exit" /\ code' = "0" /\ cli.listPasses
               \/ pc' = "exit" /\ code' = "0" /\ parsePipelineOptions /\ call = 6
               \/ pc' = pc /\ code' = code
               \/ pc \in {"main", "entry"} /\ pc' \in {"entry", "options"}
                  /\ code' = code
               \/ pc = "options" /\ pc' = "driver" /\ code' = code
                  /\ parsePipelineOptions
               \/ pc = "driver" /\ pc' = "stage" /\ code' = code /\ call <= 5
                  /\ runThroughStage(full[call], cli.stopAfter)
               \/ pc = "driver" /\ pc' = "invoke" /\ code' = code /\ call = 6
        PROVE  PlanInv'
    <2>1. code \notin {"1", "crash", "0"} \/ pc = "exit"
      BY DEF PlanInv
    <2>2. QED
      BY <1>1, <1>2, <2>1 DEF PlanInv, Succeeded
  <1>3. CASE Main
    <2>1. CASE ListPasses
      BY <1>2, <2>1 DEF ListPasses, Exit, driver
    <2>2. CASE NoModule
      BY <1>2, <2>2 DEF NoModule, Exit, driver
    <2>3. CASE LoadModule
      BY <1>2, <2>3 DEF LoadModule, driver
    <2>4. CASE ParseOptions
      BY <1>2, <2>4 DEF ParseOptions, Exit, driver
    <2>5. CASE PrintModule
      BY <1>2, <2>5 DEF PrintModule, Exit, driver, PlanInv
    <2>6. QED
      BY <1>3, <2>1, <2>2, <2>3, <2>4, <2>5 DEF Main
  <1>4. CASE RunJit
    <2>1. CASE EntryAccepted
      BY <1>2, <2>1 DEF EntryAccepted
    <2>2. CASE EntryRejected
      BY <1>2, <2>2 DEF EntryRejected, Exit, driver
    <2>3. CASE EntryWithoutResult
      BY <1>2, <2>3 DEF EntryWithoutResult, Exit, driver
    <2>4. CASE CreateEngine
      BY <1>2, <2>4 DEF CreateEngine, driver
    <2>5. CASE EngineFails
      BY <1>2, <2>5 DEF EngineFails, Exit, driver
    <2>6. CASE Invoke
      BY <1>2, <2>6 DEF Invoke, Exit, driver, PlanInv
    <2>7. CASE InvokeFails
      BY <1>2, <2>7 DEF InvokeCrashes, InvokeFails, Exit, driver
    <2>8. CASE InvokeCrashes
      BY <1>2, <2>8 DEF InvokeCrashes, Exit, driver
    <2>9. QED
      BY <1>4, <2>1, <2>2, <2>3, <2>4, <2>5, <2>6, <2>7, <2>8 DEF RunJit
  <1>5. CASE RunPipeline
    \* In the driver the options are valid, so the plan lemma applies.
    <2>1. ASSUME pc \in {"driver", "stage"}, call \in 1..5
          PROVE  /\ parsePipelineOptions
                 /\ runThroughStage(full[call], cli.stopAfter) <=> call <= length
                 /\ length \in 1..5
                 /\ done = cut(call)
      <3>1. parsePipelineOptions
        BY <2>1 DEF PlanInv
      <3>2. cli.stopAfter \in Stage /\ mode \in LoopMode
            /\ validatePipelineOptions(cli.stopAfter, mode)
        BY <3>1 DEF parsePipelineOptions
      <3>3. QED
        BY <3>1, <3>2, <2>1, RunThroughPlan DEF PlanInv
    <2>2. CASE BeginStage
      BY <1>2, <2>2 DEF BeginStage
    <2>3. CASE SkipStage
      <3>1. pc = "driver" /\ call \in 1..5 /\ call' = call + 1 /\ done' = done
            /\ pc' = pc /\ code' = code /\ ~(call <= length)
        BY <2>1, <2>3 DEF SkipStage, PlanInv
      <3>2. cut(call') = cut(call)
        BY <2>1, <3>1
      <3>3. done' = cut(call')
        BY <2>1, <3>1, <3>2
      <3> HIDE DEF cut
      <3>4. (parsePipelineOptions => done = cut(call))'
        BY <1>1, <3>3 DEF cut
      <3>5. QED
        BY <1>1, <3>1, <3>4 DEF PlanInv, Succeeded, cut
    <2>4. CASE RunPass
      BY <1>2, <2>4 DEF RunPass
    <2>5. CASE FailPass \/ AbortPass
      BY <1>2, <2>5 DEF FailPass, AbortPass, Exit, driver
    <2>6. CASE EndStage
      <3>1. pc = "stage" /\ call \in 1..5 /\ call' = call + 1
            /\ done' = Append(done, full[call])
            /\ pc' = "driver" /\ code' = code /\ call <= length
        BY <2>1, <2>6 DEF EndStage, PlanInv
      <3>2. done = [i \in 1..(call - 1) |-> full[i]]
        BY <2>1, <3>1
      <3>3. Append(done, full[call]) = [i \in 1..call |-> full[i]]
        BY <3>1, <3>2
      <3>4. done' = cut(call')
        BY <2>1, <3>1, <3>3
      <3> HIDE DEF cut
      <3>5. (parsePipelineOptions => done = cut(call))'
        BY <1>1, <3>4 DEF cut
      <3>6. QED
        BY <1>1, <2>1, <3>1, <3>5 DEF PlanInv, Succeeded, cut
    <2>7. QED
      BY <1>5, <2>2, <2>3, <2>4, <2>5, <2>6 DEF RunPipeline
  <1>6. CASE UNCHANGED vars
    BY <1>2, <1>6 DEF vars
  <1>7. QED
    BY <1>3, <1>4, <1>5, <1>6 DEF Next

(***************************************************************************)
(* A run that succeeds has completed the documented stages and no other,   *)
(* whatever the input, the loop mode and the stop (Pipeline.cpp:91-135).   *)
(***************************************************************************)
THEOREM PlanHonoured == Spec => []RunsDocumentedPlan
  <1>1. PlanInv => RunsDocumentedPlan
    <2> SUFFICES ASSUME PlanInv, Succeeded
                 PROVE  done = DocumentedPlan
      BY DEF RunsDocumentedPlan
    <2>1. parsePipelineOptions /\ call = 6
      BY DEF PlanInv
    <2>2. /\ PlanLength(cli.stopAfter) \in 1..5
          /\ StageCalls(mode)
               = <<"Fusion", "Linalg", "Bufferize", Lowering(mode), "LLVM">>
      BY <2>1, RunThroughPlan DEF parsePipelineOptions
    <2>3. done = [i \in 1..PlanLength(cli.stopAfter) |-> StageCalls(mode)[i]]
      BY <2>1, <2>2 DEF PlanInv
    <2>4. QED
      BY <2>2, <2>3 DEF DocumentedPlan
  <1>2. QED
    BY PlanInit, PlanStep, <1>1, PTL DEF Spec

-----------------------------------------------------------------------------
(***************************************************************************)
(* Types. What a stage schedules is a sequence of pass names, and no pass  *)
(* leaves anything but dialects in the module.                             *)
(***************************************************************************)
LEMMA InElements ==
  ASSUME NEW S, NEW s \in Seq(S), NEW P, Elements(s) \subseteq P
  PROVE  s \in Seq(P)
<1>1. \A n \in 1..Len(s) : s[n] \in Elements(s)
  BY DEF Elements
<1> QED
  BY <1>1

LEMMA ElementsConcat ==
  ASSUME NEW S, NEW s \in Seq(S), NEW t \in Seq(S)
  PROVE  /\ s \o t \in Seq(S)
         /\ Elements(s \o t) = Elements(s) \cup Elements(t)
<1>1. s \o t \in Seq(S)
  OBVIOUS
<1>2. Elements(s) \cup Elements(t) \subseteq Elements(s \o t)
  <2>1. \A n \in 1..Len(s) : s[n] = (s \o t)[n] /\ n \in 1..Len(s \o t)
    OBVIOUS
  <2>2. \A n \in 1..Len(t) : /\ t[n] = (s \o t)[n + Len(s)]
                             /\ n + Len(s) \in 1..Len(s \o t)
    OBVIOUS
  <2> QED
    BY <2>1, <2>2 DEF Elements
<1>3. Elements(s \o t) \subseteq Elements(s) \cup Elements(t)
  <2>1. \A n \in 1..Len(s \o t) :
          (s \o t)[n] = IF n <= Len(s) THEN s[n] ELSE t[n - Len(s)]
    OBVIOUS
  <2> QED
    BY <2>1 DEF Elements
<1> QED
  BY <1>1, <1>2, <1>3

LEMMA FixedBuilders ==
  /\ buildFusionStage \in Seq(Pass)
  /\ buildStableHloToLinalgStage \in Seq(Pass)
  /\ buildLinalgOptimizationStage \in Seq(Pass)
  /\ buildBufferizationStage \in Seq(Pass)
  /\ buildLowerToLoopsStage \in Seq(Pass)
  /\ buildVectorizationStage \in Seq(Pass)
<1>1. buildFusionStage \in Seq(Elements(buildFusionStage))
  BY DEF buildFusionStage, Elements
<1>2. buildStableHloToLinalgStage \in Seq(Elements(buildStableHloToLinalgStage))
  BY DEF buildStableHloToLinalgStage, Elements
<1>3. buildLinalgOptimizationStage \in Seq(Elements(buildLinalgOptimizationStage))
  BY DEF buildLinalgOptimizationStage, Elements
<1>4. buildBufferizationStage \in Seq(Elements(buildBufferizationStage))
  BY DEF buildBufferizationStage, Elements
<1>5. buildLowerToLoopsStage \in Seq(Elements(buildLowerToLoopsStage))
  BY DEF buildLowerToLoopsStage, Elements
<1>6. buildVectorizationStage \in Seq(Elements(buildVectorizationStage))
  BY DEF buildVectorizationStage, Elements
<1>7. \A S : (\E s : S = Elements(s)) /\ S \subseteq Pass => Seq(S) \subseteq Seq(Pass)
  OBVIOUS
<1> QED
  BY <1>1, <1>2, <1>3, <1>4, <1>5, <1>6, <1>7 DEF Pass

(***************************************************************************)
(* A builder with a choice: its longest sequence is head \o rest \o last,  *)
(* and what it schedules is made of the same parts.                        *)
(***************************************************************************)
LEMMA PartsArePasses ==
  ASSUME NEW S, NEW head \in Seq(S), NEW rest \in Seq(S), NEW last \in Seq(S),
         Elements((head \o rest) \o last) \subseteq Pass
  PROVE  /\ head \in Seq(Pass) /\ rest \in Seq(Pass) /\ last \in Seq(Pass)
<1>1. head \o rest \in Seq(S)
  BY ElementsConcat
<1>2. Elements(head \o rest) = Elements(head) \cup Elements(rest)
  BY ElementsConcat
<1>3. Elements((head \o rest) \o last) = Elements(head \o rest) \cup Elements(last)
  BY <1>1, ElementsConcat
<1> QED
  BY <1>2, <1>3, InElements

LEMMA AffineBuilder == \A b \in BOOLEAN : buildAffineStage(b) \in Seq(Pass)
<1> DEFINE head == <<"convert-bufferization-to-memref",
                     "convert-linalg-to-affine-loops", "custom-affine-opt">>
           rest == <<"lower-affine", "convert-scf-to-cf">>
           S == Elements(head) \cup Elements(rest)
<1>1. head \in Seq(S) /\ rest \in Seq(S) /\ <<>> \in Seq(S)
  BY DEF Elements
<1>2. buildAffineStage(FALSE) = head \o rest /\ buildAffineStage(TRUE) = head \o <<>>
  BY DEF buildAffineStage
<1>3. Elements((head \o rest) \o <<>>) \subseteq Pass
  <2>1. (head \o rest) \o <<>> = head \o rest
    BY <1>1
  <2> QED
    BY <1>2, <2>1 DEF Pass
<1> HIDE DEF head, rest, S
<1>4. head \in Seq(Pass) /\ rest \in Seq(Pass)
  BY <1>1, <1>3, PartsArePasses
<1>5. head \o rest \in Seq(Pass) /\ head \o <<>> \in Seq(Pass)
  BY <1>4
<1> QED
  BY <1>2, <1>5

LEMMA VectorBuilder ==
  \A b \in BOOLEAN : buildVectorDialectStage(b) \in Seq(Pass)
<1> DEFINE head == <<"convert-bufferization-to-memref",
                     "convert-linalg-to-affine-loops",
                     "affine-super-vectorize", "custom-vector-opt">>
           rest == <<"lower-affine", "convert-scf-to-cf">>
           S == Elements(head) \cup Elements(rest)
<1>1. head \in Seq(S) /\ rest \in Seq(S) /\ <<>> \in Seq(S)
  BY DEF Elements
<1>2. /\ buildVectorDialectStage(FALSE) = head \o rest
      /\ buildVectorDialectStage(TRUE) = head \o <<>>
  BY DEF buildVectorDialectStage
<1>3. Elements((head \o rest) \o <<>>) \subseteq Pass
  <2>1. (head \o rest) \o <<>> = head \o rest
    BY <1>1
  <2> QED
    BY <1>2, <2>1 DEF Pass
<1> HIDE DEF head, rest, S
<1>4. head \in Seq(Pass) /\ rest \in Seq(Pass)
  BY <1>1, <1>3, PartsArePasses
<1>5. head \o rest \in Seq(Pass) /\ head \o <<>> \in Seq(Pass)
  BY <1>4
<1> QED
  BY <1>2, <1>5

LEMMA LLVMBuilder == \A m \in LoopMode : buildLLVMLoweringStage(m) \in Seq(Pass)
<1> DEFINE head == <<"expand-strided-metadata", "lower-affine",
                     "convert-arith-to-llvm", "convert-cf-to-llvm",
                     "convert-func-to-llvm", "convert-index-to-llvm",
                     "convert-math-to-llvm">>
           rest == <<"convert-vector-to-llvm">>
           last == <<"finalize-memref-to-llvm", "reconcile-unrealized-casts",
                     "custom-llvm-cleanup">>
           S == (Elements(head) \cup Elements(rest)) \cup Elements(last)
<1>1. head \in Seq(S) /\ rest \in Seq(S) /\ last \in Seq(S)
  BY DEF Elements
<1>2. \A m \in LoopMode : \/ buildLLVMLoweringStage(m) = (head \o rest) \o last
                          \/ buildLLVMLoweringStage(m) = (head \o <<>>) \o last
  BY DEF buildLLVMLoweringStage
<1>3. buildLLVMLoweringStage("Vector") = (head \o rest) \o last
  BY DEF buildLLVMLoweringStage
<1> HIDE DEF head, rest, last, S
<1>4. head \in Seq(Pass) /\ rest \in Seq(Pass) /\ last \in Seq(Pass)
  BY <1>1, <1>3, PartsArePasses DEF Pass
<1>5. (head \o rest) \o last \in Seq(Pass) /\ (head \o <<>>) \o last \in Seq(Pass)
  BY <1>4
<1> QED
  BY <1>2, <1>5

LEMMA PassesType ==
  ASSUME NEW k \in 1..5, NEW m \in LoopMode, NEW stop \in Stage
  PROVE  PassesOfCall(k, m, stop) \in Seq(Pass)
<1>1. buildLoopModeStage(m, stop) \in Seq(Pass)
  BY FixedBuilders, AffineBuilder, VectorBuilder DEF buildLoopModeStage, LoopMode
<1>2. buildStableHloToLinalgStage \o buildLinalgOptimizationStage \in Seq(Pass)
  BY FixedBuilders
<1> QED
  BY <1>1, <1>2, FixedBuilders, LLVMBuilder DEF PassesOfCall

LEMMA AfterType ==
  ASSUME NEW pass, NEW d \in SUBSET Dialect
  PROVE  After(pass, d) \in SUBSET Dialect
<1>1. Emits(pass, d) \subseteq Dialect
  BY DEF Emits, Dialect
<1> QED
  BY <1>1 DEF After, Reconciled

LEMMA TypeStep == TypeOK /\ PlanInv /\ [Next]_vars => TypeOK'
<1> DEFINE Printed == {"pass-list", "module", "values", "unsupported rank"}
           DriverOK == /\ rank \in Nat /\ call \in 1..6
                       /\ todo \in Seq(Pass) /\ ran \in Seq(Pass)
                       /\ done \in Seq(Stage)
<1> SUFFICES ASSUME TypeOK, PlanInv, [Next]_vars
             PROVE  TypeOK'
  OBVIOUS
<1>1. cli' = cli
  BY DEF Next, Main, RunJit, RunPipeline, vars, ListPasses, NoModule,
         LoadModule, ParseOptions, PrintModule, EntryAccepted, EntryRejected,
         EntryWithoutResult, CreateEngine, EngineFails, Invoke, InvokeCrashes,
         InvokeFails,
         BeginStage, SkipStage, RunPass, FailPass, AbortPass, EndStage
<1>2. out' \in Seq(Printed)
  <2>0. out \in Seq(Printed)
    BY DEF TypeOK
  <2>9. /\ "pass-list" \in Printed /\ "module" \in Printed
        /\ printMemRefF32(rank) \in Printed
    BY DEF printMemRefF32
  <2> HIDE DEF Printed
  <2>1. out \in Seq(Printed) /\ <<"pass-list">> \in Seq(Printed)
    BY <2>0, <2>9
  <2>2. Append(out, "module") \in Seq(Printed)
    BY <2>0, <2>9
  <2>3. Append(out, printMemRefF32(rank)) \in Seq(Printed)
    BY <2>0, <2>9
  <2> QED
    BY <2>1, <2>2, <2>3
    DEF Next, Main, RunJit, RunPipeline, vars, ListPasses, NoModule,
        LoadModule, ParseOptions, PrintModule, EntryAccepted, EntryRejected,
        EntryWithoutResult, CreateEngine, EngineFails, Invoke, InvokeCrashes,
        InvokeFails,
        BeginStage, SkipStage, RunPass, FailPass, AbortPass, EndStage
<1>3. /\ pc' \in {"main", "entry", "options", "driver", "stage", "invoke", "exit"}
      /\ code' \in {"none", "0", "1", "crash"}
  BY DEF TypeOK, Exit, Next, Main, RunJit, RunPipeline, vars, ListPasses,
         NoModule, LoadModule, ParseOptions, PrintModule, EntryAccepted,
         EntryRejected, EntryWithoutResult, CreateEngine, EngineFails, Invoke,
         InvokeCrashes, InvokeFails, BeginStage, SkipStage, RunPass, FailPass,
         AbortPass, EndStage
<1>4. ir' \subseteq Dialect /\ DriverOK'
  <2>0. ir \subseteq Dialect /\ DriverOK
    BY DEF TypeOK
  <2>1. CASE ListPasses \/ NoModule \/ ParseOptions \/ PrintModule
             \/ EntryRejected \/ EntryWithoutResult \/ CreateEngine
             \/ EngineFails \/ Invoke \/ InvokeCrashes \/ InvokeFails
             \/ FailPass \/ AbortPass
    <3>1. UNCHANGED <<ir, rank, call, todo, done, ran>>
      BY <2>1 DEF driver, ListPasses, NoModule, ParseOptions, PrintModule,
                  EntryRejected, EntryWithoutResult, CreateEngine, EngineFails,
                  Invoke, InvokeCrashes, InvokeFails, FailPass, AbortPass
    <3> QED
      BY <2>0, <3>1
  <2>2. CASE LoadModule
    BY <2>0, <2>2, InputAssumption DEF LoadModule, driver
  <2>3. CASE EntryAccepted
    BY <2>0, <2>3, InputAssumption DEF EntryAccepted
  <2>4. CASE BeginStage
    <3>1. /\ call \in 1..5 /\ mode \in LoopMode /\ cli.stopAfter \in Stage
          /\ todo' = PassesOfCall(call, mode, cli.stopAfter)
          /\ UNCHANGED <<ir, rank, call, done, ran>>
      BY <2>0, <2>4 DEF BeginStage, PlanInv, parsePipelineOptions
    <3>2. todo' \in Seq(Pass)
      BY <3>1, PassesType
    <3> QED
      BY <2>0, <3>1, <3>2
  <2>5. CASE SkipStage
    <3>1. call' \in 1..6 /\ UNCHANGED <<ir, rank, todo, done, ran>>
      BY <2>0, <2>5 DEF SkipStage
    <3> QED
      BY <2>0, <3>1
  <2>6. CASE RunPass
    <3>1. /\ todo # <<>> /\ ir' = After(Head(todo), ir)
          /\ ran' = Append(ran, Head(todo)) /\ todo' = Tail(todo)
          /\ UNCHANGED <<rank, call, done>>
      BY <2>6 DEF RunPass
    <3>2. ran' \in Seq(Pass) /\ todo' \in Seq(Pass)
      BY <2>0, <3>1
    <3>3. ir' \subseteq Dialect
      BY <2>0, <3>1, AfterType
    <3> QED
      BY <2>0, <3>1, <3>2, <3>3
  <2>7. CASE EndStage
    <3>1. /\ call \in 1..5 /\ mode \in LoopMode
          /\ call' = call + 1 /\ done' = Append(done, StageCalls(mode)[call])
          /\ UNCHANGED <<ir, rank, todo, ran>>
      BY <2>0, <2>7 DEF EndStage, PlanInv, parsePipelineOptions
    <3>2. StageCalls(mode)[call] \in Stage
      BY <3>1 DEF StageCalls, loopModeStage, Stage, LoopMode
    <3> QED
      BY <2>0, <3>1, <3>2
  <2>8. CASE UNCHANGED vars
    BY <2>0, <2>8 DEF vars
  <2> HIDE DEF DriverOK
  <2> QED
    BY <2>1, <2>2, <2>3, <2>4, <2>5, <2>6, <2>7, <2>8
    DEF Next, Main, RunJit, RunPipeline
<1> QED
  BY <1>1, <1>2, <1>3, <1>4 DEF TypeOK

(***************************************************************************)
(* Every variable of the driver keeps its type, whatever the input.        *)
(***************************************************************************)
THEOREM TypeCorrect == Spec => []TypeOK
<1>1. Init => TypeOK
  BY DEF Init, TypeOK
<1>2. Spec => []PlanInv
  BY PlanInit, PlanStep, PTL DEF Spec
<1> QED
  BY <1>1, <1>2, TypeStep, PTL DEF Spec

-----------------------------------------------------------------------------
(***************************************************************************)
(* Where in a stage the driver is: what a stage has still to run is a      *)
(* suffix of what its builder scheduled.                                   *)
(***************************************************************************)
Suffix(s, n) == [i \in 1..n |-> s[Len(s) - n + i]]

Scheduled == PassesOfCall(call, mode, cli.stopAfter)

TodoInv ==
  /\ todo \in Seq(Pass)
  /\ pc = "stage" => /\ Len(todo) \in 0..Len(Scheduled)
                     /\ todo = Suffix(Scheduled, Len(todo))

LEMMA TailIs ==
  ASSUME NEW S, NEW q \in Seq(S), q # <<>>
  PROVE  Tail(q) = [i \in 1..(Len(q) - 1) |-> q[i + 1]]
<1> DEFINE t == Tail(q)
<1>1. \A i \in 1..(Len(q) - 1) : t[i] = q[i + 1]
  OBVIOUS
<1>2. t \in Seq(S) /\ Len(t) = Len(q) - 1
  OBVIOUS
<1> HIDE DEF t
<1>3. t = [i \in 1..Len(t) |-> t[i]]
  BY <1>2
<1>4. t = [i \in 1..(Len(q) - 1) |-> q[i + 1]]
  BY <1>1, <1>2, <1>3
<1> QED
  BY <1>4 DEF t

LEMMA SuffixStep ==
  ASSUME NEW S, NEW s \in Seq(S), NEW n \in 1..Len(s)
  PROVE  /\ Suffix(s, n) # <<>>
         /\ Head(Suffix(s, n)) = s[Len(s) - n + 1]
         /\ Tail(Suffix(s, n)) = Suffix(s, n - 1)
         /\ Len(Suffix(s, n - 1)) = n - 1
<1>1. Len(s) \in Nat /\ n \in Nat
  OBVIOUS
<1>2. Suffix(s, n) \in Seq(S)
  BY <1>1 DEF Suffix
<1>3. Len(Suffix(s, n)) = n
  BY <1>1 DEF Suffix
<1>4. Tail(Suffix(s, n)) = [i \in 1..(n - 1) |-> Suffix(s, n)[i + 1]]
  <2>1. Suffix(s, n) # <<>>
    BY <1>1, <1>3
  <2> QED
    BY <1>2, <1>3, <2>1, TailIs
<1>5. \A i \in 1..(n - 1) : Suffix(s, n)[i + 1] = s[Len(s) - (n - 1) + i]
  BY <1>1 DEF Suffix
<1>6. Tail(Suffix(s, n)) = Suffix(s, n - 1)
  BY <1>4, <1>5 DEF Suffix
<1>7. Len(Suffix(s, n - 1)) = n - 1
  BY <1>1 DEF Suffix
<1>8. Head(Suffix(s, n)) = s[Len(s) - n + 1]
  BY <1>1, <1>2, <1>3 DEF Suffix
<1> QED
  BY <1>1, <1>2, <1>3, <1>6, <1>7, <1>8

LEMMA SuffixAll ==
  ASSUME NEW S, NEW s \in Seq(S)
  PROVE  s = Suffix(s, Len(s))
BY DEF Suffix

\* No step touches the command line, so what is scheduled stays.
LEMMA SameOptions ==
  [Next]_vars => /\ cli' = cli /\ mode' = mode
                 /\ parsePipelineOptions' = parsePipelineOptions
                 /\ \A k : PassesOfCall(k, mode, cli.stopAfter)'
                             = PassesOfCall(k, mode, cli.stopAfter)
<1> SUFFICES ASSUME [Next]_vars
             PROVE  /\ cli' = cli /\ mode' = mode
                    /\ parsePipelineOptions' = parsePipelineOptions
                    /\ \A k : PassesOfCall(k, mode, cli.stopAfter)'
                                = PassesOfCall(k, mode, cli.stopAfter)
  OBVIOUS
<1>1. cli' = cli
  BY DEF Next, Main, RunJit, RunPipeline, vars, ListPasses, NoModule,
         LoadModule, ParseOptions, PrintModule, EntryAccepted, EntryRejected,
         EntryWithoutResult, CreateEngine, EngineFails, Invoke, InvokeCrashes,
         InvokeFails,
         BeginStage, SkipStage, RunPass, FailPass, AbortPass, EndStage
<1>2. mode' = mode
  BY <1>1 DEF mode
<1> QED
  BY <1>1, <1>2 DEF parsePipelineOptions

\* What a step of the pipeline is, and that no other touches its state.
LEMMA StepShape ==
  ASSUME TypeOK, PlanInv, [Next]_vars
  PROVE  \/ BeginStage \/ SkipStage \/ RunPass \/ EndStage
         \/ /\ UNCHANGED <<call, todo, done, ran>>
            /\ ir' = ir \/ LoadModule
            /\ \/ pc' = "exit" /\ code' \in {"1", "crash"}
               \/ pc' = "exit" /\ code' = "0" /\ cli.listPasses
               \/ pc' = "exit" /\ code' = "0" /\ pc = "driver" /\ call = 6
               \/ pc' = "exit" /\ code' = "0" /\ pc = "invoke"
               \/ pc' = pc /\ code' = code
               \/ pc = "main" /\ pc' \in {"entry", "options"} /\ LoadModule
                  /\ code' = code
               \/ pc = "entry" /\ pc' = "options" /\ code' = code
               \/ pc = "options" /\ pc' = "driver" /\ code' = code
               \/ pc = "driver" /\ pc' = "invoke" /\ code' = code /\ call = 6
<1>1. CASE ListPasses \/ NoModule \/ EntryRejected \/ EntryWithoutResult
           \/ EngineFails \/ InvokeCrashes \/ InvokeFails \/ FailPass
           \/ AbortPass
  BY <1>1 DEF ListPasses, NoModule, EntryRejected, EntryWithoutResult,
              EngineFails, InvokeCrashes, InvokeFails, FailPass,
              AbortPass, Exit, driver
<1>2. CASE LoadModule
  BY <1>2 DEF LoadModule, driver
<1>3. CASE ParseOptions \/ EntryAccepted \/ CreateEngine
  BY <1>3 DEF ParseOptions, EntryAccepted, CreateEngine, Exit, driver
<1>4. CASE PrintModule \/ Invoke
  BY <1>4 DEF PrintModule, Invoke, Exit, driver
<1>5. CASE UNCHANGED vars
  BY <1>5 DEF vars
<1> QED
  BY <1>1, <1>2, <1>3, <1>4, <1>5 DEF Next, Main, RunJit, RunPipeline

\* In the driver and in a stage the options are those that parsed.
LEMMA InPipeline ==
  ASSUME TypeOK, PlanInv, pc \in {"driver", "stage", "invoke"}
  PROVE  /\ parsePipelineOptions /\ mode \in LoopMode /\ cli.stopAfter \in Stage
         /\ \A k \in 1..5 : PassesOfCall(k, mode, cli.stopAfter) \in Seq(Pass)
BY PassesType DEF PlanInv, parsePipelineOptions

LEMMA CallRange ==
  ASSUME PlanInv
  PROVE  /\ call \in 1..6 /\ (call <= 5 => call \in 1..5)
         /\ pc = "stage" => call \in 1..5
         /\ pc # "exit" => code = "none"
<1>1. call \in 1..6 /\ (pc = "stage" => call <= 5) /\ (pc # "exit" => code = "none")
  BY DEF PlanInv
<1> QED
  BY <1>1

LEMMA TodoStep == TypeOK /\ PlanInv /\ TodoInv /\ [Next]_vars => TodoInv'
<1> SUFFICES ASSUME TypeOK, PlanInv, TodoInv, [Next]_vars
             PROVE  TodoInv'
  OBVIOUS
<1>1. \A k : PassesOfCall(k, mode, cli.stopAfter)'
               = PassesOfCall(k, mode, cli.stopAfter)
  BY SameOptions
<1>2. todo \in Seq(Pass)
  BY DEF TypeOK
<1>3. CASE BeginStage
  <2>1. /\ call \in 1..5 /\ todo' = Scheduled /\ call' = call /\ pc' = "stage"
    BY <1>3, CallRange DEF BeginStage, Scheduled
  <2>2. Scheduled \in Seq(Pass) /\ Scheduled' = Scheduled
    BY <1>1, <1>3, <2>1, InPipeline DEF BeginStage, Scheduled
  <2>3. Len(todo') \in 0..Len(Scheduled)
    BY <2>1, <2>2
  <2>4. todo' = Suffix(Scheduled, Len(todo'))
    BY <2>1, <2>2, SuffixAll
  <2> QED
    BY <2>1, <2>2, <2>3, <2>4 DEF TodoInv
<1>4. CASE SkipStage \/ EndStage
  BY <1>2, <1>4 DEF SkipStage, EndStage, TodoInv
<1>5. CASE RunPass
  <2>1. /\ pc = "stage" /\ pc' = "stage" /\ todo # <<>> /\ todo' = Tail(todo)
        /\ call' = call /\ call \in 1..5
    BY <1>5 DEF RunPass, PlanInv
  <2>2. Scheduled \in Seq(Pass) /\ Scheduled' = Scheduled
    BY <1>1, <2>1, InPipeline DEF Scheduled
  <2>3. /\ Len(todo) \in 1..Len(Scheduled)
        /\ todo = Suffix(Scheduled, Len(todo))
    BY <1>2, <2>1, <2>2 DEF TodoInv
  <2>4. Tail(todo) = Suffix(Scheduled, Len(todo) - 1) /\ Len(Tail(todo)) = Len(todo) - 1
    BY <2>2, <2>3, SuffixStep
  <2>5. Len(todo') \in 0..Len(Scheduled) /\ todo' \in Seq(Pass)
    BY <1>2, <2>1, <2>2, <2>3, <2>4
  <2> QED
    BY <2>1, <2>2, <2>4, <2>5 DEF TodoInv
<1>6. CASE UNCHANGED <<call, todo>> /\ (pc' # "stage" \/ pc' = pc)
  BY <1>1, <1>6 DEF TodoInv, Scheduled
<1> QED
  BY <1>3, <1>4, <1>5, <1>6, StepShape

-----------------------------------------------------------------------------
(***************************************************************************)
(* What has run: the passes of the calls made, in the builder's order.     *)
(***************************************************************************)
Part(k) == IF runThroughStage(StageCalls(mode)[k], cli.stopAfter)
           THEN PassesOfCall(k, mode, cli.stopAfter) ELSE <<>>

Upto(k) ==
  CASE k = 0 -> <<>>
    [] k = 1 -> Part(1)
    [] k = 2 -> Part(1) \o Part(2)
    [] k = 3 -> Part(1) \o Part(2) \o Part(3)
    [] k = 4 -> Part(1) \o Part(2) \o Part(3) \o Part(4)
    [] k = 5 -> Part(1) \o Part(2) \o Part(3) \o Part(4) \o Part(5)

RanInv ==
  /\ pc \in {"main", "entry", "options"} => ran = <<>>
  /\ pc = "driver" => ran = Upto(call - 1)
  /\ pc = "stage" => ran \o todo = Upto(call)
  /\ pc = "invoke" \/ Succeeded => ran = Upto(5)

LEMMA UptoNext ==
  ASSUME mode \in LoopMode, cli.stopAfter \in Stage, NEW k \in 1..5
  PROVE  /\ Upto(k - 1) \in Seq(Pass)
         /\ Part(k) \in Seq(Pass)
         /\ Upto(k) = Upto(k - 1) \o Part(k)
<1>1. \A j \in 1..5 : Part(j) \in Seq(Pass)
  BY PassesType DEF Part
<1>2. \A s \in Seq(Pass) : <<>> \o s = s /\ <<>> \in Seq(Pass)
  OBVIOUS
<1>3. \A s, t \in Seq(Pass) : s \o t \in Seq(Pass)
  OBVIOUS
<1>4. CASE k = 1
  BY <1>1, <1>2, <1>4 DEF Upto
<1>5. CASE k = 2
  BY <1>1, <1>5 DEF Upto
<1>6. CASE k = 3
  BY <1>1, <1>3, <1>6 DEF Upto
<1>7. CASE k = 4
  BY <1>1, <1>3, <1>7 DEF Upto
<1>8. CASE k = 5
  BY <1>1, <1>3, <1>8 DEF Upto
<1> QED
  BY <1>4, <1>5, <1>6, <1>7, <1>8

LEMMA MoveHead ==
  ASSUME NEW S, NEW q \in Seq(S), NEW r \in Seq(S), q # <<>>
  PROVE  Append(r, Head(q)) \o Tail(q) = r \o q
OBVIOUS

LEMMA RanStep == TypeOK /\ PlanInv /\ RanInv /\ [Next]_vars => RanInv'
<1> SUFFICES ASSUME TypeOK, PlanInv, RanInv, [Next]_vars
             PROVE  RanInv'
  OBVIOUS
<1>1. \A k : Upto(k)' = Upto(k)
  BY SameOptions DEF Upto, Part
<1>2. CASE BeginStage
  <2>1. /\ pc = "driver" /\ pc' = "stage" /\ call \in 1..5 /\ call' = call
        /\ ran' = ran /\ todo' = Part(call) /\ code' = code /\ code = "none"
    BY <1>2, CallRange DEF BeginStage, Part
  <2>2. Upto(call) = Upto(call - 1) \o Part(call)
    BY <2>1, InPipeline, UptoNext
  <2> QED
    BY <1>1, <2>1, <2>2 DEF RanInv, Succeeded
<1>3. CASE SkipStage
  <2>1. /\ pc = "driver" /\ pc' = "driver" /\ call \in 1..5 /\ call' = call + 1
        /\ ran' = ran /\ Part(call) = <<>> /\ code' = code /\ code = "none"
    BY <1>3, CallRange DEF SkipStage, Part
  <2>2. /\ Upto(call) = Upto(call - 1) \o Part(call)
        /\ Upto(call - 1) \in Seq(Pass)
    BY <2>1, InPipeline, UptoNext
  <2>3. Upto(call) = Upto(call - 1) /\ (call + 1) - 1 = call
    BY <2>1, <2>2
  <2> QED
    BY <1>1, <2>1, <2>3 DEF RanInv, Succeeded
<1>4. CASE RunPass
  <2>1. /\ pc = "stage" /\ pc' = "stage" /\ call' = call /\ code' = code
        /\ code = "none" /\ ran' = Append(ran, Head(todo)) /\ todo' = Tail(todo)
        /\ todo # <<>> /\ todo \in Seq(Pass) /\ ran \in Seq(Pass)
    BY <1>4 DEF RunPass, TypeOK, PlanInv
  <2>2. ran' \o todo' = ran \o todo
    BY <2>1, MoveHead
  <2> QED
    BY <1>1, <2>1, <2>2 DEF RanInv, Succeeded
<1>5. CASE EndStage
  <2>1. /\ pc = "stage" /\ pc' = "driver" /\ call' = call + 1 /\ code' = code
        /\ code = "none" /\ ran' = ran /\ todo = <<>> /\ ran \in Seq(Pass)
        /\ call \in 1..5
    <3>1. ran \in Seq(Pass)
      BY DEF TypeOK
    <3> QED
      BY <1>5, <3>1, CallRange DEF EndStage
  <2>2. ran \o todo = ran /\ call' - 1 = call
    BY <2>1
  <2> QED
    BY <1>1, <2>1, <2>2 DEF RanInv, Succeeded
<1>6. CASE UNCHANGED <<call, ran, todo>>
           /\ \/ pc' = "exit" /\ code' \in {"1", "crash"}
              \/ pc' = "exit" /\ code' = "0" /\ cli.listPasses
              \/ pc' = "exit" /\ code' = "0" /\ pc = "driver" /\ call = 6
              \/ pc' = "exit" /\ code' = "0" /\ pc = "invoke"
              \/ pc' = pc /\ code' = code
              \/ pc = "main" /\ pc' \in {"entry", "options"} /\ code' = code
              \/ pc = "entry" /\ pc' = "options" /\ code' = code
              \/ pc = "options" /\ pc' = "driver" /\ code' = code
              \/ pc = "driver" /\ pc' = "invoke" /\ code' = code /\ call = 6
  <2>1. cli' = cli
    BY SameOptions
  <2>2. pc = "options" => call = 1 /\ Upto(call - 1) = <<>>
    BY DEF PlanInv, Upto
  <2>3. pc # "exit" => code = "none"
    BY DEF PlanInv
  <2> QED
    BY <1>1, <1>6, <2>1, <2>2, <2>3 DEF RanInv, Succeeded
<1> QED
  BY <1>2, <1>3, <1>4, <1>5, <1>6, StepShape

LEMMA RanHolds == Spec => [](TypeOK /\ PlanInv /\ TodoInv /\ RanInv)
<1>1. Init => TodoInv /\ RanInv
  BY DEF Init, TodoInv, RanInv, Succeeded
<1>2. Spec => []PlanInv
  BY PlanInit, PlanStep, PTL DEF Spec
<1> QED
  BY <1>1, <1>2, TypeCorrect, TodoStep, RanStep, PTL DEF Spec

(***************************************************************************)
(* Embedders that build the whole pipeline into one pass manager run the   *)
(* passes the staged driver runs, in the same order, in every loop mode    *)
(* and for every stop.                                                     *)
(***************************************************************************)
THEOREM BuilderHonest == Spec => []BuilderMatchesDriver
<1>1. PlanInv /\ RanInv => BuilderMatchesDriver
  <2> SUFFICES ASSUME PlanInv, RanInv, Succeeded
               PROVE  ran = buildAICompilerPipeline(mode, cli.stopAfter)
    BY DEF BuilderMatchesDriver
  <2>1. ran = Part(1) \o Part(2) \o Part(3) \o Part(4) \o Part(5)
    BY DEF RanInv, Upto
  <2>2. mode \in LoopMode /\ cli.stopAfter \in Stage
    BY DEF PlanInv, parsePipelineOptions
  <2>3. /\ StageCalls(mode)[1] = "Fusion" /\ StageCalls(mode)[2] = "Linalg"
        /\ StageCalls(mode)[3] = "Bufferize"
        /\ StageCalls(mode)[4] = loopModeStage(mode)
        /\ StageCalls(mode)[5] = "LLVM"
    BY DEF StageCalls
  <2>4. /\ PassesOfCall(1, mode, cli.stopAfter) = buildFusionStage
        /\ PassesOfCall(2, mode, cli.stopAfter)
             = buildStableHloToLinalgStage \o buildLinalgOptimizationStage
        /\ PassesOfCall(3, mode, cli.stopAfter) = buildBufferizationStage
        /\ PassesOfCall(4, mode, cli.stopAfter)
             = buildLoopModeStage(mode, cli.stopAfter)
        /\ PassesOfCall(5, mode, cli.stopAfter) = buildLLVMLoweringStage(mode)
    BY DEF PassesOfCall
  <2> QED
    BY <2>1, <2>3, <2>4 DEF Part, buildAICompilerPipeline
<1> QED
  BY <1>1, RanHolds, PTL

-----------------------------------------------------------------------------
(***************************************************************************)
(* The builders' sequences, written out.                                   *)
(***************************************************************************)
LEMMA LinalgPasses ==
  buildStableHloToLinalgStage \o buildLinalgOptimizationStage
    = <<"stablehlo-refine-shapes", "chlo-legalize-to-stablehlo",
        "stablehlo-legalize-to-linalg", "canonicalize", "cse",
        "linalg-fuse-elementwise-ops", "linalg-fold-unit-extent-dims",
        "custom-linalg-opt", "canonicalize", "cse", "custom-linalg-tile">>
<1> DEFINE s == buildStableHloToLinalgStage \o buildLinalgOptimizationStage
<1>1. /\ Len(s) = 11
      /\ s[1] = "stablehlo-refine-shapes"
      /\ s[2] = "chlo-legalize-to-stablehlo"
      /\ s[3] = "stablehlo-legalize-to-linalg" /\ s[4] = "canonicalize"
      /\ s[5] = "cse" /\ s[6] = "linalg-fuse-elementwise-ops"
      /\ s[7] = "linalg-fold-unit-extent-dims"
      /\ s[8] = "custom-linalg-opt" /\ s[9] = "canonicalize"
      /\ s[10] = "cse" /\ s[11] = "custom-linalg-tile"
  BY DEF buildStableHloToLinalgStage, buildLinalgOptimizationStage
<1>2. s \in Seq(Pass)
  BY FixedBuilders
<1> HIDE DEF s
<1>3. s = <<"stablehlo-refine-shapes", "chlo-legalize-to-stablehlo",
          "stablehlo-legalize-to-linalg", "canonicalize", "cse",
          "linalg-fuse-elementwise-ops", "linalg-fold-unit-extent-dims",
          "custom-linalg-opt", "canonicalize", "cse", "custom-linalg-tile">>
  BY <1>1, <1>2
<1> QED
  BY <1>3 DEF s

LEMMA AffinePasses ==
  buildAffineStage(FALSE)
    = <<"convert-bufferization-to-memref", "convert-linalg-to-affine-loops",
        "custom-affine-opt", "lower-affine", "convert-scf-to-cf">>
<1> DEFINE s == buildAffineStage(FALSE)
<1>1. /\ Len(s) = 5
      /\ s[1] = "convert-bufferization-to-memref"
      /\ s[2] = "convert-linalg-to-affine-loops"
      /\ s[3] = "custom-affine-opt" /\ s[4] = "lower-affine"
      /\ s[5] = "convert-scf-to-cf"
  BY DEF buildAffineStage
<1>2. s \in Seq(Pass)
  BY AffineBuilder
<1> HIDE DEF s
<1>3. s = <<"convert-bufferization-to-memref", "convert-linalg-to-affine-loops",
          "custom-affine-opt", "lower-affine", "convert-scf-to-cf">>
  BY <1>1, <1>2
<1> QED
  BY <1>3 DEF s

LEMMA AffineStopPasses ==
  buildAffineStage(TRUE)
    = <<"convert-bufferization-to-memref", "convert-linalg-to-affine-loops",
        "custom-affine-opt">>
<1> DEFINE s == buildAffineStage(TRUE)
<1>1. /\ Len(s) = 3
      /\ s[1] = "convert-bufferization-to-memref"
      /\ s[2] = "convert-linalg-to-affine-loops"
      /\ s[3] = "custom-affine-opt"
  BY DEF buildAffineStage
<1>2. s \in Seq(Pass)
  BY AffineBuilder
<1> HIDE DEF s
<1>3. s = <<"convert-bufferization-to-memref", "convert-linalg-to-affine-loops",
          "custom-affine-opt">>
  BY <1>1, <1>2
<1> QED
  BY <1>3 DEF s

LEMMA VectorPasses ==
  buildVectorDialectStage(FALSE)
    = <<"convert-bufferization-to-memref", "convert-linalg-to-affine-loops",
        "affine-super-vectorize", "custom-vector-opt", "lower-affine",
        "convert-scf-to-cf">>
<1> DEFINE s == buildVectorDialectStage(FALSE)
<1>1. /\ Len(s) = 6
      /\ s[1] = "convert-bufferization-to-memref"
      /\ s[2] = "convert-linalg-to-affine-loops"
      /\ s[3] = "affine-super-vectorize" /\ s[4] = "custom-vector-opt"
      /\ s[5] = "lower-affine" /\ s[6] = "convert-scf-to-cf"
  BY DEF buildVectorDialectStage
<1>2. s \in Seq(Pass)
  BY VectorBuilder
<1> HIDE DEF s
<1>3. s = <<"convert-bufferization-to-memref", "convert-linalg-to-affine-loops",
          "affine-super-vectorize", "custom-vector-opt", "lower-affine",
          "convert-scf-to-cf">>
  BY <1>1, <1>2
<1> QED
  BY <1>3 DEF s

LEMMA VectorStopPasses ==
  buildVectorDialectStage(TRUE)
    = <<"convert-bufferization-to-memref", "convert-linalg-to-affine-loops",
        "affine-super-vectorize", "custom-vector-opt">>
<1> DEFINE s == buildVectorDialectStage(TRUE)
<1>1. /\ Len(s) = 4
      /\ s[1] = "convert-bufferization-to-memref"
      /\ s[2] = "convert-linalg-to-affine-loops"
      /\ s[3] = "affine-super-vectorize" /\ s[4] = "custom-vector-opt"
  BY DEF buildVectorDialectStage
<1>2. s \in Seq(Pass)
  BY VectorBuilder
<1> HIDE DEF s
<1>3. s = <<"convert-bufferization-to-memref", "convert-linalg-to-affine-loops",
          "affine-super-vectorize", "custom-vector-opt">>
  BY <1>1, <1>2
<1> QED
  BY <1>3 DEF s

LEMMA LLVMVectorPasses ==
  buildLLVMLoweringStage("Vector")
    = <<"expand-strided-metadata", "lower-affine", "convert-arith-to-llvm",
        "convert-cf-to-llvm", "convert-func-to-llvm", "convert-index-to-llvm",
        "convert-math-to-llvm", "convert-vector-to-llvm",
        "finalize-memref-to-llvm", "reconcile-unrealized-casts",
        "custom-llvm-cleanup">>
<1> DEFINE s == buildLLVMLoweringStage("Vector")
<1>1. /\ Len(s) = 11
      /\ s[1] = "expand-strided-metadata" /\ s[2] = "lower-affine"
      /\ s[3] = "convert-arith-to-llvm" /\ s[4] = "convert-cf-to-llvm"
      /\ s[5] = "convert-func-to-llvm" /\ s[6] = "convert-index-to-llvm"
      /\ s[7] = "convert-math-to-llvm" /\ s[8] = "convert-vector-to-llvm"
      /\ s[9] = "finalize-memref-to-llvm"
      /\ s[10] = "reconcile-unrealized-casts"
      /\ s[11] = "custom-llvm-cleanup"
  BY DEF buildLLVMLoweringStage
<1>2. s \in Seq(Pass)
  BY LLVMBuilder DEF LoopMode
<1> HIDE DEF s
<1>3. s = <<"expand-strided-metadata", "lower-affine", "convert-arith-to-llvm",
          "convert-cf-to-llvm", "convert-func-to-llvm",
          "convert-index-to-llvm", "convert-math-to-llvm",
          "convert-vector-to-llvm", "finalize-memref-to-llvm",
          "reconcile-unrealized-casts", "custom-llvm-cleanup">>
  BY <1>1, <1>2
<1> QED
  BY <1>3 DEF s

LEMMA LLVMScalarPasses ==
  ASSUME NEW m \in LoopMode \ {"Vector"}
  PROVE  buildLLVMLoweringStage(m)
         = <<"expand-strided-metadata", "lower-affine", "convert-arith-to-llvm",
        "convert-cf-to-llvm", "convert-func-to-llvm", "convert-index-to-llvm",
        "convert-math-to-llvm", "finalize-memref-to-llvm",
        "reconcile-unrealized-casts", "custom-llvm-cleanup">>
<1> DEFINE s == buildLLVMLoweringStage(m)
<1>1. /\ Len(s) = 10
      /\ s[1] = "expand-strided-metadata" /\ s[2] = "lower-affine"
      /\ s[3] = "convert-arith-to-llvm" /\ s[4] = "convert-cf-to-llvm"
      /\ s[5] = "convert-func-to-llvm" /\ s[6] = "convert-index-to-llvm"
      /\ s[7] = "convert-math-to-llvm" /\ s[8] = "finalize-memref-to-llvm"
      /\ s[9] = "reconcile-unrealized-casts"
      /\ s[10] = "custom-llvm-cleanup"
  BY DEF buildLLVMLoweringStage
<1>2. s \in Seq(Pass)
  BY LLVMBuilder
<1> HIDE DEF s
<1>3. s = <<"expand-strided-metadata", "lower-affine", "convert-arith-to-llvm",
          "convert-cf-to-llvm", "convert-func-to-llvm",
          "convert-index-to-llvm", "convert-math-to-llvm",
          "finalize-memref-to-llvm", "reconcile-unrealized-casts",
          "custom-llvm-cleanup">>
  BY <1>1, <1>2
<1> QED
  BY <1>3 DEF s

-----------------------------------------------------------------------------
(***************************************************************************)
(* The printed list: a listed pass is scheduled by the call whose stage is *)
(* printed beside it, and by no other.                                     *)
(***************************************************************************)
LEMMA UpTo28 ==
  \A i \in 1..28 :
    \/ i = 1 \/ i = 2 \/ i = 3 \/ i = 4 \/ i = 5 \/ i = 6 \/ i = 7
    \/ i = 8 \/ i = 9 \/ i = 10 \/ i = 11 \/ i = 12 \/ i = 13 \/ i = 14
    \/ i = 15 \/ i = 16 \/ i = 17 \/ i = 18 \/ i = 19 \/ i = 20 \/ i = 21
    \/ i = 22 \/ i = 23 \/ i = 24 \/ i = 25 \/ i = 26 \/ i = 27 \/ i = 28
OBVIOUS

LEMMA ListedStages ==
  /\ \A i \in 1..20 : kStages[i] = "fusion"
  /\ kStages[21] = "linalg" /\ kStages[22] = "linalg"
  /\ kStages[23] = "bufferize" /\ kStages[24] = "loops/scf-seq"
  /\ kStages[25] = "loops/scf-par" /\ kStages[26] = "affine"
  /\ kStages[27] = "vector" /\ kStages[28] = "llvm"
BY DEF kStages

LEMMA ListedPasses ==
  /\ DOMAIN kPasses = 1..28
  /\ \A i \in 1..20 : kPasses[i] = buildFusionStage[i]
  /\ kPasses[21] = "custom-linalg-opt" /\ kPasses[22] = "custom-linalg-tile"
  /\ kPasses[23] = "custom-buffer-opt" /\ kPasses[24] = "custom-loop-tiling"
  /\ kPasses[25] = "custom-linalg-to-parallel-loops"
  /\ kPasses[26] = "custom-affine-opt" /\ kPasses[27] = "custom-vector-opt"
  /\ kPasses[28] = "custom-llvm-cleanup"
<1>1. \A i \in 1..20 : kPasses[i] = buildFusionStage[i]
  BY UpTo28 DEF kPasses, buildFusionStage
<1> QED
  BY <1>1 DEF kPasses

LEMMA FusionElements ==
  /\ Elements(buildFusionStage) = {kPasses[i] : i \in 1..20}
  /\ \A i \in 21..28 : kPasses[i] \notin Elements(buildFusionStage)
<1>1. Elements(buildFusionStage) = {kPasses[i] : i \in 1..20}
  <2>1. Len(buildFusionStage) = 20
    BY DEF buildFusionStage
  <2> QED
    BY <2>1, ListedPasses DEF Elements
<1>2. \A i \in 1..20, j \in 21..28 : kPasses[i] # kPasses[j]
  <2>1. \A i \in 1..20 :
          kPasses[i] \notin {"custom-linalg-opt", "custom-linalg-tile",
                             "custom-buffer-opt", "custom-loop-tiling",
                             "custom-linalg-to-parallel-loops",
                             "custom-affine-opt", "custom-vector-opt",
                             "custom-llvm-cleanup"}
    BY UpTo28 DEF kPasses
  <2> QED
    BY <2>1, UpTo28, ListedPasses
<1> QED
  BY <1>1, <1>2

\* No builder after the first schedules a pass of the fusion stage.
LEMMA FusionOnly ==
  ASSUME NEW i \in 1..20
  PROVE  kPasses[i] \notin
           {"stablehlo-refine-shapes", "chlo-legalize-to-stablehlo",
            "stablehlo-legalize-to-linalg", "canonicalize", "cse",
            "linalg-fuse-elementwise-ops", "linalg-fold-unit-extent-dims",
            "custom-linalg-opt", "custom-linalg-tile", "one-shot-bufferize",
            "buffer-deallocation-pipeline", "custom-buffer-opt",
            "convert-bufferization-to-memref", "convert-linalg-to-loops",
            "custom-loop-tiling", "convert-scf-to-cf",
            "custom-linalg-to-parallel-loops",
            "convert-linalg-to-parallel-loops",
            "convert-linalg-to-affine-loops", "custom-affine-opt",
            "lower-affine", "affine-super-vectorize", "custom-vector-opt",
            "expand-strided-metadata", "convert-arith-to-llvm",
            "convert-cf-to-llvm", "convert-func-to-llvm",
            "convert-index-to-llvm", "convert-math-to-llvm",
            "convert-vector-to-llvm", "finalize-memref-to-llvm",
            "reconcile-unrealized-casts", "custom-llvm-cleanup"}
BY UpTo28 DEF kPasses

\* What the later calls schedule, as sets.
LEMMA LinalgElements ==
  Elements(buildStableHloToLinalgStage \o buildLinalgOptimizationStage)
    = {"stablehlo-refine-shapes", "chlo-legalize-to-stablehlo",
       "stablehlo-legalize-to-linalg", "canonicalize", "cse",
       "linalg-fuse-elementwise-ops", "linalg-fold-unit-extent-dims",
       "custom-linalg-opt", "custom-linalg-tile"}
BY LinalgPasses DEF Elements

LEMMA BufferElements ==
  Elements(buildBufferizationStage)
    = {"one-shot-bufferize", "buffer-deallocation-pipeline",
       "custom-buffer-opt", "canonicalize", "cse"}
BY DEF Elements, buildBufferizationStage

LEMMA LoopElements ==
  /\ Elements(buildLowerToLoopsStage)
       = {"convert-bufferization-to-memref", "convert-linalg-to-loops",
          "custom-loop-tiling", "convert-scf-to-cf"}
  /\ Elements(buildVectorizationStage)
       = {"convert-bufferization-to-memref", "custom-linalg-to-parallel-loops",
          "convert-linalg-to-parallel-loops", "convert-scf-to-cf"}
BY DEF Elements, buildLowerToLoopsStage, buildVectorizationStage

LEMMA AffineElements ==
  /\ Elements(buildAffineStage(TRUE))
       = {"convert-bufferization-to-memref", "convert-linalg-to-affine-loops",
          "custom-affine-opt"}
  /\ Elements(buildAffineStage(FALSE))
       = {"convert-bufferization-to-memref", "convert-linalg-to-affine-loops",
          "custom-affine-opt", "lower-affine", "convert-scf-to-cf"}
<1>1. Elements(<<"convert-bufferization-to-memref",
                 "convert-linalg-to-affine-loops", "custom-affine-opt">>)
        = {"convert-bufferization-to-memref", "convert-linalg-to-affine-loops",
           "custom-affine-opt"}
  BY DEF Elements
<1>2. Elements(<<"convert-bufferization-to-memref",
                 "convert-linalg-to-affine-loops", "custom-affine-opt",
                 "lower-affine", "convert-scf-to-cf">>)
        = {"convert-bufferization-to-memref", "convert-linalg-to-affine-loops",
           "custom-affine-opt", "lower-affine", "convert-scf-to-cf"}
  BY DEF Elements
<1> QED
  BY <1>1, <1>2, AffinePasses, AffineStopPasses

LEMMA VectorElements ==
  /\ Elements(buildVectorDialectStage(TRUE))
       = {"convert-bufferization-to-memref", "convert-linalg-to-affine-loops",
          "affine-super-vectorize", "custom-vector-opt"}
  /\ Elements(buildVectorDialectStage(FALSE))
       = {"convert-bufferization-to-memref", "convert-linalg-to-affine-loops",
          "affine-super-vectorize", "custom-vector-opt", "lower-affine",
          "convert-scf-to-cf"}
<1>1. Elements(<<"convert-bufferization-to-memref",
                 "convert-linalg-to-affine-loops", "affine-super-vectorize",
                 "custom-vector-opt">>)
        = {"convert-bufferization-to-memref", "convert-linalg-to-affine-loops",
           "affine-super-vectorize", "custom-vector-opt"}
  BY DEF Elements
<1>2. Elements(<<"convert-bufferization-to-memref",
                 "convert-linalg-to-affine-loops", "affine-super-vectorize",
                 "custom-vector-opt", "lower-affine", "convert-scf-to-cf">>)
        = {"convert-bufferization-to-memref", "convert-linalg-to-affine-loops",
           "affine-super-vectorize", "custom-vector-opt", "lower-affine",
           "convert-scf-to-cf"}
  BY DEF Elements
<1> QED
  BY <1>1, <1>2, VectorPasses, VectorStopPasses

LEMMA LLVMElements ==
  ASSUME NEW m \in LoopMode
  PROVE  Elements(buildLLVMLoweringStage(m))
           = {"expand-strided-metadata", "lower-affine",
              "convert-arith-to-llvm", "convert-cf-to-llvm",
              "convert-func-to-llvm", "convert-index-to-llvm",
              "convert-math-to-llvm", "finalize-memref-to-llvm",
              "reconcile-unrealized-casts", "custom-llvm-cleanup"}
             \cup (IF m = "Vector" THEN {"convert-vector-to-llvm"} ELSE {})
<1>1. CASE m = "Vector"
  BY <1>1, LLVMVectorPasses DEF Elements
<1>2. CASE m # "Vector"
  BY <1>2, LLVMScalarPasses DEF Elements
<1> QED
  BY <1>1, <1>2

\* A listed pass is scheduled by the call whose stage is printed beside it.
LEMMA Listed ==
  ASSUME mode \in LoopMode, cli.stopAfter \in Stage,
         validatePipelineOptions(cli.stopAfter, mode),
         NEW i \in 1..28, NEW k \in 1..5
  PROVE  kPasses[i] \in Elements(PassesOfCall(k, mode, cli.stopAfter))
           <=> kStages[i] = PrintedAs(StageCalls(mode)[k])
<1>1. CASE k = 1
  <2>1. PassesOfCall(k, mode, cli.stopAfter) = buildFusionStage
    BY <1>1 DEF PassesOfCall
  <2>2. PrintedAs(StageCalls(mode)[k]) = "fusion"
    BY <1>1 DEF PrintedAs, StageCalls
  <2>3. i \in 1..20 \/ i \in 21..28
    OBVIOUS
  <2>4. i \in 21..28 => kStages[i] # "fusion"
    BY ListedStages, UpTo28
  <2> QED
    BY <2>1, <2>2, <2>3, <2>4, FusionElements, ListedStages
<1> DEFINE call4 == Elements(PassesOfCall(4, mode, cli.stopAfter))
<1>2. /\ mode = "ScfSeq" => call4 = Elements(buildLowerToLoopsStage)
      /\ mode = "ScfPar" => call4 = Elements(buildVectorizationStage)
      /\ mode = "Affine" => \/ call4 = Elements(buildAffineStage(TRUE))
                           \/ call4 = Elements(buildAffineStage(FALSE))
      /\ mode = "Vector" => \/ call4 = Elements(buildVectorDialectStage(TRUE))
                           \/ call4 = Elements(buildVectorDialectStage(FALSE))
  <2>1. PassesOfCall(4, mode, cli.stopAfter) = buildLoopModeStage(mode, cli.stopAfter)
    BY DEF PassesOfCall
  <2>2. (cli.stopAfter = "Affine") \in BOOLEAN /\ (cli.stopAfter = "Vector") \in BOOLEAN
    OBVIOUS
  <2>3. CASE mode \in {"ScfSeq", "ScfPar"}
    BY <2>1, <2>3 DEF buildLoopModeStage
  <2>4. CASE mode = "Affine"
    <3>1. buildLoopModeStage(mode, cli.stopAfter)
            = buildAffineStage(cli.stopAfter = "Affine")
      BY <2>4 DEF buildLoopModeStage
    <3>2. \A b \in BOOLEAN : b = TRUE \/ b = FALSE
      OBVIOUS
    <3> QED
      BY <2>1, <2>2, <2>4, <3>1, <3>2
  <2>5. CASE mode = "Vector"
    <3>1. buildLoopModeStage(mode, cli.stopAfter)
            = buildVectorDialectStage(cli.stopAfter = "Vector")
      BY <2>5 DEF buildLoopModeStage
    <3>2. \A b \in BOOLEAN : b = TRUE \/ b = FALSE
      OBVIOUS
    <3> QED
      BY <2>1, <2>2, <2>5, <3>1, <3>2
  <2> QED
    BY <2>3, <2>4, <2>5 DEF LoopMode
<1>3. /\ Elements(PassesOfCall(2, mode, cli.stopAfter))
           = Elements(buildStableHloToLinalgStage \o buildLinalgOptimizationStage)
      /\ Elements(PassesOfCall(3, mode, cli.stopAfter))
           = Elements(buildBufferizationStage)
      /\ Elements(PassesOfCall(5, mode, cli.stopAfter))
           = Elements(buildLLVMLoweringStage(mode))
  BY DEF PassesOfCall
<1>4. /\ PrintedAs(StageCalls(mode)[2]) = "linalg"
      /\ PrintedAs(StageCalls(mode)[3]) = "bufferize"
      /\ PrintedAs(StageCalls(mode)[5]) = "llvm"
  BY DEF PrintedAs, StageCalls
<1>5. /\ mode = "ScfSeq" => PrintedAs(StageCalls(mode)[4]) = "loops/scf-seq"
      /\ mode = "ScfPar" => PrintedAs(StageCalls(mode)[4]) = "loops/scf-par"
      /\ mode = "Affine" => PrintedAs(StageCalls(mode)[4]) = "affine"
      /\ mode = "Vector" => PrintedAs(StageCalls(mode)[4]) = "vector"
  BY DEF PrintedAs, StageCalls, loopModeStage
<1> HIDE DEF call4
<1>6. CASE i \in 1..20 /\ k # 1
  <2>1. kStages[i] = "fusion"
    BY <1>6, ListedStages
  <2>2. CASE k = 2
    BY <1>3, <1>4, <1>6, <2>1, <2>2, FusionOnly, LinalgElements
  <2>3. CASE k = 3
    BY <1>3, <1>4, <1>6, <2>1, <2>3, FusionOnly, BufferElements
  <2>4. CASE k = 4
    <3>1. kPasses[i] \notin call4
      <4>1. CASE mode \in {"ScfSeq", "ScfPar"}
        BY <1>2, <1>6, <4>1, FusionOnly, LoopElements
      <4>2. CASE mode = "Affine"
        BY <1>2, <1>6, <4>2, FusionOnly, AffineElements
      <4>3. CASE mode = "Vector"
        BY <1>2, <1>6, <4>3, FusionOnly, VectorElements
      <4> QED
        BY <4>1, <4>2, <4>3 DEF LoopMode
    <3>2. PrintedAs(StageCalls(mode)[4]) # "fusion"
      BY <1>5 DEF LoopMode
    <3> QED
      BY <2>1, <2>4, <3>1, <3>2 DEF call4
  <2>5. CASE k = 5
    BY <1>3, <1>4, <1>6, <2>1, <2>5, FusionOnly, LLVMElements
  <2> QED
    BY <1>6, <2>2, <2>3, <2>4, <2>5
<1>7. CASE i \in 21..28 /\ k # 1
  <2>0. i = 21 \/ i = 22 \/ i = 23 \/ i = 24 \/ i = 25 \/ i = 26 \/ i = 27 \/ i = 28
    BY <1>7
  <2>2. CASE k = 2
    BY <1>3, <1>4, <2>0, <2>2, ListedPasses, ListedStages, LinalgElements
  <2>3. CASE k = 3
    BY <1>3, <1>4, <2>0, <2>3, ListedPasses, ListedStages, BufferElements
  <2>4. CASE k = 4
    <3>1. CASE mode = "ScfSeq"
      BY <1>2, <1>5, <2>0, <2>4, <3>1, ListedPasses, ListedStages, LoopElements
      DEF call4
    <3>2. CASE mode = "ScfPar"
      BY <1>2, <1>5, <2>0, <2>4, <3>2, ListedPasses, ListedStages, LoopElements
      DEF call4
    <3>3. CASE mode = "Affine"
      <4>1. /\ "custom-affine-opt" \in call4
            /\ \A p \in {"custom-linalg-opt", "custom-linalg-tile", "custom-buffer-opt",
                   "custom-loop-tiling", "custom-linalg-to-parallel-loops",
                   "custom-vector-opt", "custom-llvm-cleanup"} :
                 p \notin call4
        BY <1>2, <3>3, AffineElements
      <4> QED
        BY <1>5, <2>0, <2>4, <3>3, <4>1, ListedPasses, ListedStages DEF call4
    <3>4. CASE mode = "Vector"
      <4>1. /\ "custom-vector-opt" \in call4
            /\ \A p \in {"custom-linalg-opt", "custom-linalg-tile", "custom-buffer-opt",
                   "custom-loop-tiling", "custom-linalg-to-parallel-loops",
                   "custom-affine-opt", "custom-llvm-cleanup"} :
                 p \notin call4
        BY <1>2, <3>4, VectorElements
      <4> QED
        BY <1>5, <2>0, <2>4, <3>4, <4>1, ListedPasses, ListedStages DEF call4
    <3> QED
      BY <3>1, <3>2, <3>3, <3>4 DEF LoopMode
  <2>5. CASE k = 5
    BY <1>3, <1>4, <2>0, <2>5, ListedPasses, ListedStages, LLVMElements
  <2> QED
    BY <1>7, <2>2, <2>3, <2>4, <2>5
<1> QED
  BY <1>1, <1>6, <1>7

\* The passes of the whole run are those of the calls within the plan.
LEMMA UptoElements ==
  ASSUME mode \in LoopMode, cli.stopAfter \in Stage,
         validatePipelineOptions(cli.stopAfter, mode)
  PROVE  Elements(Upto(5))
           = UNION {Elements(PassesOfCall(k, mode, cli.stopAfter)) :
                      k \in 1..PlanLength(cli.stopAfter)}
<1>1. \A k \in 1..5 : /\ Part(k) \in Seq(Pass) /\ Upto(k - 1) \in Seq(Pass)
                      /\ Upto(k) = Upto(k - 1) \o Part(k)
  BY UptoNext
<1>2. \A k \in 1..5 : Elements(Upto(k)) = Elements(Upto(k - 1)) \cup Elements(Part(k))
  <2> TAKE k \in 1..5
  <2> DEFINE s == Upto(k - 1)
             t == Part(k)
  <2>0. s \in Seq(Pass) /\ t \in Seq(Pass) /\ Upto(k) = s \o t
    BY <1>1
  <2> HIDE DEF s, t
  <2>2. Elements(s \o t) = Elements(s) \cup Elements(t)
    BY <2>0, ElementsConcat
  <2>1. Elements(Upto(k)) = Elements(Upto(k - 1)) \cup Elements(Part(k))
    BY <2>0, <2>2 DEF s, t
  <2> QED
    BY <1>1, <2>1
<1>3. Elements(Upto(0)) = {}
  BY DEF Upto, Elements
<1>4. Elements(Upto(5))
        = Elements(Part(1)) \cup Elements(Part(2)) \cup Elements(Part(3))
          \cup Elements(Part(4)) \cup Elements(Part(5))
  <2>1. /\ Elements(Upto(1)) = Elements(Upto(0)) \cup Elements(Part(1))
        /\ Elements(Upto(2)) = Elements(Upto(1)) \cup Elements(Part(2))
        /\ Elements(Upto(3)) = Elements(Upto(2)) \cup Elements(Part(3))
        /\ Elements(Upto(4)) = Elements(Upto(3)) \cup Elements(Part(4))
        /\ Elements(Upto(5)) = Elements(Upto(4)) \cup Elements(Part(5))
    <3>1. /\ 1 - 1 = 0 /\ 2 - 1 = 1 /\ 3 - 1 = 2 /\ 4 - 1 = 3 /\ 5 - 1 = 4
          /\ 1 \in 1..5 /\ 2 \in 1..5 /\ 3 \in 1..5 /\ 4 \in 1..5 /\ 5 \in 1..5
      OBVIOUS
    <3> QED
      BY <1>2, <3>1
  <2> QED
    BY <2>1, <1>3
<1>5. \A k \in 1..5 :
        Elements(Part(k)) = IF k <= PlanLength(cli.stopAfter)
                            THEN Elements(PassesOfCall(k, mode, cli.stopAfter))
                            ELSE {}
  <2>1. Elements(<<>>) = {}
    BY DEF Elements
  <2> QED
    BY <2>1, RunThroughPlan DEF Part
<1>6. PlanLength(cli.stopAfter) \in 1..5
  BY RunThroughPlan
<1> QED
  <2>1. \A k \in 1..5 : k = 1 \/ k = 2 \/ k = 3 \/ k = 4 \/ k = 5
    OBVIOUS
  <2>2. \A x : x \in Elements(Upto(5)) <=> \E k \in 1..5 : x \in Elements(Part(k))
    BY <1>4, <2>1
  <2>3. \A k \in 1..PlanLength(cli.stopAfter) : k \in 1..5
                                              /\ k <= PlanLength(cli.stopAfter)
    BY <1>6
  <2>4. \A k \in 1..5 : k <= PlanLength(cli.stopAfter)
                        => k \in 1..PlanLength(cli.stopAfter)
    BY <1>6
  <2> QED
    BY <1>5, <2>2, <2>3, <2>4

(***************************************************************************)
(* --list-passes tells the truth, in every loop mode and for every stop: a *)
(* pass of the list runs exactly when the stage printed beside it does,    *)
(* and a run down to LLVM goes through every pass printed for its mode.    *)
(***************************************************************************)
THEOREM ListHonest == Spec => []ListTellsRuns
<1>1. PlanInv /\ RanInv => ListTellsRuns
  <2> SUFFICES ASSUME PlanInv, RanInv, Succeeded
               PROVE  /\ \A i \in DOMAIN kPasses :
                           kPasses[i] \in Elements(ran)
                             <=> kStages[i] \in {PrintedAs(stage) :
                                                   stage \in Elements(done)}
                      /\ "LLVM" \in Elements(done)
                           => LoopModePath(mode) \subseteq Elements(ran)
    BY DEF ListTellsRuns
  <2> DEFINE n == PlanLength(cli.stopAfter)
  <2>1. /\ mode \in LoopMode /\ cli.stopAfter \in Stage
        /\ validatePipelineOptions(cli.stopAfter, mode)
    BY DEF PlanInv, parsePipelineOptions
  <2>2. n \in 1..5
    BY <2>1, RunThroughPlan
  <2>3. Elements(ran) = UNION {Elements(PassesOfCall(k, mode, cli.stopAfter)) :
                                 k \in 1..n}
    BY <2>1, UptoElements DEF RanInv
  <2>4. done = [k \in 1..n |-> StageCalls(mode)[k]]
    BY <2>2 DEF PlanInv
  <2> HIDE DEF n
  <2>5. Elements(done) = {StageCalls(mode)[k] : k \in 1..n}
    BY <2>2, <2>4 DEF Elements
  <2>6. \A k \in 1..n : k \in 1..5
    BY <2>2
  <2>7. ASSUME NEW i \in DOMAIN kPasses
        PROVE  kPasses[i] \in Elements(ran)
                 <=> kStages[i] \in {PrintedAs(stage) : stage \in Elements(done)}
    <3>1. i \in 1..28
      BY ListedPasses
    <3>2. kPasses[i] \in Elements(ran)
            <=> \E k \in 1..n : kPasses[i] \in
                                 Elements(PassesOfCall(k, mode, cli.stopAfter))
      BY <2>3
    <3>3. kStages[i] \in {PrintedAs(stage) : stage \in Elements(done)}
            <=> \E k \in 1..n : kStages[i] = PrintedAs(StageCalls(mode)[k])
      BY <2>5
    <3>4. \A k \in 1..n :
            kPasses[i] \in Elements(PassesOfCall(k, mode, cli.stopAfter))
              <=> kStages[i] = PrintedAs(StageCalls(mode)[k])
      BY <2>1, <2>6, <3>1, Listed
    <3> QED
      BY <3>2, <3>3, <3>4
  <2>8. ASSUME "LLVM" \in Elements(done)
        PROVE  LoopModePath(mode) \subseteq Elements(ran)
    <3>1. n = 5
      <4>1. PICK k \in 1..n : StageCalls(mode)[k] = "LLVM"
        BY <2>5, <2>8
      <4>2. k \in 1..5 /\ StageCalls(mode)[k] = "LLVM" => k = 5
        BY <2>1 DEF StageCalls, loopModeStage, LoopMode
      <4> QED
        BY <2>2, <2>6, <4>1, <4>2
    <3>2. cli.stopAfter \in {"LLVM", "All"}
      BY <2>1, <3>1 DEF n, PlanLength, Stage
    <3>3. /\ Elements(PassesOfCall(4, mode, cli.stopAfter)) \subseteq Elements(ran)
          /\ Elements(PassesOfCall(5, mode, cli.stopAfter)) \subseteq Elements(ran)
      BY <2>3, <3>1
    <3>4. /\ PassesOfCall(4, mode, cli.stopAfter)
               = buildLoopModeStage(mode, cli.stopAfter)
          /\ PassesOfCall(5, mode, cli.stopAfter) = buildLLVMLoweringStage(mode)
      BY DEF PassesOfCall
    <3>5. CASE mode = "ScfSeq"
      BY <3>3, <3>4, <3>5, LoopElements DEF buildLoopModeStage, LoopModePath
    <3>6. CASE mode = "ScfPar"
      BY <3>3, <3>4, <3>6, LoopElements DEF buildLoopModeStage, LoopModePath
    <3>7. CASE mode = "Affine"
      <4>1. buildLoopModeStage(mode, cli.stopAfter) = buildAffineStage(FALSE)
        BY <3>2, <3>7 DEF buildLoopModeStage
      <4> QED
        BY <3>3, <3>4, <3>7, <4>1, AffineElements DEF LoopModePath
    <3>8. CASE mode = "Vector"
      <4>1. buildLoopModeStage(mode, cli.stopAfter) = buildVectorDialectStage(FALSE)
        BY <3>2, <3>8 DEF buildLoopModeStage
      <4>2. "convert-vector-to-llvm" \in Elements(buildLLVMLoweringStage(mode))
        BY <2>1, <3>8, LLVMElements
      <4> QED
        BY <3>3, <3>4, <3>8, <4>1, <4>2, VectorElements DEF LoopModePath
    <3> QED
      BY <2>1, <3>5, <3>6, <3>7, <3>8 DEF LoopMode
  <2> QED
    BY <2>7, <2>8
<1> QED
  BY <1>1, RanHolds, PTL

-----------------------------------------------------------------------------
(***************************************************************************)
(* The pass at the head of a stage is one its builder schedules, and the   *)
(* first four calls convert neither functions nor, when the run stops      *)
(* there, the dialect asked for.                                           *)
(***************************************************************************)
LEMMA HeadScheduled ==
  ASSUME TypeOK, PlanInv, TodoInv, pc = "stage", todo # <<>>
  PROVE  /\ call \in 1..5 /\ parsePipelineOptions
         /\ mode \in LoopMode /\ cli.stopAfter \in Stage
         /\ runThroughStage(StageCalls(mode)[call], cli.stopAfter)
         /\ Head(todo) \in Elements(Scheduled)
<1>1. call \in 1..5
  BY CallRange
<1>2. /\ parsePipelineOptions /\ mode \in LoopMode /\ cli.stopAfter \in Stage
      /\ Scheduled \in Seq(Pass)
  BY <1>1, InPipeline DEF Scheduled
<1>3. runThroughStage(StageCalls(mode)[call], cli.stopAfter)
  BY DEF PlanInv
<1>4. /\ Len(todo) \in 1..Len(Scheduled)
      /\ todo = Suffix(Scheduled, Len(todo))
  <2>1. todo \in Seq(Pass) /\ Len(todo) \in 0..Len(Scheduled)
        /\ todo = Suffix(Scheduled, Len(todo))
    BY DEF TodoInv
  <2>2. Len(todo) \in Nat /\ Len(todo) # 0 /\ Len(Scheduled) \in Nat
    BY <1>2, <2>1
  <2> QED
    BY <2>1, <2>2
<1>5. Head(todo) = Scheduled[Len(Scheduled) - Len(todo) + 1]
  BY <1>2, <1>4, SuffixStep
<1>6. Len(Scheduled) - Len(todo) + 1 \in 1..Len(Scheduled)
  BY <1>2, <1>4
<1>7. Head(todo) \in Elements(Scheduled)
  BY <1>5, <1>6 DEF Elements
<1> QED
  BY <1>1, <1>2, <1>3, <1>7

LEMMA BeforeLLVM ==
  ASSUME mode \in LoopMode, cli.stopAfter \in Stage, NEW k \in 1..4,
         NEW pass \in Elements(PassesOfCall(k, mode, cli.stopAfter))
  PROVE  /\ pass \notin {"convert-func-to-llvm", "convert-vector-to-llvm"}
         /\ mode = cli.stopAfter => pass # "lower-affine"
<1>1. CASE k = 1
  <2>1. pass \in {kPasses[i] : i \in 1..20}
    BY <1>1, FusionElements DEF PassesOfCall
  <2> QED
    BY <2>1, FusionOnly
<1>2. CASE k = 2
  <2>1. PassesOfCall(k, mode, cli.stopAfter)
          = buildStableHloToLinalgStage \o buildLinalgOptimizationStage
    BY <1>2 DEF PassesOfCall
  <2> QED
    BY <2>1, LinalgElements
<1>3. CASE k = 3
  <2>1. PassesOfCall(k, mode, cli.stopAfter) = buildBufferizationStage
    BY <1>3 DEF PassesOfCall
  <2> QED
    BY <2>1, BufferElements
<1>4. CASE k = 4
  <2>1. PassesOfCall(k, mode, cli.stopAfter)
          = buildLoopModeStage(mode, cli.stopAfter)
    BY <1>4 DEF PassesOfCall
  <2>2. CASE mode \in {"ScfSeq", "ScfPar"}
    <3>1. PassesOfCall(k, mode, cli.stopAfter)
            \in {buildLowerToLoopsStage, buildVectorizationStage}
      BY <2>1, <2>2 DEF buildLoopModeStage
    <3> QED
      BY <3>1, LoopElements
  <2>3. CASE mode = "Affine"
    <3>1. PassesOfCall(k, mode, cli.stopAfter)
            = buildAffineStage(cli.stopAfter = "Affine")
      BY <2>1, <2>3 DEF buildLoopModeStage
    <3>2. CASE cli.stopAfter = "Affine"
      <4>1. PassesOfCall(k, mode, cli.stopAfter) = buildAffineStage(TRUE)
        BY <3>1, <3>2
      <4> QED
        BY <4>1, AffineElements
    <3>3. CASE cli.stopAfter # "Affine"
      <4>1. PassesOfCall(k, mode, cli.stopAfter) = buildAffineStage(FALSE)
        BY <3>1, <3>3
      <4> QED
        BY <2>3, <3>3, <4>1, AffineElements
    <3> QED
      BY <3>2, <3>3
  <2>4. CASE mode = "Vector"
    <3>1. PassesOfCall(k, mode, cli.stopAfter)
            = buildVectorDialectStage(cli.stopAfter = "Vector")
      BY <2>1, <2>4 DEF buildLoopModeStage
    <3>2. CASE cli.stopAfter = "Vector"
      <4>1. PassesOfCall(k, mode, cli.stopAfter) = buildVectorDialectStage(TRUE)
        BY <3>1, <3>2
      <4> QED
        BY <4>1, VectorElements
    <3>3. CASE cli.stopAfter # "Vector"
      <4>1. PassesOfCall(k, mode, cli.stopAfter) = buildVectorDialectStage(FALSE)
        BY <3>1, <3>3
      <4> QED
        BY <2>4, <3>3, <4>1, VectorElements
    <3> QED
      BY <3>2, <3>3
  <2> QED
    BY <2>2, <2>3, <2>4 DEF LoopMode
<1> QED
  BY <1>1, <1>2, <1>3, <1>4

\* A pass takes out only what it converts, and the casts it reconciles.
LEMMA AfterKeeps ==
  ASSUME NEW pass, NEW d, NEW x \in d, x \notin Converts(pass), x # "cast"
  PROVE  x \in After(pass, d)
BY DEF After, Reconciled

LEMMA StageCallsAre ==
  ASSUME mode \in LoopMode
  PROVE  /\ StageCalls(mode)[5] = "LLVM"
         /\ \A k \in 1..4 : StageCalls(mode)[k] # "LLVM"
BY DEF StageCalls, loopModeStage, LoopMode

-----------------------------------------------------------------------------
(***************************************************************************)
(* Output. Until the last call begins, the entry of a --jit run is still a *)
(* func.func, so an engine is only created of what the last call lowered.  *)
(* Nothing has been printed while the driver runs or after it has failed   *)
(* with code 1, and what a finished run has printed fits its options.      *)
(***************************************************************************)
Lowered == \/ pc = "stage" /\ call = 5
           \/ call = 6 /\ runThroughStage("LLVM", cli.stopAfter)

FuncInv ==
  /\ cli.jit /\ pc \in {"options", "driver", "stage"} /\ ~Lowered => "func" \in ir
  /\ pc = "invoke" => runThroughStage("LLVM", cli.stopAfter)

LEMMA FuncStep == TypeOK /\ PlanInv /\ TodoInv /\ FuncInv /\ [Next]_vars => FuncInv'
<1> SUFFICES ASSUME TypeOK, PlanInv, TodoInv, FuncInv, [Next]_vars
             PROVE  FuncInv'
  OBVIOUS
<1>1. cli' = cli
  BY SameOptions
<1>2. runThroughStage("LLVM", cli.stopAfter)' <=> runThroughStage("LLVM", cli.stopAfter)
  BY <1>1
<1>3. CASE LoadModule
  BY <1>1, <1>3 DEF LoadModule, FuncInv, driver
<1>4. CASE EntryAccepted
  BY <1>1, <1>4 DEF EntryAccepted, FuncInv
<1>5. CASE ParseOptions
  BY <1>1, <1>5 DEF ParseOptions, Exit, FuncInv, Lowered, driver
<1>6. CASE BeginStage
  <2>1. /\ pc = "driver" /\ pc' = "stage" /\ call \in 1..5 /\ call' = call
        /\ ir' = ir
    BY <1>6, CallRange DEF BeginStage
  <2> QED
    BY <1>1, <1>2, <2>1 DEF FuncInv, Lowered
<1>7. CASE SkipStage
  <2>1. /\ pc = "driver" /\ pc' = "driver" /\ call \in 1..5
        /\ call' = call + 1 /\ ir' = ir
        /\ ~runThroughStage(StageCalls(mode)[call], cli.stopAfter)
        /\ mode \in LoopMode
    BY <1>7, CallRange, InPipeline DEF SkipStage
  <2>2. ~Lowered
    BY <2>1 DEF Lowered
  <2> QED
    BY <1>1, <1>2, <2>1, <2>2 DEF FuncInv
<1>8. CASE RunPass
  <2>1. /\ pc = "stage" /\ pc' = "stage" /\ call' = call /\ todo # <<>>
        /\ ir' = After(Head(todo), ir)
    BY <1>8 DEF RunPass
  <2>2. CASE call = 5
    BY <1>1, <2>1, <2>2 DEF FuncInv, Lowered
  <2>3. CASE call # 5
    <3>1. call \in 1..4 /\ Head(todo) # "convert-func-to-llvm"
      BY <2>1, <2>3, HeadScheduled, BeforeLLVM DEF Scheduled
    <3>2. "func" \notin Converts(Head(todo))
      BY <3>1 DEF Converts
    <3>3. "func" \in ir => "func" \in ir'
      BY <2>1, <3>2, AfterKeeps
    <3>4. ~Lowered
      BY <3>1 DEF Lowered
    <3> QED
      BY <1>1, <2>1, <3>3, <3>4 DEF FuncInv
  <2> QED
    BY <2>2, <2>3
<1>9. CASE EndStage
  <2>1. /\ pc = "stage" /\ pc' = "driver" /\ call \in 1..5
        /\ call' = call + 1 /\ ir' = ir
        /\ runThroughStage(StageCalls(mode)[call], cli.stopAfter)
        /\ mode \in LoopMode
    BY <1>9, CallRange, InPipeline DEF EndStage, PlanInv
  <2>2. call = 5 => Lowered'
    BY <1>2, <2>1, StageCallsAre DEF Lowered
  <2>3. call # 5 => ~Lowered
    BY <2>1 DEF Lowered
  <2> QED
    BY <1>1, <1>2, <2>1, <2>2, <2>3 DEF FuncInv
<1>10. CASE CreateEngine
  <2>1. /\ pc = "driver" /\ call = 6 /\ cli.jit /\ "func" \notin ir
        /\ pc' = "invoke"
    BY <1>10 DEF CreateEngine
  <2> QED
    BY <1>1, <2>1 DEF FuncInv, Lowered
<1>11. CASE pc' = "exit"
  BY <1>11 DEF FuncInv
<1>12. CASE UNCHANGED vars
  BY <1>12 DEF vars, FuncInv, Lowered
<1>13. CASE ListPasses \/ NoModule \/ EntryRejected \/ EntryWithoutResult
            \/ EngineFails \/ Invoke \/ InvokeCrashes \/ InvokeFails
            \/ FailPass \/ AbortPass \/ PrintModule
  BY <1>11, <1>13 DEF ListPasses, NoModule, EntryRejected, EntryWithoutResult,
     EngineFails, Invoke, InvokeCrashes, InvokeFails, FailPass, AbortPass,
     PrintModule, Exit
<1> QED
  BY <1>3, <1>4, <1>5, <1>6, <1>7, <1>8, <1>9, <1>10, <1>12, <1>13
  DEF Next, Main, RunJit, RunPipeline

OutInv ==
  /\ rank \in Nat
  /\ pc = "invoke" => cli.jit
  /\ pc # "exit" => code = "none"
  /\ code \in {"none", "1"} => out = <<>>
  /\ code = "crash" => out = <<>> \/ (cli.jit /\ out = Result)
  /\ Succeeded => out = Result
  /\ cli.jit /\ ~cli.listPasses /\ out # <<>> => "LLVM" \in Elements(done)

LEMMA AppendEmpty == \A x : Append(<<>>, x) = <<x>>
  OBVIOUS

\* What an invocation prints, of a run that went down to LLVM.
LEMMA Printed ==
  ASSUME rank \in Nat, rank <= 4, cli.jit
  PROVE  Append(<<>>, printMemRefF32(rank)) = Result
<1>1. CASE rank = 3
  <2>1. printMemRefF32(rank) = "unsupported rank"
    BY <1>1 DEF printMemRefF32
  <2>2. Append(<<>>, printMemRefF32(rank)) = <<"unsupported rank">>
    BY <2>1, AppendEmpty, Zenon
  <2>3. Result = <<"unsupported rank">>
    BY <1>1 DEF Result
  <2> QED
    BY <2>2, <2>3
<1>2. CASE rank # 3
  <2>1. rank = 0 \/ rank = 1 \/ rank = 2 \/ rank = 4
    BY <1>2
  <2>2. printMemRefF32(rank) = "values"
    BY <2>1 DEF printMemRefF32
  <2>3. Append(<<>>, printMemRefF32(rank)) = <<"values">>
    BY <2>2, AppendEmpty, Zenon
  <2>4. Result = <<"values">>
    BY <1>2 DEF Result
  <2> QED
    BY <2>3, <2>4
<1> QED
  BY <1>1, <1>2

LEMMA LoweredToLLVM ==
  ASSUME PlanInv, FuncInv, pc = "invoke"
  PROVE  "LLVM" \in Elements(done)
<1>1. /\ parsePipelineOptions /\ call = 6
      /\ runThroughStage("LLVM", cli.stopAfter)
  BY DEF PlanInv, FuncInv
<1>2. cli.stopAfter \in Stage /\ mode \in LoopMode
      /\ validatePipelineOptions(cli.stopAfter, mode)
  BY <1>1 DEF parsePipelineOptions
<1>3. 5 <= PlanLength(cli.stopAfter) /\ PlanLength(cli.stopAfter) \in 1..5
  BY <1>1, <1>2, RunThroughPlan, StageCallsAre
<1>4. PlanLength(cli.stopAfter) = 5
  BY <1>3
<1>5. done = [i \in 1..5 |-> StageCalls(mode)[i]]
  BY <1>1, <1>4 DEF PlanInv
<1>6. Len(done) = 5 /\ done[5] = "LLVM"
  BY <1>2, <1>5, StageCallsAre
<1> QED
  BY <1>6 DEF Elements

LEMMA OutStep == PlanInv /\ FuncInv /\ OutInv /\ [Next]_vars => OutInv'
<1> SUFFICES ASSUME PlanInv, FuncInv, OutInv, [Next]_vars
             PROVE  OutInv'
  OBVIOUS
<1>0. pc # "exit" => code = "none" /\ out = <<>>
  BY DEF OutInv
<1>1. CASE ListPasses
  BY <1>1 DEF ListPasses, OutInv, Succeeded, Exit, driver
<1>2. CASE NoModule \/ EntryRejected \/ EntryWithoutResult \/ EngineFails
           \/ InvokeFails \/ FailPass \/ AbortPass
  <2>1. /\ pc # "exit" /\ pc' = "exit" /\ code' \in {"1", "crash"}
        /\ UNCHANGED <<cli, out, rank, done>>
    BY <1>2 DEF NoModule, EntryRejected, EntryWithoutResult, EngineFails,
                InvokeFails, FailPass, AbortPass, Exit, driver
  <2> QED
    BY <1>0, <2>1 DEF OutInv, Succeeded
<1>3. CASE EntryAccepted
  BY <1>0, <1>3, InputAssumption DEF EntryAccepted, OutInv, Succeeded
<1>4. CASE LoadModule \/ CreateEngine \/ BeginStage \/ SkipStage \/ RunPass
           \/ EndStage
  <2>1. /\ pc # "exit" /\ pc' # "exit" /\ code' = code
        /\ pc' = "invoke" => cli.jit
        /\ UNCHANGED <<rank, out, cli>>
    BY <1>4 DEF LoadModule, CreateEngine, BeginStage, SkipStage, RunPass,
                EndStage, driver
  <2> QED
    BY <1>0, <2>1 DEF OutInv, Succeeded
<1>5. CASE ParseOptions
  BY <1>0, <1>5 DEF ParseOptions, OutInv, Succeeded, Exit, driver
<1>6. CASE PrintModule
  <2>1. /\ out = <<>> /\ ~cli.jit /\ code' = "0" /\ pc' = "exit"
        /\ UNCHANGED <<cli, rank>>
        /\ out' = IF cli.dumpIr THEN out ELSE Append(out, "module")
    BY <1>0, <1>6 DEF PrintModule, Exit, driver
  <2>2. out' = IF cli.dumpIr THEN <<>> ELSE <<"module">>
    BY <2>1
  <2>3. Result' = IF cli.dumpIr THEN <<>> ELSE <<"module">>
    BY <2>1 DEF Result
  <2> QED
    BY <2>1, <2>2, <2>3 DEF OutInv, Succeeded
<1>7. CASE Invoke \/ InvokeCrashes
  <2>1. /\ pc = "invoke" /\ rank <= 4 /\ code' \in {"0", "crash"}
        /\ pc' = "exit" /\ UNCHANGED <<cli, rank, done>>
        /\ out' = Append(out, printMemRefF32(rank))
           \/ (code' = "crash" /\ out' = out)
    BY <1>7 DEF Invoke, InvokeCrashes, Exit, driver
  <2>2. rank \in Nat /\ cli.jit /\ out = <<>>
    BY <1>0, <2>1 DEF OutInv
  <2>3. Append(<<>>, printMemRefF32(rank)) = Result
    BY <2>1, <2>2, Printed
  <2>4. Result' = Result
    BY <2>1 DEF Result
  <2>5. "LLVM" \in Elements(done)
    BY <2>1, LoweredToLLVM
  <2> QED
    BY <2>1, <2>2, <2>3, <2>4, <2>5 DEF OutInv, Succeeded
<1>8. CASE UNCHANGED vars
  BY <1>8 DEF vars, OutInv, Succeeded, Result
<1> QED
  BY <1>1, <1>2, <1>3, <1>4, <1>5, <1>6, <1>7, <1>8
  DEF Next, Main, RunJit, RunPipeline

(***************************************************************************)
(* A run that ends with code 1 has printed nothing, one that crashes at    *)
(* most the values of a --jit run, a successful one exactly the result its *)
(* options ask for; and values are printed only of a module that the LLVM  *)
(* stage lowered (main.cpp:155-247).                                       *)
(***************************************************************************)
THEOREM OutputHonest == Spec => []OutputMatchesExit
<1>1. Init => FuncInv /\ OutInv
  BY DEF Init, FuncInv, OutInv, Succeeded
<1>2. OutInv => OutputMatchesExit
  BY DEF OutInv, OutputMatchesExit
<1> QED
  BY <1>1, <1>2, RanHolds, FuncStep, OutStep, PTL DEF Spec

-----------------------------------------------------------------------------
(***************************************************************************)
(* Stopping at the affine or the vector stage: no step takes the dialect   *)
(* asked for away, whatever the input holds, because the builder that is   *)
(* told of the stop leaves lower-affine out (Pipeline.cpp:41-56).          *)
(***************************************************************************)
LEMMA StopStep ==
  ASSUME TypeOK, PlanInv, TodoInv, pc = "main" => ir = {}, [Next]_vars
  PROVE  AskedFor \cap ir \subseteq ir'
<1> SUFFICES ASSUME NEW x \in AskedFor, x \in ir
             PROVE  x \in ir'
  OBVIOUS
<1>1. cli.stopAfter \in {"Affine", "Vector"} /\ x \in {"affine", "vector"}
  BY DEF AskedFor
<1>2. CASE RunPass
  <2>1. pc = "stage" /\ todo # <<>> /\ ir' = After(Head(todo), ir)
    BY <1>2 DEF RunPass
  <2>2. /\ call \in 1..5 /\ mode \in LoopMode /\ cli.stopAfter \in Stage
        /\ parsePipelineOptions
        /\ runThroughStage(StageCalls(mode)[call], cli.stopAfter)
        /\ Head(todo) \in Elements(PassesOfCall(call, mode, cli.stopAfter))
    BY <2>1, HeadScheduled DEF Scheduled
  <2>3. mode = cli.stopAfter
    BY <1>1, <2>2 DEF parsePipelineOptions, validatePipelineOptions
  <2>4. call # 5
    BY <1>1, <2>2, StageCallsAre DEF runThroughStage, StageNo
  <2>5. Head(todo) \notin {"lower-affine", "convert-vector-to-llvm"}
    BY <2>2, <2>3, <2>4, BeforeLLVM
  <2>6. x \notin Converts(Head(todo)) /\ x # "cast"
    BY <1>1, <2>5 DEF Converts
  <2> QED
    BY <2>1, <2>6, AfterKeeps
<1>3. CASE LoadModule
  BY <1>3 DEF LoadModule
<1>4. CASE ir' = ir
  BY <1>4
<1>5. CASE BeginStage \/ SkipStage \/ EndStage
  BY <1>4, <1>5 DEF BeginStage, SkipStage, EndStage
<1> QED
  BY <1>2, <1>3, <1>4, <1>5, StepShape

(***************************************************************************)
(* For every input, a run that stops at the affine or the vector stage     *)
(* never takes an affine op, or a vector op, out of the module again.      *)
(***************************************************************************)
THEOREM StopHonest == Spec => StopKeepsDialect
<1> DEFINE Unparsed == pc = "main" => ir = {}
<1>1. Init => Unparsed
  BY DEF Init
<1>2. TypeOK /\ PlanInv /\ Unparsed /\ [Next]_vars => Unparsed'
  <2> SUFFICES ASSUME TypeOK, PlanInv, Unparsed, [Next]_vars, pc' = "main"
               PROVE  ir' = {}
    OBVIOUS
  <2>1. CASE LoadModule
    BY <2>1 DEF LoadModule
  <2>2. CASE BeginStage \/ SkipStage \/ RunPass \/ EndStage
    BY <2>2 DEF BeginStage, SkipStage, RunPass, EndStage
  <2>3. CASE ir' = ir /\ pc' = pc
    BY <2>3
  <2> QED
    BY <2>1, <2>2, <2>3, StepShape
<1>3. TypeOK /\ PlanInv /\ TodoInv /\ Unparsed /\ [Next]_vars
      => [AskedFor \cap ir \subseteq ir']_vars
  BY StopStep
<1> HIDE DEF Unparsed
<1> QED
  BY <1>1, <1>2, <1>3, RanHolds, PTL DEF Spec, StopKeepsDialect

-----------------------------------------------------------------------------
(***************************************************************************)
(* The dialects, pass by pass. What holds of the module while a call has   *)
(* run p of its passes, and after a call, for input files that hold        *)
(* neither affine nor vector ops.                                          *)
(***************************************************************************)
PlainInputs == \A d \in InputIRs : d \cap {"affine", "vector"} = {}

OnGraph(d) == "stablehlo" \in d /\ d \cap {"affine", "vector"} = {}

OnTensors(d) ==
  /\ {"linalg", "tensor"} \subseteq d
  /\ d \cap {"stablehlo", "chlo", "affine", "vector"} = {}

OnMemrefs(d) ==
  /\ {"linalg", "memref"} \subseteq d
  /\ d \cap {"stablehlo", "chlo", "tensor", "affine", "vector"} = {}

OnLoops(d) ==
  /\ "memref" \in d
  /\ d \cap {"stablehlo", "chlo", "tensor", "linalg", "bufferization"} = {}

InLinalg(p, d) ==
  IF p < 3 THEN OnGraph(d) /\ (p = 2 => "chlo" \notin d) ELSE OnTensors(d)

InBufferize(p, d) == IF p = 0 THEN OnTensors(d) ELSE OnMemrefs(d)

\* The passes of a loop mode that goes on to LLVM.
FullLoopPasses == CASE mode \in {"ScfSeq", "ScfPar"} -> 4
                    [] mode = "Affine" -> 5
                    [] mode = "Vector" -> 6

LoopPasses == CASE mode \in {"ScfSeq", "ScfPar"} -> 4
                [] mode = "Affine" -> IF cli.stopAfter = "Affine" THEN 3 ELSE 5
                [] mode = "Vector" -> IF cli.stopAfter = "Vector" THEN 4 ELSE 6

InLoopMode(p, d) ==
  IF p < (IF mode = "ScfPar" THEN 3 ELSE 2)
  THEN OnMemrefs(d) /\ (p > 0 => "bufferization" \notin d)
  ELSE /\ OnLoops(d)
       /\ "affine" \in d <=> \/ mode = "Affine" /\ p <= 3
                             \/ mode = "Vector" /\ p <= 4
       /\ "vector" \in d <=> mode = "Vector" /\ p >= 3
       /\ p = FullLoopPasses => "scf" \notin d

\* The passes of the last call up to finalize-memref-to-llvm.
Finalized == IF mode = "Vector" THEN 9 ELSE 8

InLLVM(p, d) ==
  IF p < Finalized
  THEN /\ OnLoops(d) /\ "affine" \notin d /\ "scf" \notin d
       /\ p >= 1 => "view" \notin d
       /\ p >= 2 => "apply" \notin d
       /\ p >= 3 => "arith" \notin d
       /\ p >= 4 => "cf" \notin d
       /\ p >= 5 => "func" \notin d
       /\ p >= 6 => "index" \notin d
       /\ p >= 7 => "math" \notin d
       /\ mode # "Vector" \/ p >= 8 => "vector" \notin d
  ELSE d = IF p = Finalized THEN {"llvm", "cast"} ELSE {"llvm"}

Within(k, p, d) ==
  CASE k = 1 -> OnGraph(d)
    [] k = 2 -> InLinalg(p, d)
    [] k = 3 -> InBufferize(p, d)
    [] k = 4 -> InLoopMode(p, d)
    [] k = 5 -> InLLVM(p, d)

Past(k, d) ==
  CASE k \in {0, 1} -> OnGraph(d)
    [] k = 2 -> OnTensors(d)
    [] k = 3 -> OnMemrefs(d)
    [] k = 4 -> InLoopMode(LoopPasses, d)
    [] k = 5 -> d = {"llvm"}

\* The calls that ran a stage, of those made so far.
Made == IF call - 1 <= PlanLength(cli.stopAfter)
        THEN call - 1 ELSE PlanLength(cli.stopAfter)

IrInv ==
  /\ pc = "main" => ir = {}
  /\ pc \notin {"main", "exit"} => ~cli.listPasses
  /\ pc \in {"entry", "options"} => OnGraph(ir)
  /\ pc \in {"driver", "invoke"} => Past(Made, ir)
  /\ pc = "stage" => Within(call, Len(Scheduled) - Len(todo), ir)
  /\ Succeeded => Past(PlanLength(cli.stopAfter), ir)

(***************************************************************************)
(* What each pass does to the dialects, read off After.                    *)
(***************************************************************************)
LEMMA KeepsDialects ==
  ASSUME NEW d,
         NEW pass \in {"stablehlo-refine-shapes", "canonicalize", "cse",
                       "linalg-fuse-elementwise-ops",
                       "linalg-fold-unit-extent-dims", "custom-linalg-opt",
                       "custom-buffer-opt", "custom-affine-opt",
                       "custom-vector-opt", "custom-llvm-cleanup"}
  PROVE  After(pass, d) = d
<1>1. Converts(pass) = {} /\ Emits(pass, d) = {} /\ pass # "reconcile-unrealized-casts"
  BY DEF Converts, Emits
<1> QED
  BY <1>1 DEF After

LEMMA FusionKeeps ==
  ASSUME NEW d, NEW i \in 1..20
  PROVE  After(buildFusionStage[i], d) = d
<1> DEFINE pass == buildFusionStage[i]
<1>1. pass \notin
           {"stablehlo-refine-shapes", "chlo-legalize-to-stablehlo",
            "stablehlo-legalize-to-linalg", "canonicalize", "cse",
            "linalg-fuse-elementwise-ops", "linalg-fold-unit-extent-dims",
            "custom-linalg-opt", "custom-linalg-tile", "one-shot-bufferize",
            "buffer-deallocation-pipeline", "custom-buffer-opt",
            "convert-bufferization-to-memref", "convert-linalg-to-loops",
            "custom-loop-tiling", "convert-scf-to-cf",
            "custom-linalg-to-parallel-loops",
            "convert-linalg-to-parallel-loops",
            "convert-linalg-to-affine-loops", "custom-affine-opt",
            "lower-affine", "affine-super-vectorize", "custom-vector-opt",
            "expand-strided-metadata", "convert-arith-to-llvm",
            "convert-cf-to-llvm", "convert-func-to-llvm",
            "convert-index-to-llvm", "convert-math-to-llvm",
            "convert-vector-to-llvm", "finalize-memref-to-llvm",
            "reconcile-unrealized-casts", "custom-llvm-cleanup"}
  BY FusionOnly, ListedPasses
<1> HIDE DEF pass
<1>2. Converts(pass) = {} /\ Emits(pass, d) = {} /\ pass # "reconcile-unrealized-casts"
  BY <1>1 DEF Converts, Emits
<1>3. After(pass, d) = d
  BY <1>2 DEF After
<1> QED
  BY <1>3 DEF pass

Given(d, cause, effect) == IF cause \in d THEN effect ELSE {}

LEMMA TensorPasses ==
  ASSUME NEW d
  PROVE  /\ After("chlo-legalize-to-stablehlo", d)
              = (d \ {"chlo"}) \cup Given(d, "chlo", {"stablehlo"})
         /\ After("stablehlo-legalize-to-linalg", d)
              = (d \ {"stablehlo"})
                \cup Given(d, "stablehlo", {"linalg", "tensor", "arith", "math"})
         /\ After("custom-linalg-tile", d)
              = d \cup Given(d, "linalg", {"scf", "tensor", "arith"})
         /\ After("one-shot-bufferize", d)
              = (d \ {"tensor"})
                \cup Given(d, "tensor", {"memref", "view", "bufferization"})
         /\ After("buffer-deallocation-pipeline", d)
              = d \cup Given(d, "memref", {"bufferization", "arith"})
<1>1. After("chlo-legalize-to-stablehlo", d)
              = (d \ {"chlo"}) \cup Given(d, "chlo", {"stablehlo"})
  BY DEF After, Converts, Emits, Given
<1>2. After("stablehlo-legalize-to-linalg", d)
              = (d \ {"stablehlo"})
                \cup Given(d, "stablehlo", {"linalg", "tensor", "arith", "math"})
  BY DEF After, Converts, Emits, Given
<1>3. After("custom-linalg-tile", d)
              = d \cup Given(d, "linalg", {"scf", "tensor", "arith"})
  BY DEF After, Converts, Emits, Given
<1>4. After("one-shot-bufferize", d)
              = (d \ {"tensor"})
                \cup Given(d, "tensor", {"memref", "view", "bufferization"})
  BY DEF After, Converts, Emits, Given
<1>5. After("buffer-deallocation-pipeline", d)
              = d \cup Given(d, "memref", {"bufferization", "arith"})
  BY DEF After, Converts, Emits, Given
<1> QED
  BY <1>1, <1>2, <1>3, <1>4, <1>5

LEMMA LoopModePasses ==
  ASSUME NEW d
  PROVE  /\ After("convert-bufferization-to-memref", d)
              = (d \ {"bufferization"})
                \cup Given(d, "bufferization", {"memref", "view", "scf", "arith"})
         /\ \A pass \in {"convert-linalg-to-loops",
                         "convert-linalg-to-parallel-loops"} :
              After(pass, d)
                = (d \ {"linalg"}) \cup Given(d, "linalg", {"scf", "memref", "arith"})
         /\ After("custom-linalg-to-parallel-loops", d)
              = d \cup Given(d, "linalg", {"scf", "memref", "arith"})
         /\ After("custom-loop-tiling", d) = d \cup Given(d, "scf", {"arith"})
         /\ After("convert-linalg-to-affine-loops", d)
              = (d \ {"linalg"})
                \cup Given(d, "linalg", {"affine", "apply", "memref", "arith"})
         /\ After("affine-super-vectorize", d)
              = d \cup Given(d, "affine", {"vector", "arith"})
         /\ After("lower-affine", d)
              = (d \ {"affine", "apply"})
                \cup Given(d, "affine", {"scf", "memref", "arith"})
                \cup Given(d, "apply", {"arith"})
         /\ After("convert-scf-to-cf", d)
              = (d \ {"scf"}) \cup Given(d, "scf", {"cf", "arith"})
<1>1. After("convert-bufferization-to-memref", d)
              = (d \ {"bufferization"})
                \cup Given(d, "bufferization", {"memref", "view", "scf", "arith"})
  BY DEF After, Converts, Emits, Given
<1>2. ASSUME NEW pass \in {"convert-linalg-to-loops",
                           "convert-linalg-to-parallel-loops"}
      PROVE  After(pass, d)
               = (d \ {"linalg"}) \cup Given(d, "linalg", {"scf", "memref", "arith"})
  BY <1>2 DEF After, Converts, Emits, Given
<1>3. After("custom-linalg-to-parallel-loops", d)
              = d \cup Given(d, "linalg", {"scf", "memref", "arith"})
  BY DEF After, Converts, Emits, Given
<1>4. After("custom-loop-tiling", d) = d \cup Given(d, "scf", {"arith"})
  BY DEF After, Converts, Emits, Given
<1>5. After("convert-linalg-to-affine-loops", d)
              = (d \ {"linalg"})
                \cup Given(d, "linalg", {"affine", "apply", "memref", "arith"})
  BY DEF After, Converts, Emits, Given
<1>6. After("affine-super-vectorize", d)
              = d \cup Given(d, "affine", {"vector", "arith"})
  BY DEF After, Converts, Emits, Given
<1>7. After("lower-affine", d)
              = (d \ {"affine", "apply"})
                \cup Given(d, "affine", {"scf", "memref", "arith"})
                \cup Given(d, "apply", {"arith"})
  BY DEF After, Converts, Emits, Given
<1>8. After("convert-scf-to-cf", d)
              = (d \ {"scf"}) \cup Given(d, "scf", {"cf", "arith"})
  BY DEF After, Converts, Emits, Given
<1> QED
  BY <1>1, <1>2, <1>3, <1>4, <1>5, <1>6, <1>7, <1>8

LEMMA ToLLVMPasses ==
  ASSUME NEW d
  PROVE  /\ After("expand-strided-metadata", d)
              = (d \ {"view"}) \cup Given(d, "view", {"apply", "memref", "arith"})
         /\ After("convert-arith-to-llvm", d)
              = (d \ {"arith"}) \cup Given(d, "arith", {"llvm", "cast"})
         /\ After("convert-cf-to-llvm", d)
              = (d \ {"cf"}) \cup Given(d, "cf", {"llvm", "cast"})
         /\ After("convert-func-to-llvm", d)
              = (d \ {"func"}) \cup Given(d, "func", {"llvm", "cast"})
         /\ After("convert-index-to-llvm", d)
              = (d \ {"index"}) \cup Given(d, "index", {"llvm", "cast"})
         /\ After("convert-math-to-llvm", d)
              = (d \ {"math"}) \cup Given(d, "math", {"llvm", "cast"})
         /\ After("convert-vector-to-llvm", d)
              = (d \ {"vector"}) \cup Given(d, "vector", {"llvm", "cast"})
         /\ After("finalize-memref-to-llvm", d)
              = (d \ {"memref"}) \cup Given(d, "memref", {"llvm", "cast"})
         /\ After("reconcile-unrealized-casts", d) = Reconciled(d)
<1>1. After("expand-strided-metadata", d)
              = (d \ {"view"}) \cup Given(d, "view", {"apply", "memref", "arith"})
  BY DEF After, Converts, Emits, Given
<1>2. After("convert-arith-to-llvm", d)
              = (d \ {"arith"}) \cup Given(d, "arith", {"llvm", "cast"})
  BY DEF After, Converts, Emits, Given
<1>3. After("convert-cf-to-llvm", d)
              = (d \ {"cf"}) \cup Given(d, "cf", {"llvm", "cast"})
  BY DEF After, Converts, Emits, Given
<1>4. After("convert-func-to-llvm", d)
              = (d \ {"func"}) \cup Given(d, "func", {"llvm", "cast"})
  BY DEF After, Converts, Emits, Given
<1>5. After("convert-index-to-llvm", d)
              = (d \ {"index"}) \cup Given(d, "index", {"llvm", "cast"})
  BY DEF After, Converts, Emits, Given
<1>6. After("convert-math-to-llvm", d)
              = (d \ {"math"}) \cup Given(d, "math", {"llvm", "cast"})
  BY DEF After, Converts, Emits, Given
<1>7. After("convert-vector-to-llvm", d)
              = (d \ {"vector"}) \cup Given(d, "vector", {"llvm", "cast"})
  BY DEF After, Converts, Emits, Given
<1>8. After("finalize-memref-to-llvm", d)
              = (d \ {"memref"}) \cup Given(d, "memref", {"llvm", "cast"})
  BY DEF After, Converts, Emits, Given
<1>9. After("reconcile-unrealized-casts", d) = Reconciled(d)
  BY DEF After
<1> QED
  BY <1>1, <1>2, <1>3, <1>4, <1>5, <1>6, <1>7, <1>8, <1>9

(***************************************************************************)
(* Call by call: a pass takes what holds before it to what holds after it. *)
(***************************************************************************)
LEMMA LinalgCallStep ==
  ASSUME NEW d, NEW p \in 0..10, InLinalg(p, d)
  PROVE  LET s == buildStableHloToLinalgStage \o buildLinalgOptimizationStage
         IN  InLinalg(p + 1, After(s[p + 1], d))
<1> DEFINE s == buildStableHloToLinalgStage \o buildLinalgOptimizationStage
<1> SUFFICES InLinalg(p + 1, After(s[p + 1], d))
  OBVIOUS
<1>0. /\ s[1] \in {"stablehlo-refine-shapes"} /\ s[2] = "chlo-legalize-to-stablehlo"
      /\ s[3] = "stablehlo-legalize-to-linalg" /\ s[11] = "custom-linalg-tile"
      /\ \A i \in 4..10 : s[i] \in {"canonicalize", "cse",
                            "linalg-fuse-elementwise-ops",
                            "linalg-fold-unit-extent-dims", "custom-linalg-opt"}
  <2>1. \A i \in 4..10 : i = 4 \/ i = 5 \/ i = 6 \/ i = 7 \/ i = 8 \/ i = 9 \/ i = 10
    OBVIOUS
  <2> QED
    BY <2>1, LinalgPasses
<1> HIDE DEF s
<1>1. CASE p = 0
  BY <1>0, <1>1, KeepsDialects DEF InLinalg
<1>2. CASE p = 1
  BY <1>0, <1>2, TensorPasses DEF InLinalg, OnGraph, Given
<1>3. CASE p = 2
  <2>1. "stablehlo" \in d /\ d \cap {"affine", "vector"} = {} /\ "chlo" \notin d
    BY <1>3 DEF InLinalg, OnGraph
  <2>2. After(s[3], d) = (d \ {"stablehlo"}) \cup {"linalg", "tensor", "arith", "math"}
    BY <1>0, <2>1, TensorPasses DEF Given
  <2>3. OnTensors(After(s[3], d))
    BY <2>1, <2>2 DEF OnTensors
  <2> QED
    BY <1>3, <2>3 DEF InLinalg
<1>4. CASE p \in 3..9
  <2>1. p + 1 \in 4..10 /\ ~(p < 3) /\ ~(p + 1 < 3)
    BY <1>4
  <2>2. After(s[p + 1], d) = d
    BY <1>0, <2>1, KeepsDialects
  <2> QED
    BY <2>1, <2>2 DEF InLinalg
<1>5. CASE p = 10
  BY <1>0, <1>5, TensorPasses DEF InLinalg, OnTensors, Given
<1>6. p = 0 \/ p = 1 \/ p = 2 \/ p \in 3..9 \/ p = 10
  OBVIOUS
<1> QED
  BY <1>1, <1>2, <1>3, <1>4, <1>5, <1>6

LEMMA BufferizeCallStep ==
  ASSUME NEW d, NEW p \in 0..4, InBufferize(p, d)
  PROVE  InBufferize(p + 1, After(buildBufferizationStage[p + 1], d))
<1> DEFINE s == buildBufferizationStage
<1> SUFFICES InBufferize(p + 1, After(s[p + 1], d))
  OBVIOUS
<1>0. /\ s[1] = "one-shot-bufferize" /\ s[2] = "buffer-deallocation-pipeline"
      /\ s[3] = "custom-buffer-opt" /\ s[4] = "canonicalize" /\ s[5] = "cse"
  BY DEF buildBufferizationStage
<1> HIDE DEF s
<1>1. CASE p = 0
  <2>1. /\ "linalg" \in d /\ "tensor" \in d
        /\ d \cap {"stablehlo", "chlo", "affine", "vector"} = {}
    BY <1>1 DEF InBufferize, OnTensors
  <2>2. After(s[1], d) = (d \ {"tensor"}) \cup {"memref", "view", "bufferization"}
    BY <1>0, <2>1, TensorPasses DEF Given
  <2>3. OnMemrefs(After(s[1], d))
    BY <2>1, <2>2 DEF OnMemrefs
  <2> QED
    BY <1>1, <2>3 DEF InBufferize
<1>2. CASE p = 1
  BY <1>0, <1>2, TensorPasses DEF InBufferize, OnMemrefs, Given
<1>3. CASE p \in {2, 3, 4}
  <2>1. After(s[p + 1], d) = d
    BY <1>0, <1>3, KeepsDialects
  <2> QED
    BY <1>3, <2>1 DEF InBufferize
<1>4. p = 0 \/ p = 1 \/ p \in {2, 3, 4}
  OBVIOUS
<1> QED
  BY <1>1, <1>2, <1>3, <1>4

\* The passes of a loop mode, in the order its builder adds them.
LEMMA ScfModesStep ==
  ASSUME mode \in {"ScfSeq", "ScfPar"}, NEW d, NEW p \in 0..3, InLoopMode(p, d)
  PROVE  InLoopMode(p + 1, After(PassesOfCall(4, mode, cli.stopAfter)[p + 1], d))
<1> DEFINE s == PassesOfCall(4, mode, cli.stopAfter)
<1> SUFFICES InLoopMode(p + 1, After(s[p + 1], d))
  OBVIOUS
<1>0. p = 0 \/ p = 1 \/ p = 2 \/ p = 3
  OBVIOUS
<1>1. CASE mode = "ScfSeq"
  <2>1. s = buildLowerToLoopsStage
    BY <1>1 DEF PassesOfCall, buildLoopModeStage
  <2>2. /\ s[1] = "convert-bufferization-to-memref"
        /\ s[2] = "convert-linalg-to-loops" /\ s[3] = "custom-loop-tiling"
        /\ s[4] = "convert-scf-to-cf"
    BY <2>1 DEF buildLowerToLoopsStage
  <2>3. mode # "ScfPar" /\ mode # "Affine" /\ mode # "Vector" /\ FullLoopPasses = 4
    BY <1>1 DEF FullLoopPasses
  <2> HIDE DEF s
  <2>4. CASE p = 0
    <3>1. After(s[p + 1], d) = (d \ {"bufferization"})
                               \cup Given(d, "bufferization",
                                         {"memref", "view", "scf", "arith"})
      BY <2>2, <2>3, <2>4, LoopModePasses
    <3> QED
      BY <2>2, <2>3, <2>4, <3>1 DEF InLoopMode, OnMemrefs, Given
  <2>5. CASE p = 1
    <3>1. After(s[p + 1], d) = (d \ {"linalg"})
                               \cup Given(d, "linalg", {"scf", "memref", "arith"})
      BY <2>2, <2>3, <2>5, LoopModePasses
    <3> QED
      BY <2>2, <2>3, <2>5, <3>1 DEF InLoopMode, OnMemrefs, OnLoops, Given
  <2>6. CASE p = 2
    <3>1. After(s[p + 1], d) = d \cup Given(d, "scf", {"arith"})
      BY <2>2, <2>3, <2>6, LoopModePasses
    <3> QED
      BY <2>2, <2>3, <2>6, <3>1 DEF InLoopMode, OnLoops, Given
  <2>7. CASE p = 3
    <3>1. After(s[p + 1], d) = (d \ {"scf"}) \cup Given(d, "scf", {"cf", "arith"})
      BY <2>2, <2>3, <2>7, LoopModePasses
    <3> QED
      BY <2>2, <2>3, <2>7, <3>1 DEF InLoopMode, OnLoops, Given
  <2> QED
    BY <1>0, <2>4, <2>5, <2>6, <2>7
<1>2. CASE mode = "ScfPar"
  <2>1. s = buildVectorizationStage
    BY <1>2 DEF PassesOfCall, buildLoopModeStage
  <2>2. /\ s[1] = "convert-bufferization-to-memref"
        /\ s[2] = "custom-linalg-to-parallel-loops"
        /\ s[3] = "convert-linalg-to-parallel-loops"
        /\ s[4] = "convert-scf-to-cf"
    BY <2>1 DEF buildVectorizationStage
  <2>3. mode # "Affine" /\ mode # "Vector" /\ FullLoopPasses = 4
    BY <1>2 DEF FullLoopPasses
  <2> HIDE DEF s
  <2>4. CASE p = 0
    <3>1. After(s[p + 1], d) = (d \ {"bufferization"})
                               \cup Given(d, "bufferization",
                                         {"memref", "view", "scf", "arith"})
      BY <1>2, <2>2, <2>3, <2>4, LoopModePasses
    <3> QED
      BY <1>2, <2>2, <2>3, <2>4, <3>1 DEF InLoopMode, OnMemrefs, Given
  <2>5. CASE p = 1
    <3>1. After(s[p + 1], d) = d \cup Given(d, "linalg", {"scf", "memref", "arith"})
      BY <1>2, <2>2, <2>3, <2>5, LoopModePasses
    <3> QED
      BY <1>2, <2>2, <2>3, <2>5, <3>1 DEF InLoopMode, OnMemrefs, Given
  <2>6. CASE p = 2
    <3>1. After(s[p + 1], d) = (d \ {"linalg"})
                               \cup Given(d, "linalg", {"scf", "memref", "arith"})
      BY <1>2, <2>2, <2>3, <2>6, LoopModePasses
    <3> QED
      BY <1>2, <2>2, <2>3, <2>6, <3>1 DEF InLoopMode, OnMemrefs, OnLoops, Given
  <2>7. CASE p = 3
    <3>1. After(s[p + 1], d) = (d \ {"scf"}) \cup Given(d, "scf", {"cf", "arith"})
      BY <1>2, <2>2, <2>3, <2>7, LoopModePasses
    <3> QED
      BY <1>2, <2>2, <2>3, <2>7, <3>1 DEF InLoopMode, OnLoops, Given
  <2> QED
    BY <1>0, <2>4, <2>5, <2>6, <2>7
<1> QED
  BY <1>1, <1>2

LEMMA AffineModeStep ==
  ASSUME mode = "Affine", NEW d, NEW p \in 0..(LoopPasses - 1), InLoopMode(p, d)
  PROVE  InLoopMode(p + 1, After(PassesOfCall(4, mode, cli.stopAfter)[p + 1], d))
<1> DEFINE s == PassesOfCall(4, mode, cli.stopAfter)
<1> SUFFICES InLoopMode(p + 1, After(s[p + 1], d))
  OBVIOUS
<1>0. s = buildAffineStage(cli.stopAfter = "Affine")
  BY DEF PassesOfCall, buildLoopModeStage
<1>1. /\ s[1] = "convert-bufferization-to-memref"
      /\ s[2] = "convert-linalg-to-affine-loops" /\ s[3] = "custom-affine-opt"
      /\ cli.stopAfter # "Affine" => s[4] = "lower-affine" /\ s[5] = "convert-scf-to-cf"
  <2>1. CASE cli.stopAfter = "Affine"
    <3>1. (cli.stopAfter = "Affine") = TRUE
      BY <2>1
    <3>2. s = <<"convert-bufferization-to-memref", "convert-linalg-to-affine-loops",
               "custom-affine-opt">>
      BY <1>0, <3>1, AffineStopPasses, Zenon
    <3> HIDE DEF s
    <3> QED
      BY <2>1, <3>2
  <2>2. CASE cli.stopAfter # "Affine"
    <3>1. (cli.stopAfter = "Affine") = FALSE
      BY <2>2
    <3>2. s = <<"convert-bufferization-to-memref", "convert-linalg-to-affine-loops",
               "custom-affine-opt", "lower-affine", "convert-scf-to-cf">>
      BY <1>0, <3>1, AffinePasses, Zenon
    <3> HIDE DEF s
    <3> QED
      BY <2>2, <3>2
  <2> QED
    BY <2>1, <2>2
<1>2. /\ p = 0 \/ p = 1 \/ p = 2 \/ p = 3 \/ p = 4
      /\ p \in {3, 4} => cli.stopAfter # "Affine"
  BY DEF LoopPasses
<1>3. mode # "ScfPar" /\ mode # "Vector" /\ FullLoopPasses = 5
  BY DEF FullLoopPasses
<1> HIDE DEF s
<1>4. CASE p = 0
  <2>1. After(s[p + 1], d) = (d \ {"bufferization"})
                             \cup Given(d, "bufferization",
                                       {"memref", "view", "scf", "arith"})
    BY <1>1, <1>3, <1>4, LoopModePasses
  <2> QED
    BY <1>1, <1>3, <1>4, <2>1 DEF InLoopMode, OnMemrefs, Given
<1>5. CASE p = 1
  <2>1. After(s[p + 1], d) = (d \ {"linalg"})
                             \cup Given(d, "linalg",
                                       {"affine", "apply", "memref", "arith"})
    BY <1>1, <1>3, <1>5, LoopModePasses
  <2> QED
    BY <1>1, <1>3, <1>5, <2>1 DEF InLoopMode, OnMemrefs, OnLoops, Given
<1>6. CASE p = 2
  BY <1>1, <1>3, <1>6, KeepsDialects DEF InLoopMode
<1>7. CASE p = 3
  <2>1. After(s[p + 1], d) = (d \ {"affine", "apply"})
                             \cup Given(d, "affine", {"scf", "memref", "arith"})
                             \cup Given(d, "apply", {"arith"})
    BY <1>1, <1>2, <1>3, <1>7, LoopModePasses
  <2> QED
    BY <1>1, <1>2, <1>3, <1>7, <2>1 DEF InLoopMode, OnLoops, Given
<1>8. CASE p = 4
  <2>1. After(s[p + 1], d) = (d \ {"scf"}) \cup Given(d, "scf", {"cf", "arith"})
    BY <1>1, <1>2, <1>3, <1>8, LoopModePasses
  <2> QED
    BY <1>1, <1>2, <1>3, <1>8, <2>1 DEF InLoopMode, OnLoops, Given
<1> QED
  BY <1>2, <1>4, <1>5, <1>6, <1>7, <1>8

LEMMA VectorModeStep ==
  ASSUME mode = "Vector", NEW d, NEW p \in 0..(LoopPasses - 1), InLoopMode(p, d)
  PROVE  InLoopMode(p + 1, After(PassesOfCall(4, mode, cli.stopAfter)[p + 1], d))
<1> DEFINE s == PassesOfCall(4, mode, cli.stopAfter)
<1> SUFFICES InLoopMode(p + 1, After(s[p + 1], d))
  OBVIOUS
<1>0. s = buildVectorDialectStage(cli.stopAfter = "Vector")
  BY DEF PassesOfCall, buildLoopModeStage
<1>1. /\ s[1] = "convert-bufferization-to-memref"
      /\ s[2] = "convert-linalg-to-affine-loops"
      /\ s[3] = "affine-super-vectorize" /\ s[4] = "custom-vector-opt"
      /\ cli.stopAfter # "Vector" => s[5] = "lower-affine" /\ s[6] = "convert-scf-to-cf"
  <2>1. CASE cli.stopAfter = "Vector"
    <3>1. (cli.stopAfter = "Vector") = TRUE
      BY <2>1
    <3>2. s = <<"convert-bufferization-to-memref", "convert-linalg-to-affine-loops",
               "affine-super-vectorize", "custom-vector-opt">>
      BY <1>0, <3>1, VectorStopPasses, Zenon
    <3> HIDE DEF s
    <3> QED
      BY <2>1, <3>2
  <2>2. CASE cli.stopAfter # "Vector"
    <3>1. (cli.stopAfter = "Vector") = FALSE
      BY <2>2
    <3>2. s = <<"convert-bufferization-to-memref", "convert-linalg-to-affine-loops",
               "affine-super-vectorize", "custom-vector-opt", "lower-affine",
               "convert-scf-to-cf">>
      BY <1>0, <3>1, VectorPasses, Zenon
    <3> HIDE DEF s
    <3> QED
      BY <2>2, <3>2
  <2> QED
    BY <2>1, <2>2
<1>2. /\ p = 0 \/ p = 1 \/ p = 2 \/ p = 3 \/ p = 4 \/ p = 5
      /\ p \in {4, 5} => cli.stopAfter # "Vector"
  BY DEF LoopPasses
<1>3. mode # "ScfPar" /\ mode # "Affine" /\ FullLoopPasses = 6
  BY DEF FullLoopPasses
<1> HIDE DEF s
<1>4. CASE p = 0
  <2>1. After(s[p + 1], d) = (d \ {"bufferization"})
                             \cup Given(d, "bufferization",
                                       {"memref", "view", "scf", "arith"})
    BY <1>1, <1>3, <1>4, LoopModePasses
  <2> QED
    BY <1>1, <1>3, <1>4, <2>1 DEF InLoopMode, OnMemrefs, Given
<1>5. CASE p = 1
  <2>1. After(s[p + 1], d) = (d \ {"linalg"})
                             \cup Given(d, "linalg",
                                       {"affine", "apply", "memref", "arith"})
    BY <1>1, <1>3, <1>5, LoopModePasses
  <2> QED
    BY <1>1, <1>3, <1>5, <2>1 DEF InLoopMode, OnMemrefs, OnLoops, Given
<1>6. CASE p = 2
  <2>1. After(s[p + 1], d) = d \cup Given(d, "affine", {"vector", "arith"})
    BY <1>1, <1>3, <1>6, LoopModePasses
  <2> QED
    BY <1>1, <1>3, <1>6, <2>1 DEF InLoopMode, OnLoops, Given
<1>7. CASE p = 3
  BY <1>1, <1>3, <1>7, KeepsDialects DEF InLoopMode
<1>8. CASE p = 4
  <2>1. After(s[p + 1], d) = (d \ {"affine", "apply"})
                             \cup Given(d, "affine", {"scf", "memref", "arith"})
                             \cup Given(d, "apply", {"arith"})
    BY <1>1, <1>2, <1>3, <1>8, LoopModePasses
  <2> QED
    BY <1>1, <1>2, <1>3, <1>8, <2>1 DEF InLoopMode, OnLoops, Given
<1>9. CASE p = 5
  <2>1. After(s[p + 1], d) = (d \ {"scf"}) \cup Given(d, "scf", {"cf", "arith"})
    BY <1>1, <1>2, <1>3, <1>9, LoopModePasses
  <2> QED
    BY <1>1, <1>2, <1>3, <1>9, <2>1 DEF InLoopMode, OnLoops, Given
<1> QED
  BY <1>2, <1>4, <1>5, <1>6, <1>7, <1>8, <1>9

LEMMA LoopModeStep ==
  ASSUME mode \in LoopMode, NEW d, NEW p \in 0..(LoopPasses - 1), InLoopMode(p, d)
  PROVE  InLoopMode(p + 1, After(PassesOfCall(4, mode, cli.stopAfter)[p + 1], d))
<1>1. CASE mode \in {"ScfSeq", "ScfPar"}
  <2>1. LoopPasses = 4
    BY <1>1 DEF LoopPasses
  <2>2. p \in 0..3
    BY <2>1
  <2> QED
    BY <1>1, <2>2, ScfModesStep
<1>2. CASE mode = "Affine"
  BY <1>2, AffineModeStep
<1>3. CASE mode = "Vector"
  BY <1>3, VectorModeStep
<1> QED
  BY <1>1, <1>2, <1>3 DEF LoopMode

\* The end of the last call: nothing but LLVM and casts survives finalizing.
LEMMA LLVMTailStep ==
  ASSUME NEW d \in SUBSET Dialect, NEW p \in Nat, InLLVM(p, d), p + 1 >= Finalized
  PROVE  /\ p + 1 = Finalized
              => InLLVM(p + 1, After("finalize-memref-to-llvm", d))
         /\ p = Finalized
              => InLLVM(p + 1, After("reconcile-unrealized-casts", d))
         /\ p > Finalized
              => InLLVM(p + 1, After("custom-llvm-cleanup", d))
<1>1. ASSUME p + 1 = Finalized
      PROVE  InLLVM(p + 1, After("finalize-memref-to-llvm", d))
  <2>1. After("finalize-memref-to-llvm", d)
          = (d \ {"memref"}) \cup Given(d, "memref", {"llvm", "cast"})
    BY ToLLVMPasses
  <2>2. p < Finalized /\ p >= 7 /\ (mode = "Vector" => p >= 8)
    BY <1>1 DEF Finalized
  <2>3. /\ "memref" \in d
        /\ d \subseteq {"memref", "cast", "llvm"}
    BY <2>2 DEF InLLVM, OnLoops, Dialect
  <2>4. After("finalize-memref-to-llvm", d) = {"llvm", "cast"}
    BY <2>1, <2>3 DEF Given
  <2> QED
    BY <1>1, <2>4 DEF InLLVM
<1>2. ASSUME p = Finalized
      PROVE  InLLVM(p + 1, After("reconcile-unrealized-casts", d))
  <2>1. After("reconcile-unrealized-casts", d) = Reconciled(d)
    BY ToLLVMPasses
  <2>2. d = {"llvm", "cast"}
    BY <1>2 DEF InLLVM
  <2>3. Reconciled(d) = {"llvm"}
    BY <2>2 DEF Reconciled
  <2>4. ~(p + 1 < Finalized) /\ p + 1 # Finalized
    BY <1>2
  <2> QED
    BY <2>1, <2>3, <2>4 DEF InLLVM
<1>3. ASSUME p > Finalized
      PROVE  InLLVM(p + 1, After("custom-llvm-cleanup", d))
  <2>1. After("custom-llvm-cleanup", d) = d
    BY KeepsDialects
  <2>2. Finalized \in Nat
    BY DEF Finalized
  <2> QED
    BY <1>3, <2>1, <2>2 DEF InLLVM
<1> QED
  BY <1>1, <1>2, <1>3

\* The conversions before that, in both shapes of the builder.
LEMMA LLVMHeadStep ==
  ASSUME NEW d, NEW p \in 0..6, InLLVM(p, d),
         NEW pass,
         \/ p = 0 /\ pass = "expand-strided-metadata"
         \/ p = 1 /\ pass = "lower-affine"
         \/ p = 2 /\ pass = "convert-arith-to-llvm"
         \/ p = 3 /\ pass = "convert-cf-to-llvm"
         \/ p = 4 /\ pass = "convert-func-to-llvm"
         \/ p = 5 /\ pass = "convert-index-to-llvm"
         \/ p = 6 /\ pass = "convert-math-to-llvm"
  PROVE  InLLVM(p + 1, After(pass, d))
<1>0. p < Finalized /\ p + 1 < Finalized
  BY DEF Finalized
<1>1. CASE p = 0
  <2>1. After(pass, d) = (d \ {"view"}) \cup Given(d, "view", {"apply", "memref", "arith"})
    BY <1>1, ToLLVMPasses
  <2> QED
    BY <1>0, <1>1, <2>1 DEF InLLVM, OnLoops, Given
<1>2. CASE p = 1
  <2>1. After(pass, d) = (d \ {"affine", "apply"})
                         \cup Given(d, "affine", {"scf", "memref", "arith"})
                         \cup Given(d, "apply", {"arith"})
    BY <1>2, LoopModePasses
  <2> QED
    BY <1>0, <1>2, <2>1 DEF InLLVM, OnLoops, Given
<1>3. CASE p = 2
  <2>1. After(pass, d) = (d \ {"arith"}) \cup Given(d, "arith", {"llvm", "cast"})
    BY <1>3, ToLLVMPasses
  <2> QED
    BY <1>0, <1>3, <2>1 DEF InLLVM, OnLoops, Given
<1>4. CASE p = 3
  <2>1. After(pass, d) = (d \ {"cf"}) \cup Given(d, "cf", {"llvm", "cast"})
    BY <1>4, ToLLVMPasses
  <2> QED
    BY <1>0, <1>4, <2>1 DEF InLLVM, OnLoops, Given
<1>5. CASE p = 4
  <2>1. After(pass, d) = (d \ {"func"}) \cup Given(d, "func", {"llvm", "cast"})
    BY <1>5, ToLLVMPasses
  <2> QED
    BY <1>0, <1>5, <2>1 DEF InLLVM, OnLoops, Given
<1>6. CASE p = 5
  <2>1. After(pass, d) = (d \ {"index"}) \cup Given(d, "index", {"llvm", "cast"})
    BY <1>6, ToLLVMPasses
  <2> QED
    BY <1>0, <1>6, <2>1 DEF InLLVM, OnLoops, Given
<1>7. CASE p = 6
  <2>1. After(pass, d) = (d \ {"math"}) \cup Given(d, "math", {"llvm", "cast"})
    BY <1>7, ToLLVMPasses
  <2> QED
    BY <1>0, <1>7, <2>1 DEF InLLVM, OnLoops, Given
<1> QED
  BY <1>1, <1>2, <1>3, <1>4, <1>5, <1>6, <1>7

LEMMA LLVMCallStep ==
  ASSUME mode \in LoopMode, NEW d \in SUBSET Dialect,
         NEW p \in 0..(Finalized + 1), InLLVM(p, d)
  PROVE  InLLVM(p + 1, After(buildLLVMLoweringStage(mode)[p + 1], d))
<1> DEFINE s == buildLLVMLoweringStage(mode)
<1> SUFFICES InLLVM(p + 1, After(s[p + 1], d))
  OBVIOUS
<1>1. /\ s[1] = "expand-strided-metadata" /\ s[2] = "lower-affine"
      /\ s[3] = "convert-arith-to-llvm" /\ s[4] = "convert-cf-to-llvm"
      /\ s[5] = "convert-func-to-llvm" /\ s[6] = "convert-index-to-llvm"
      /\ s[7] = "convert-math-to-llvm"
      /\ s[Finalized] = "finalize-memref-to-llvm"
      /\ s[Finalized + 1] = "reconcile-unrealized-casts"
      /\ s[Finalized + 2] = "custom-llvm-cleanup"
      /\ mode = "Vector" => s[8] = "convert-vector-to-llvm"
  <2>1. CASE mode = "Vector"
    <3>1. s = buildLLVMLoweringStage("Vector") /\ Finalized = 9
      BY <2>1 DEF Finalized
    <3> HIDE DEF s
    <3> QED
      BY <3>1, LLVMVectorPasses
  <2>2. CASE mode # "Vector"
    <3>1. Finalized = 8 /\ mode \in LoopMode \ {"Vector"}
      BY <2>2 DEF Finalized
    <3> QED
      BY <2>2, <3>1, LLVMScalarPasses
  <2> QED
    BY <2>1, <2>2
<1>2. Finalized \in {8, 9} /\ (Finalized = 9 <=> mode = "Vector")
  BY DEF Finalized
<1> HIDE DEF s
<1>3. CASE p \in 0..6
  <2>1. \/ p = 0 /\ s[p + 1] = "expand-strided-metadata"
        \/ p = 1 /\ s[p + 1] = "lower-affine"
        \/ p = 2 /\ s[p + 1] = "convert-arith-to-llvm"
        \/ p = 3 /\ s[p + 1] = "convert-cf-to-llvm"
        \/ p = 4 /\ s[p + 1] = "convert-func-to-llvm"
        \/ p = 5 /\ s[p + 1] = "convert-index-to-llvm"
        \/ p = 6 /\ s[p + 1] = "convert-math-to-llvm"
    BY <1>1, <1>3
  <2> QED
    BY <1>3, <2>1, LLVMHeadStep
<1>4. CASE p = 7 /\ mode = "Vector"
  <2>1. After(s[p + 1], d) = (d \ {"vector"}) \cup Given(d, "vector", {"llvm", "cast"})
    BY <1>1, <1>4, ToLLVMPasses
  <2>2. p < Finalized /\ p + 1 < Finalized
    BY <1>2, <1>4
  <2> QED
    BY <1>4, <2>1, <2>2 DEF InLLVM, OnLoops, Given
<1>5. CASE p + 1 \in Finalized..(Finalized + 2)
  <2>1. \/ p + 1 = Finalized /\ s[p + 1] = "finalize-memref-to-llvm"
        \/ p = Finalized /\ s[p + 1] = "reconcile-unrealized-casts"
        \/ p > Finalized /\ s[p + 1] = "custom-llvm-cleanup"
    BY <1>1, <1>2, <1>5
  <2>2. p \in Nat /\ p + 1 >= Finalized
    BY <1>2, <1>5
  <2> QED
    BY <2>1, <2>2, LLVMTailStep
<1>6. p \in 0..6 \/ (p = 7 /\ mode = "Vector") \/ p + 1 \in Finalized..(Finalized + 2)
  BY <1>2
<1> QED
  BY <1>3, <1>4, <1>5, <1>6

\* How many passes a call has.
CallLength(k) == CASE k = 1 -> 20
                   [] k = 2 -> 11
                   [] k = 3 -> 5
                   [] k = 4 -> LoopPasses
                   [] k = 5 -> Finalized + 2

LEMMA CallLengths ==
  ASSUME mode \in LoopMode, NEW k \in 1..5
  PROVE  Len(PassesOfCall(k, mode, cli.stopAfter)) = CallLength(k)
<1> DEFINE s == PassesOfCall(k, mode, cli.stopAfter)
<1>1. CASE k = 1
  BY <1>1 DEF PassesOfCall, CallLength, buildFusionStage
<1>2. CASE k = 2
  <2>1. s = buildStableHloToLinalgStage \o buildLinalgOptimizationStage
    BY <1>2 DEF PassesOfCall
  <2> QED
    BY <1>2, <2>1, LinalgPasses DEF CallLength
<1>3. CASE k = 3
  BY <1>3 DEF PassesOfCall, CallLength, buildBufferizationStage
<1>4. CASE k = 4
  <2>1. s = buildLoopModeStage(mode, cli.stopAfter) /\ CallLength(k) = LoopPasses
    BY <1>4 DEF PassesOfCall, CallLength
  <2>2. CASE mode \in {"ScfSeq", "ScfPar"}
    BY <2>1, <2>2 DEF buildLoopModeStage, LoopPasses, buildLowerToLoopsStage,
                      buildVectorizationStage
  <2>3. CASE mode = "Affine"
    <3>1. s = buildAffineStage(cli.stopAfter = "Affine")
      BY <2>1, <2>3 DEF buildLoopModeStage
    <3>2. CASE cli.stopAfter = "Affine"
      <4>1. (cli.stopAfter = "Affine") = TRUE
        BY <3>2
      <4>2. s = <<"convert-bufferization-to-memref",
                  "convert-linalg-to-affine-loops", "custom-affine-opt">>
        BY <3>1, <4>1, AffineStopPasses, Zenon
      <4> HIDE DEF s
      <4>3. Len(s) = 3
        BY <4>2
      <4> QED
        BY <2>1, <2>3, <3>2, <4>3 DEF LoopPasses, s
    <3>3. CASE cli.stopAfter # "Affine"
      <4>1. (cli.stopAfter = "Affine") = FALSE
        BY <3>3
      <4>2. s = <<"convert-bufferization-to-memref",
                  "convert-linalg-to-affine-loops", "custom-affine-opt",
                  "lower-affine", "convert-scf-to-cf">>
        BY <3>1, <4>1, AffinePasses, Zenon
      <4> HIDE DEF s
      <4>3. Len(s) = 5
        BY <4>2
      <4> QED
        BY <2>1, <2>3, <3>3, <4>3 DEF LoopPasses, s
    <3> QED
      BY <3>2, <3>3
  <2>4. CASE mode = "Vector"
    <3>1. s = buildVectorDialectStage(cli.stopAfter = "Vector")
      BY <2>1, <2>4 DEF buildLoopModeStage
    <3>2. CASE cli.stopAfter = "Vector"
      <4>1. (cli.stopAfter = "Vector") = TRUE
        BY <3>2
      <4>2. s = <<"convert-bufferization-to-memref",
                  "convert-linalg-to-affine-loops", "affine-super-vectorize",
                  "custom-vector-opt">>
        BY <3>1, <4>1, VectorStopPasses, Zenon
      <4> HIDE DEF s
      <4>3. Len(s) = 4
        BY <4>2
      <4> QED
        BY <2>1, <2>4, <3>2, <4>3 DEF LoopPasses, s
    <3>3. CASE cli.stopAfter # "Vector"
      <4>1. (cli.stopAfter = "Vector") = FALSE
        BY <3>3
      <4>2. s = <<"convert-bufferization-to-memref",
                  "convert-linalg-to-affine-loops", "affine-super-vectorize",
                  "custom-vector-opt", "lower-affine", "convert-scf-to-cf">>
        BY <3>1, <4>1, VectorPasses, Zenon
      <4> HIDE DEF s
      <4>3. Len(s) = 6
        BY <4>2
      <4> QED
        BY <2>1, <2>4, <3>3, <4>3 DEF LoopPasses, s
    <3> QED
      BY <3>2, <3>3
  <2> QED
    BY <2>2, <2>3, <2>4 DEF LoopMode
<1>5. CASE k = 5
  <2>1. s = buildLLVMLoweringStage(mode) /\ CallLength(k) = Finalized + 2
    BY <1>5 DEF PassesOfCall, CallLength
  <2>2. CASE mode = "Vector"
    BY <2>1, <2>2, LLVMVectorPasses DEF Finalized
  <2>3. CASE mode # "Vector"
    BY <2>1, <2>3, LLVMScalarPasses DEF Finalized
  <2> QED
    BY <2>2, <2>3
<1> QED
  BY <1>1, <1>2, <1>3, <1>4, <1>5

\* One pass of any call.
LEMMA PassStep ==
  ASSUME mode \in LoopMode, NEW k \in 1..5, NEW d \in SUBSET Dialect,
         NEW p \in 0..(CallLength(k) - 1), Within(k, p, d)
  PROVE  Within(k, p + 1, After(PassesOfCall(k, mode, cli.stopAfter)[p + 1], d))
<1> DEFINE s == PassesOfCall(k, mode, cli.stopAfter)
<1>1. CASE k = 1
  <2>1. p + 1 \in 1..20 /\ s = buildFusionStage
    BY <1>1 DEF CallLength, PassesOfCall
  <2> QED
    BY <1>1, <2>1, FusionKeeps DEF Within
<1>2. CASE k = 2
  <2>1. p \in 0..10
        /\ s = buildStableHloToLinalgStage \o buildLinalgOptimizationStage
    BY <1>2 DEF CallLength, PassesOfCall
  <2>2. InLinalg(p, d)
    BY <1>2 DEF Within
  <2>3. InLinalg(p + 1, After(s[p + 1], d))
    BY <2>1, <2>2, LinalgCallStep
  <2> QED
    BY <1>2, <2>3 DEF Within
<1>3. CASE k = 3
  <2>1. p \in 0..4 /\ s = buildBufferizationStage
    BY <1>3 DEF CallLength, PassesOfCall
  <2>2. InBufferize(p, d)
    BY <1>3 DEF Within
  <2>3. InBufferize(p + 1, After(s[p + 1], d))
    BY <2>1, <2>2, BufferizeCallStep
  <2> QED
    BY <1>3, <2>3 DEF Within
<1>4. CASE k = 4
  <2>1. p \in 0..(LoopPasses - 1)
    BY <1>4 DEF CallLength
  <2>2. InLoopMode(p, d)
    BY <1>4 DEF Within
  <2> QED
    BY <1>4, <2>1, <2>2, LoopModeStep DEF Within
<1>5. CASE k = 5
  <2>1. p \in 0..(Finalized + 1)
    BY <1>5 DEF CallLength, Finalized
  <2>2. InLLVM(p, d) /\ s = buildLLVMLoweringStage(mode)
    BY <1>5 DEF Within, PassesOfCall
  <2>3. InLLVM(p + 1, After(s[p + 1], d))
    BY <2>1, <2>2, LLVMCallStep
  <2> QED
    BY <1>5, <2>3 DEF Within
<1> QED
  BY <1>1, <1>2, <1>3, <1>4, <1>5

(***************************************************************************)
(* Between calls, and the whole step.                                      *)
(***************************************************************************)
LEMMA EndLink ==
  ASSUME mode \in LoopMode, NEW k \in 1..5, NEW d, Within(k, CallLength(k), d)
  PROVE  Past(k, d)
<1>1. CASE k = 1
  BY <1>1 DEF Within, Past
<1>2. CASE k = 2
  BY <1>2 DEF Within, Past, CallLength, InLinalg
<1>3. CASE k = 3
  BY <1>3 DEF Within, Past, CallLength, InBufferize
<1>4. CASE k = 4
  BY <1>4 DEF Within, Past, CallLength
<1>5. CASE k = 5
  BY <1>5 DEF Within, Past, CallLength, InLLVM, Finalized
<1> QED
  BY <1>1, <1>2, <1>3, <1>4, <1>5

LEMMA BeginLink ==
  ASSUME parsePipelineOptions, NEW k \in 1..5, NEW d,
         k <= PlanLength(cli.stopAfter), Past(k - 1, d)
  PROVE  Within(k, 0, d)
<1>1. CASE k = 1
  BY <1>1 DEF Within, Past
<1>2. CASE k = 2
  BY <1>2 DEF Within, Past, InLinalg
<1>3. CASE k = 3
  BY <1>3 DEF Within, Past, InBufferize
<1>4. CASE k = 4
  BY <1>4 DEF Within, Past, InLoopMode
<1>5. CASE k = 5
  <2>1. mode \in LoopMode /\ cli.stopAfter \in {"LLVM", "All"}
    BY <1>5 DEF parsePipelineOptions, PlanLength, Stage
  <2>2. LoopPasses = FullLoopPasses /\ InLoopMode(LoopPasses, d)
    BY <1>5, <2>1 DEF Past, LoopPasses, FullLoopPasses, LoopMode
  <2>3. /\ FullLoopPasses \in 4..6 /\ (mode = "Affine" => FullLoopPasses = 5)
        /\ (mode = "Vector" => FullLoopPasses = 6)
    BY <2>1 DEF FullLoopPasses, LoopMode
  <2>4. /\ OnLoops(d) /\ "affine" \notin d /\ "scf" \notin d
        /\ mode # "Vector" => "vector" \notin d
    BY <2>2, <2>3 DEF InLoopMode
  <2> QED
    BY <1>5, <2>4 DEF Within, InLLVM, Finalized
<1> QED
  BY <1>1, <1>2, <1>3, <1>4, <1>5

LEMMA SameShapes ==
  ASSUME [Next]_vars
  PROVE  /\ \A k, p, d : Within(k, p, d)' <=> Within(k, p, d)
         /\ \A k, d : Past(k, d)' <=> Past(k, d)
<1>1. cli' = cli /\ mode' = mode
  BY SameOptions
<1>2. LoopPasses' = LoopPasses /\ FullLoopPasses' = FullLoopPasses
      /\ Finalized' = Finalized
  BY <1>1 DEF LoopPasses, FullLoopPasses, Finalized
<1>3. /\ \A p, d : InLoopMode(p, d)' <=> InLoopMode(p, d)
      /\ \A p, d : InLLVM(p, d)' <=> InLLVM(p, d)
  BY <1>1, <1>2 DEF InLoopMode, InLLVM
<1> QED
  BY <1>1, <1>2, <1>3 DEF Within, Past

LEMMA IrStep ==
  ASSUME PlainInputs
  PROVE  TypeOK /\ PlanInv /\ TodoInv /\ IrInv /\ [Next]_vars => IrInv'
<1> SUFFICES ASSUME TypeOK, PlanInv, TodoInv, IrInv, [Next]_vars
             PROVE  IrInv'
  OBVIOUS
<1>1. /\ cli' = cli /\ mode' = mode
      /\ \A k : PassesOfCall(k, mode, cli.stopAfter)'
                  = PassesOfCall(k, mode, cli.stopAfter)
  BY SameOptions
<1>0. cli' = cli
  BY SameOptions
<1>2. /\ \A k, p, d : Within(k, p, d)' <=> Within(k, p, d)
      /\ \A k, d : Past(k, d)' <=> Past(k, d)
  BY SameShapes
<1>3. call \in 1..6 /\ ir \in SUBSET Dialect
  BY DEF TypeOK
<1>4. CASE BeginStage
  <2>1. /\ pc = "driver" /\ pc' = "stage" /\ call \in 1..5 /\ call' = call
        /\ todo' = Scheduled /\ ir' = ir /\ code' = code /\ code = "none"
        /\ runThroughStage(StageCalls(mode)[call], cli.stopAfter)
    BY <1>4, CallRange DEF BeginStage, Scheduled
  <2>2. /\ parsePipelineOptions /\ mode \in LoopMode /\ cli.stopAfter \in Stage
        /\ Scheduled \in Seq(Pass)
    BY <2>1, InPipeline DEF Scheduled
  <2>3. call <= PlanLength(cli.stopAfter) /\ PlanLength(cli.stopAfter) \in 1..5
    BY <2>1, <2>2, RunThroughPlan DEF parsePipelineOptions
  <2>4. Past(call - 1, ir)
    BY <2>1, <2>3 DEF IrInv, Made
  <2>5. Within(call, 0, ir)
    BY <2>1, <2>2, <2>3, <2>4, BeginLink
  <2>6. Scheduled' = Scheduled /\ Len(Scheduled) - Len(todo') = 0
    BY <1>1, <2>1, <2>2 DEF Scheduled
  <2> QED
    BY <1>0, <1>2, <2>1, <2>5, <2>6 DEF IrInv, Succeeded
<1>5. CASE SkipStage
  <2>1. /\ pc = "driver" /\ pc' = "driver" /\ call \in 1..5 /\ call' = call + 1
        /\ ir' = ir /\ code' = code /\ code = "none"
        /\ ~runThroughStage(StageCalls(mode)[call], cli.stopAfter)
    BY <1>5, CallRange DEF SkipStage
  <2>2. /\ parsePipelineOptions /\ mode \in LoopMode /\ cli.stopAfter \in Stage
    BY <2>1, InPipeline
  <2>3. call > PlanLength(cli.stopAfter) /\ PlanLength(cli.stopAfter) \in 1..5
    BY <2>1, <2>2, RunThroughPlan DEF parsePipelineOptions
  <2>4. Made' = Made
    BY <1>1, <2>1, <2>3 DEF Made
  <2> QED
    BY <1>0, <1>2, <2>1, <2>4 DEF IrInv, Succeeded
<1>6. CASE RunPass
  <2>1. /\ pc = "stage" /\ pc' = "stage" /\ call' = call /\ code' = code
        /\ todo # <<>> /\ todo' = Tail(todo) /\ ir' = After(Head(todo), ir)
        /\ call \in 1..5 /\ code = "none"
    BY <1>6, CallRange DEF RunPass
  <2>2. mode \in LoopMode /\ Scheduled \in Seq(Pass)
    BY <2>1, InPipeline DEF Scheduled
  <2> DEFINE p == Len(Scheduled) - Len(todo)
  <2>3. /\ todo \in Seq(Pass) /\ Len(todo) \in 1..Len(Scheduled)
        /\ todo = Suffix(Scheduled, Len(todo))
    BY <2>1, <2>2 DEF TodoInv
  <2>4. Head(todo) = Scheduled[Len(Scheduled) - Len(todo) + 1]
    BY <2>2, <2>3, SuffixStep
  <2>5. Len(Scheduled) = CallLength(call)
    BY <2>1, <2>2, CallLengths DEF Scheduled
  <2>6. /\ p \in 0..(CallLength(call) - 1)
        /\ Len(Scheduled) - Len(Tail(todo)) = p + 1
    BY <2>2, <2>3, <2>5
  <2>7. Within(call, p, ir)
    BY <2>1 DEF IrInv
  <2>8. Within(call, p + 1, After(PassesOfCall(call, mode, cli.stopAfter)[p + 1], ir))
    BY <1>3, <2>1, <2>2, <2>6, <2>7, PassStep
  <2>9. ir' = After(PassesOfCall(call, mode, cli.stopAfter)[p + 1], ir)
    BY <2>1, <2>4 DEF Scheduled
  <2>10. Scheduled' = Scheduled
    BY <1>1, <2>1 DEF Scheduled
  <2> QED
    BY <1>0, <1>2, <2>1, <2>6, <2>8, <2>9, <2>10 DEF IrInv, Succeeded
<1>7. CASE EndStage
  <2>1. /\ pc = "stage" /\ pc' = "driver" /\ call' = call + 1 /\ code' = code
        /\ code = "none" /\ todo = <<>> /\ call \in 1..5 /\ ir' = ir
    BY <1>7, CallRange DEF EndStage
  <2>2. /\ parsePipelineOptions /\ mode \in LoopMode /\ cli.stopAfter \in Stage
    BY <2>1, InPipeline
  <2>3. call <= PlanLength(cli.stopAfter) /\ PlanLength(cli.stopAfter) \in 1..5
    BY <2>1, <2>2, RunThroughPlan DEF parsePipelineOptions, PlanInv
  <2>4. Len(Scheduled) = CallLength(call) /\ Len(Scheduled) \in Nat
    BY <2>1, <2>2, CallLengths, PassesType DEF Scheduled
  <2>5. Within(call, CallLength(call), ir)
    <3>1. Len(Scheduled) - Len(todo) = CallLength(call)
      BY <2>1, <2>4
    <3> QED
      BY <2>1, <3>1 DEF IrInv
  <2>6. Past(call, ir)
    BY <2>1, <2>2, <2>5, EndLink
  <2>7. Made' = call
    BY <1>1, <2>1, <2>3 DEF Made
  <2> QED
    BY <1>0, <1>2, <2>1, <2>6, <2>7 DEF IrInv, Succeeded
<1>8. CASE LoadModule
  <2>1. /\ pc = "main" /\ pc' \in {"entry", "options"} /\ ir' \in InputIRs
        /\ code' = code /\ ~cli.listPasses
    BY <1>8 DEF LoadModule
  <2>2. OnGraph(ir')
    BY <2>1, InputAssumption DEF PlainInputs, OnGraph
  <2>3. code = "none"
    BY <2>1, CallRange
  <2> QED
    BY <1>0, <2>1, <2>2, <2>3 DEF IrInv, Succeeded
<1>9. CASE /\ UNCHANGED <<call, todo, ir>>
           /\ \/ pc' = "exit" /\ code' \in {"1", "crash"}
              \/ pc' = "exit" /\ code' = "0" /\ cli.listPasses
              \/ pc' = "exit" /\ code' = "0" /\ pc = "driver" /\ call = 6
              \/ pc' = "exit" /\ code' = "0" /\ pc = "invoke"
              \/ pc' = pc /\ code' = code
              \/ pc = "entry" /\ pc' = "options" /\ code' = code
              \/ pc = "options" /\ pc' = "driver" /\ code' = code
              \/ pc = "driver" /\ pc' = "invoke" /\ code' = code /\ call = 6
  <2>1. Made' = Made /\ Scheduled' = Scheduled
    BY <1>1, <1>9 DEF Made, Scheduled
  <2>2. pc \in {"driver", "invoke"} => PlanLength(cli.stopAfter) \in 1..5
    BY InPipeline, RunThroughPlan DEF parsePipelineOptions
  <2>3. \/ pc = "driver" /\ call = 6
        \/ pc = "invoke"
        => Past(PlanLength(cli.stopAfter), ir)
    BY <2>2 DEF IrInv, Made, PlanInv
  <2>4. pc = "options" /\ pc' = "driver" => Past(Made, ir)
    <3> SUFFICES ASSUME pc = "options", pc' = "driver" PROVE Past(Made, ir)
      OBVIOUS
    <3>1. call = 1
      BY DEF PlanInv
    <3>2. parsePipelineOptions
      BY <1>9 DEF Next, Main, RunJit, RunPipeline, vars, ListPasses, NoModule,
         LoadModule, ParseOptions, PrintModule, EntryAccepted, EntryRejected,
         EntryWithoutResult, CreateEngine, EngineFails, Invoke, InvokeCrashes,
         InvokeFails,
         BeginStage, SkipStage, RunPass, FailPass, AbortPass, EndStage, Exit
    <3>3. PlanLength(cli.stopAfter) \in 1..5
      BY <3>2, RunThroughPlan DEF parsePipelineOptions
    <3>4. Made = 0
      BY <3>1, <3>3 DEF Made
    <3> QED
      BY <3>4 DEF IrInv, Past
  <2>5. pc # "exit" => code = "none"
    BY CallRange
  <2> QED
    BY <1>1, <1>2, <1>9, <2>1, <2>3, <2>4, <2>5 DEF IrInv, Succeeded
<1> QED
  BY <1>4, <1>5, <1>6, <1>7, <1>8, <1>9, StepShape

LEMMA IrHolds ==
  ASSUME PlainInputs
  PROVE  Spec => [](TypeOK /\ PlanInv /\ TodoInv /\ IrInv)
<1>1. Init => IrInv
  BY DEF Init, IrInv, Succeeded
<1>2. Spec => [](TypeOK /\ PlanInv /\ TodoInv /\ RanInv)
  BY RanHolds
<1> QED
  BY <1>1, <1>2, IrStep, PTL DEF Spec

(***************************************************************************)
(* What a completed stage removed stays removed. A position in a call      *)
(* rules out what the calls before it removed.                             *)
(***************************************************************************)
LEMMA WithinRemoves ==
  ASSUME mode \in LoopMode, NEW d, NEW k \in 1..5, NEW p \in Nat,
         Within(k, p, d),
         NEW j \in 1..(k - 1)
  PROVE  d \cap RemovedBy(StageCalls(mode)[j]) = {}
<1>1. /\ RemovedBy(StageCalls(mode)[1]) = {}
      /\ RemovedBy(StageCalls(mode)[2]) = {"stablehlo", "chlo"}
      /\ RemovedBy(StageCalls(mode)[3]) = {"tensor"}
      /\ RemovedBy(StageCalls(mode)[4]) \subseteq {"linalg", "bufferization", "scf"}
  BY DEF RemovedBy, StageCalls, loopModeStage, LoopMode
<1>2. CASE k = 1 \/ k = 2
  BY <1>1, <1>2
<1>3. CASE k = 3
  <2>1. d \cap {"stablehlo", "chlo"} = {}
    BY <1>3 DEF Within, InBufferize, OnTensors, OnMemrefs
  <2>2. j = 1 \/ j = 2
    BY <1>3
  <2> QED
    BY <1>1, <2>1, <2>2
<1>4. CASE k = 4
  <2>1. d \cap {"stablehlo", "chlo", "tensor"} = {}
    BY <1>4 DEF Within, InLoopMode, OnMemrefs, OnLoops
  <2>2. j = 1 \/ j = 2 \/ j = 3
    BY <1>4
  <2> QED
    BY <1>1, <2>1, <2>2
<1>5. CASE k = 5
  <2>1. d \cap {"stablehlo", "chlo", "tensor", "linalg", "bufferization", "scf"} = {}
    BY <1>5 DEF Within, InLLVM, OnLoops
  <2>2. j = 1 \/ j = 2 \/ j = 3 \/ j = 4
    BY <1>5
  <2> QED
    BY <1>1, <2>1, <2>2
<1> QED
  BY <1>2, <1>3, <1>4, <1>5

LEMMA PastRemoves ==
  ASSUME mode \in LoopMode, cli.stopAfter \in Stage,
         validatePipelineOptions(cli.stopAfter, mode),
         NEW d, NEW k \in 0..PlanLength(cli.stopAfter), Past(k, d),
         NEW j \in 1..k
  PROVE  d \cap RemovedBy(StageCalls(mode)[j]) = {}
<1>0. k \in 0..5
  <2>1. PlanLength(cli.stopAfter) \in 1..5
    BY RunThroughPlan
  <2> QED
    BY <2>1
<1>1. /\ RemovedBy(StageCalls(mode)[1]) = {}
      /\ RemovedBy(StageCalls(mode)[2]) = {"stablehlo", "chlo"}
      /\ RemovedBy(StageCalls(mode)[3]) = {"tensor"}
      /\ RemovedBy(StageCalls(mode)[5]) = {}
  BY DEF RemovedBy, StageCalls
<1>2. CASE k = 0 \/ k = 1
  <2>1. j = 1
    BY <1>2
  <2> QED
    BY <1>1, <2>1
<1>3. CASE k = 2
  <2>1. j = 1 \/ j = 2
    BY <1>3
  <2> QED
    BY <1>1, <1>3, <2>1 DEF Past, OnTensors
<1>4. CASE k = 3
  <2>1. j = 1 \/ j = 2 \/ j = 3
    BY <1>4
  <2> QED
    BY <1>1, <1>4, <2>1 DEF Past, OnMemrefs
<1>5. CASE k = 4
  <2>1. j = 1 \/ j = 2 \/ j = 3 \/ j = 4
    BY <1>5
  <2>2. InLoopMode(LoopPasses, d) /\ LoopPasses \in 3..6
    BY <1>5 DEF Past, LoopPasses, LoopMode
  <2>3. /\ OnLoops(d)
        /\ mode \in {"ScfSeq", "ScfPar"} => "scf" \notin d
    <3>1. LoopPasses >= 3 /\ (mode \in {"ScfSeq", "ScfPar"} =>
                                LoopPasses = 4 /\ FullLoopPasses = 4)
      BY DEF LoopPasses, FullLoopPasses, LoopMode
    <3> QED
      BY <2>2, <3>1 DEF InLoopMode
  <2>4. /\ mode \in {"ScfSeq", "ScfPar"} =>
             RemovedBy(StageCalls(mode)[4]) = {"linalg", "bufferization", "scf"}
        /\ mode \in {"Affine", "Vector"} =>
             RemovedBy(StageCalls(mode)[4]) = {"linalg", "bufferization"}
    BY DEF RemovedBy, StageCalls, loopModeStage
  <2>5. mode \in {"ScfSeq", "ScfPar"} \/ mode \in {"Affine", "Vector"}
    BY DEF LoopMode
  <2> QED
    BY <1>1, <2>1, <2>3, <2>4, <2>5 DEF OnLoops
<1>6. CASE k = 5
  <2>1. d = {"llvm"}
    BY <1>6 DEF Past
  <2>2. RemovedBy(StageCalls(mode)[4]) \subseteq {"linalg", "bufferization", "scf"}
    BY DEF RemovedBy, StageCalls, loopModeStage, LoopMode
  <2>3. j = 1 \/ j = 2 \/ j = 3 \/ j = 4 \/ j = 5
    BY <1>6
  <2> QED
    BY <1>1, <2>1, <2>2, <2>3
<1> QED
  BY <1>0, <1>2, <1>3, <1>4, <1>5, <1>6

\* As an invariant: the module and the stages completed, whatever comes next.
Removed == \A i \in DOMAIN done : ir \cap RemovedBy(done[i]) = {}

LEMMA RemovedWhileRunning ==
  TypeOK /\ PlanInv /\ TodoInv /\ IrInv /\ pc # "exit" => Removed
<1> SUFFICES ASSUME TypeOK, PlanInv, TodoInv, IrInv, pc # "exit"
             PROVE  Removed
  OBVIOUS
<1>1. CASE pc \in {"main", "entry", "options"}
  BY <1>1 DEF PlanInv, Removed
<1>2. CASE pc \in {"driver", "stage", "invoke"}
  <2>1. /\ parsePipelineOptions /\ mode \in LoopMode /\ cli.stopAfter \in Stage
        /\ validatePipelineOptions(cli.stopAfter, mode)
    BY <1>2, InPipeline DEF parsePipelineOptions
  <2>2. PlanLength(cli.stopAfter) \in 1..5 /\ call \in 1..6
    BY <2>1, RunThroughPlan, CallRange
  <2>3. done = [i \in 1..Made |-> StageCalls(mode)[i]]
    BY <2>1 DEF PlanInv, Made
  <2>4. Made \in 0..PlanLength(cli.stopAfter)
    BY <2>2 DEF Made
  <2>5. CASE pc \in {"driver", "invoke"}
    <3>1. Past(Made, ir)
      BY <2>5 DEF IrInv
    <3>2. \A i \in 1..Made : ir \cap RemovedBy(StageCalls(mode)[i]) = {}
      BY <2>1, <2>4, <3>1, PastRemoves
    <3> QED
      BY <2>3, <3>2 DEF Removed
  <2>6. CASE pc = "stage"
    <3>1. /\ call \in 1..5 /\ Made = call - 1
      <4>1. call \in 1..5 /\ runThroughStage(StageCalls(mode)[call], cli.stopAfter)
        BY <2>6, CallRange DEF PlanInv
      <4>2. call <= PlanLength(cli.stopAfter)
        BY <2>1, <4>1, RunThroughPlan
      <4> QED
        BY <2>2, <4>1, <4>2 DEF Made
    <3>2. Len(Scheduled) - Len(todo) \in Nat
      <4>1. Scheduled \in Seq(Pass)
        BY <2>1, <3>1, PassesType DEF Scheduled
      <4>2. Len(Scheduled) \in Nat /\ Len(todo) \in 0..Len(Scheduled)
        BY <2>6, <4>1 DEF TodoInv
      <4> QED
        BY <4>2
    <3>3. Within(call, Len(Scheduled) - Len(todo), ir)
      BY <2>6 DEF IrInv
    <3>5. \A i \in 1..(call - 1) : ir \cap RemovedBy(StageCalls(mode)[i]) = {}
      BY <2>1, <3>1, <3>2, <3>3, WithinRemoves
    <3> QED
      BY <2>3, <3>1, <3>5 DEF Removed
  <2> QED
    BY <1>2, <2>5, <2>6
<1> QED
  BY <1>1, <1>2 DEF TypeOK

(***************************************************************************)
(* No pass brings back a dialect that a completed stage has lowered away,  *)
(* in any loop mode, for every input without affine and vector ops: each   *)
(* stage may rely on what the stages before it removed.                    *)
(***************************************************************************)
THEOREM LoweringNeverUndone ==
  ASSUME PlainInputs
  PROVE  Spec => NoRaise
<1>1. TypeOK /\ PlanInv /\ TodoInv /\ IrInv /\ [Next]_vars
      /\ (TypeOK /\ PlanInv /\ TodoInv /\ IrInv)' /\ Removed
      => Removed' /\ (\A i \in DOMAIN done : ir' \cap RemovedBy(done[i]) = {})
  <2> SUFFICES ASSUME TypeOK, PlanInv, TodoInv, IrInv, [Next]_vars, Removed,
                      (TypeOK /\ PlanInv /\ TodoInv /\ IrInv)'
               PROVE  /\ Removed'
                      /\ \A i \in DOMAIN done : ir' \cap RemovedBy(done[i]) = {}
    OBVIOUS
  <2>1. CASE pc' = "exit"
    <3>1. done' = done /\ ir' = ir
      <4>1. ~BeginStage /\ ~SkipStage /\ ~RunPass /\ ~EndStage /\ ~LoadModule
        BY <2>1 DEF BeginStage, SkipStage, RunPass, EndStage, LoadModule
      <4> QED
        BY <4>1, StepShape
    <3> QED
      BY <3>1 DEF Removed
  <2>2. CASE pc' # "exit"
    <3>1. Removed'
      <4>1. (TypeOK /\ PlanInv /\ TodoInv /\ IrInv /\ pc # "exit" => Removed)'
        BY RemovedWhileRunning, PTL
      <4> QED
        BY <2>2, <4>1
    <3>2. \A i \in DOMAIN done : i \in DOMAIN done' /\ done'[i] = done[i]
      <4>1. CASE EndStage
        <5>1. done' = Append(done, StageCalls(mode)[call]) /\ done \in Seq(Stage)
          BY <4>1 DEF EndStage, TypeOK
        <5> QED
          BY <5>1
      <4>2. CASE done' = done
        BY <4>2
      <4> QED
        BY <4>1, <4>2, StepShape DEF BeginStage, SkipStage, RunPass
    <3> QED
      BY <3>1, <3>2 DEF Removed
  <2> QED
    BY <2>1, <2>2
<1>2. Init => Removed
  BY DEF Init, Removed
<1> QED
  BY <1>1, <1>2, IrHolds, PTL DEF Spec, NoRaise

-----------------------------------------------------------------------------
(***************************************************************************)
(* The ladder: the level at every position of every call.                  *)
(***************************************************************************)
LevelAt(k, p) ==
  CASE k = 1 -> 0
    [] k = 2 -> IF p < 3 THEN 0 ELSE 1
    [] k = 3 -> IF p = 0 THEN 1 ELSE 2
    [] k = 4 -> IF p < (IF mode = "ScfPar" THEN 3 ELSE 2) THEN 2 ELSE 3
    [] k = 5 -> IF p <= Finalized THEN 3 ELSE 4

LEMMA LevelIs ==
  ASSUME NEW d
  PROVE  /\ OnGraph(d) => LevelOf(d) = 0
         /\ OnTensors(d) => LevelOf(d) = 1
         /\ OnMemrefs(d) => LevelOf(d) = 2
         /\ OnLoops(d) => LevelOf(d) = 3
         /\ d = {"llvm", "cast"} => LevelOf(d) = 3
         /\ d = {"llvm"} => LevelOf(d) = 4
<1>1. OnGraph(d) => LevelOf(d) = 0
  BY DEF OnGraph, LevelOf
<1>2. OnTensors(d) => LevelOf(d) = 1
  BY DEF OnTensors, LevelOf
<1>3. OnMemrefs(d) => LevelOf(d) = 2
  BY DEF OnMemrefs, LevelOf
<1>4. OnLoops(d) => LevelOf(d) = 3
  BY DEF OnLoops, LevelOf
<1>5. d = {"llvm", "cast"} => LevelOf(d) = 3
  BY DEF LevelOf
<1>6. d = {"llvm"} => LevelOf(d) = 4
  BY DEF LevelOf
<1> QED
  BY <1>1, <1>2, <1>3, <1>4, <1>5, <1>6

LEMMA LevelWithin ==
  ASSUME NEW k \in 1..5, NEW p \in Nat, NEW d, Within(k, p, d)
  PROVE  LevelOf(d) = LevelAt(k, p)
<1>1. CASE k = 1
  BY <1>1, LevelIs DEF Within, LevelAt
<1>2. CASE k = 2
  BY <1>2, LevelIs DEF Within, LevelAt, InLinalg
<1>3. CASE k = 3
  BY <1>3, LevelIs DEF Within, LevelAt, InBufferize
<1>4. CASE k = 4
  <2> DEFINE c == IF mode = "ScfPar" THEN 3 ELSE 2
  <2>1. InLoopMode(p, d)
    BY <1>4 DEF Within
  <2>2. p < c => OnMemrefs(d)
    BY <2>1 DEF InLoopMode
  <2>3. ~(p < c) => OnLoops(d)
    BY <2>1 DEF InLoopMode
  <2>4. LevelAt(k, p) = IF p < c THEN 2 ELSE 3
    BY <1>4 DEF LevelAt
  <2> QED
    BY <2>2, <2>3, <2>4, LevelIs
<1>5. CASE k = 5
  <2>1. InLLVM(p, d) /\ Finalized \in {8, 9}
    BY <1>5 DEF Within, Finalized
  <2>2. p < Finalized => OnLoops(d)
    BY <2>1 DEF InLLVM
  <2>3. ~(p < Finalized) => d = IF p = Finalized THEN {"llvm", "cast"} ELSE {"llvm"}
    BY <2>1 DEF InLLVM
  <2>4. LevelAt(k, p) = IF p <= Finalized THEN 3 ELSE 4
    BY <1>5 DEF LevelAt
  <2>5. p < Finalized \/ p = Finalized \/ p > Finalized
    BY <2>1
  <2>6. CASE p < Finalized
    BY <2>1, <2>2, <2>4, <2>6, LevelIs
  <2>7. CASE p = Finalized
    BY <2>1, <2>3, <2>4, <2>7, LevelIs
  <2>8. CASE p > Finalized
    BY <2>1, <2>3, <2>4, <2>8, LevelIs
  <2> QED
    BY <2>5, <2>6, <2>7, <2>8
<1> QED
  BY <1>1, <1>2, <1>3, <1>4, <1>5

\* A pass descends by one rung at most, and never below its call's.
LEMMA LevelStep ==
  ASSUME NEW k \in 1..5, NEW p \in Nat
  PROVE  /\ LevelAt(k, p + 1) \in {LevelAt(k, p), LevelAt(k, p) + 1}
         /\ LevelAt(k, p) \in 0..(k - 1)
<1>0. Finalized \in {8, 9}
  BY DEF Finalized
<1>1. CASE k \in {1, 2, 3}
  BY <1>1 DEF LevelAt
<1>2. CASE k = 4
  BY <1>2 DEF LevelAt
<1>3. CASE k = 5
  BY <1>0, <1>3 DEF LevelAt
<1> QED
  BY <1>1, <1>2, <1>3

LEMMA LevelPast ==
  ASSUME parsePipelineOptions, Past(PlanLength(cli.stopAfter), ir)
  PROVE  LevelOf(ir) = GoalOf
<1>1. cli.stopAfter \in Stage /\ mode \in LoopMode
  BY DEF parsePipelineOptions
<1>2. GoalOf = PlanLength(cli.stopAfter) - 1 /\ PlanLength(cli.stopAfter) \in 1..5
  BY <1>1 DEF GoalOf, PlanLength, Stage
<1>3. CASE PlanLength(cli.stopAfter) \in {1, 2, 3, 5}
  <2> DEFINE n == PlanLength(cli.stopAfter)
  <2>0. Past(n, ir) /\ GoalOf = n - 1
    BY <1>2
  <2> HIDE DEF n
  <2>1. CASE n = 1
    BY <2>0, <2>1, LevelIs DEF Past
  <2>2. CASE n = 2
    BY <2>0, <2>2, LevelIs DEF Past
  <2>3. CASE n = 3
    BY <2>0, <2>3, LevelIs DEF Past
  <2>4. CASE n = 5
    BY <2>0, <2>4, LevelIs DEF Past
  <2> QED
    BY <1>3, <2>1, <2>2, <2>3, <2>4 DEF n
<1>4. CASE PlanLength(cli.stopAfter) = 4
  <2>1. InLoopMode(LoopPasses, ir)
    BY <1>4 DEF Past
  <2>2. LoopPasses \in 3..6
    BY <1>1 DEF LoopPasses, LoopMode
  <2>3. OnLoops(ir)
    BY <2>1, <2>2 DEF InLoopMode
  <2> QED
    BY <1>2, <1>4, <2>3, LevelIs
<1> QED
  BY <1>2, <1>3, <1>4

(***************************************************************************)
(* The refinement, step by step: a pass is Descend or a stutter, the end   *)
(* of a run is Succeed, Fail or Answer, and nothing else moves.            *)
(***************************************************************************)
LEMMA LadderStep ==
  TypeOK /\ PlanInv /\ TodoInv /\ IrInv /\ [Next]_vars /\ IrInv'
    => [Ladder!Next]_(Ladder!ladder)
<1> SUFFICES ASSUME TypeOK, PlanInv, TodoInv, IrInv, [Next]_vars, IrInv'
             PROVE  [Ladder!Next]_(Ladder!ladder)
  OBVIOUS
<1>1. GoalOf' = GoalOf
  BY SameOptions DEF GoalOf
<1>2. cli' = cli
  BY SameOptions
<1>3. pc # "exit" => code = "none" /\ StatusOf = "running"
  BY CallRange DEF StatusOf
<1>4. CASE BeginStage \/ SkipStage \/ EndStage
  <2>1. UNCHANGED <<ir, code>>
    BY <1>4 DEF BeginStage, SkipStage, EndStage
  <2>2. LevelOf(ir)' = LevelOf(ir) /\ StatusOf' = StatusOf
    BY <1>2, <2>1 DEF LevelOf, StatusOf
  <2> QED
    BY <1>1, <2>2 DEF Ladder!ladder
<1>5. CASE RunPass
  <2>1. /\ pc = "stage" /\ pc' = "stage" /\ call' = call /\ code' = code
        /\ todo # <<>> /\ todo' = Tail(todo) /\ call \in 1..5
    BY <1>5, CallRange DEF RunPass
  <2>2. /\ parsePipelineOptions /\ mode \in LoopMode /\ cli.stopAfter \in Stage
        /\ Scheduled \in Seq(Pass)
    BY <2>1, InPipeline DEF Scheduled
  <2>3. call <= PlanLength(cli.stopAfter)
        /\ PlanLength(cli.stopAfter) \in 1..5
    BY <2>1, <2>2, RunThroughPlan DEF parsePipelineOptions, PlanInv
  <2>4. GoalOf = PlanLength(cli.stopAfter) - 1
    BY <2>2 DEF GoalOf, PlanLength, Stage
  <2> DEFINE p == Len(Scheduled) - Len(todo)
  <2>5. todo \in Seq(Pass) /\ Len(todo) \in 1..Len(Scheduled)
    BY <2>1, <2>2 DEF TodoInv
  <2>6. p \in Nat /\ Len(Scheduled) - Len(Tail(todo)) = p + 1
    <3> DEFINE n == Len(todo)
               m == Len(Scheduled)
    <3>1. Len(Tail(todo)) = n - 1 /\ m \in Nat /\ n \in 1..m
      BY <2>1, <2>2, <2>5
    <3> HIDE DEF n, m
    <3>2. m - n \in Nat /\ m - (n - 1) = (m - n) + 1
      BY <3>1
    <3> QED
      BY <3>1, <3>2 DEF n, m
  <2>7. LevelOf(ir) = LevelAt(call, p)
    BY <2>1, <2>6, LevelWithin DEF IrInv
  <2>8. LevelOf(ir') = LevelAt(call, p + 1)
    <3>1. Within(call, p + 1, ir')
      <4>1. Scheduled' = Scheduled
        BY <2>1, SameOptions DEF Scheduled
      <4>2. (pc = "stage" => Within(call, Len(Scheduled) - Len(todo), ir))'
        BY DEF IrInv
      <4>3. \A k, q, d : Within(k, q, d)' <=> Within(k, q, d)
        BY SameShapes
      <4>4. Len(Scheduled') - Len(todo') = p + 1
        BY <2>1, <2>6, <4>1
      <4> QED
        BY <2>1, <4>2, <4>3, <4>4
    <3> QED
      BY <2>1, <2>6, <3>1, LevelWithin
  <2>9. /\ LevelOf(ir') \in {LevelOf(ir), LevelOf(ir) + 1}
        /\ LevelOf(ir') \in 0..(call - 1) /\ LevelOf(ir) \in 0..(call - 1)
    <3>1. p + 1 \in Nat
      BY <2>6
    <3> QED
      BY <2>1, <2>6, <2>7, <2>8, <3>1, LevelStep
  <2>10. LevelOf(ir)' = LevelOf(ir')
    BY DEF LevelOf
  <2>11. StatusOf' = StatusOf /\ StatusOf = "running"
    BY <1>2, <1>3, <2>1 DEF StatusOf
  <2>12. CASE LevelOf(ir') = LevelOf(ir)
    BY <1>1, <2>10, <2>11, <2>12 DEF Ladder!ladder
  <2>13. CASE LevelOf(ir') = LevelOf(ir) + 1
    <3>1. LevelOf(ir) < GoalOf
      BY <2>1, <2>3, <2>4, <2>9, <2>13
    <3>2. Ladder!Descend
      BY <1>1, <2>10, <2>11, <2>13, <3>1 DEF Ladder!Descend
    <3> QED
      BY <3>2 DEF Ladder!Next
  <2> QED
    BY <2>9, <2>12, <2>13
<1>6. CASE LoadModule
  <2>1. pc = "main" /\ pc' \in {"entry", "options"} /\ code' = code
    BY <1>6 DEF LoadModule
  <2>2. ir = {} /\ OnGraph(ir')
    <3>1. (pc \in {"entry", "options"} => OnGraph(ir))'
      BY DEF IrInv
    <3> QED
      BY <2>1, <3>1 DEF IrInv, OnGraph
  <2>3. LevelOf(ir) = 0 /\ LevelOf(ir') = 0
    BY <2>2, LevelIs DEF LevelOf
  <2>4. LevelOf(ir)' = LevelOf(ir) /\ StatusOf' = StatusOf
    BY <1>2, <2>1, <2>3 DEF LevelOf, StatusOf
  <2> QED
    BY <1>1, <2>4 DEF Ladder!ladder
<1>7. CASE /\ ir' = ir
           /\ \/ pc' = "exit" /\ code' \in {"1", "crash"}
              \/ pc' = "exit" /\ code' = "0" /\ cli.listPasses
              \/ pc' = "exit" /\ code' = "0" /\ pc = "driver" /\ call = 6
              \/ pc' = "exit" /\ code' = "0" /\ pc = "invoke"
              \/ pc' = pc /\ code' = code
              \/ pc = "entry" /\ pc' = "options" /\ code' = code
              \/ pc = "options" /\ pc' = "driver" /\ code' = code
              \/ pc = "driver" /\ pc' = "invoke" /\ code' = code /\ call = 6
  <2>1. LevelOf(ir)' = LevelOf(ir)
    BY <1>7 DEF LevelOf
  <2>2. CASE code' = code
    <3>1. StatusOf' = StatusOf
      BY <1>2, <2>2 DEF StatusOf
    <3> QED
      BY <1>1, <2>1, <3>1 DEF Ladder!ladder
  <2>3. CASE code' # code /\ code' \in {"1", "crash"}
    <3>1. StatusOf' = "failed"
      BY <2>3 DEF StatusOf
    <3>2. pc # "exit" => Ladder!Fail
      BY <1>1, <1>3, <2>1, <3>1 DEF Ladder!Fail
    <3>3. pc # "exit"
      BY <2>3 DEF Next, Main, RunJit, RunPipeline, vars, ListPasses, NoModule,
         LoadModule, ParseOptions, PrintModule, EntryAccepted, EntryRejected,
         EntryWithoutResult, CreateEngine, EngineFails, Invoke, InvokeCrashes,
         InvokeFails,
         BeginStage, SkipStage, RunPass, FailPass, AbortPass, EndStage, Exit
    <3> QED
      BY <3>2, <3>3 DEF Ladder!Next
  <2>4. CASE code' # code /\ code' = "0"
    <3>1. /\ ListPasses \/ PrintModule \/ Invoke
          /\ pc # "exit"
      BY <2>4 DEF Next, Main, RunJit, RunPipeline, vars, ListPasses, NoModule,
         LoadModule, ParseOptions, PrintModule, EntryAccepted, EntryRejected,
         EntryWithoutResult, CreateEngine, EngineFails, Invoke, InvokeCrashes,
         InvokeFails,
         BeginStage, SkipStage, RunPass, FailPass, AbortPass, EndStage, Exit
    <3>2. StatusOf = "running"
      BY <1>3, <3>1
    <3>3. CASE ListPasses
      <4>1. pc = "main" /\ cli.listPasses
        BY <3>3 DEF ListPasses
      <4>2. LevelOf(ir) = 0
        BY <4>1 DEF IrInv, LevelOf
      <4>3. StatusOf' = "answered"
        BY <1>2, <2>4, <4>1 DEF StatusOf
      <4>4. Ladder!Answer
        BY <1>1, <2>1, <3>2, <4>2, <4>3 DEF Ladder!Answer
      <4> QED
        BY <4>4 DEF Ladder!Next
    <3>4. CASE PrintModule \/ Invoke
      <4>1. \/ pc = "driver" /\ call = 6
            \/ pc = "invoke"
        BY <3>4 DEF PrintModule, Invoke
      <4>2. parsePipelineOptions /\ cli.stopAfter \in Stage
            /\ PlanLength(cli.stopAfter) \in 1..5 /\ call = 6
        <5>1. parsePipelineOptions
          BY <4>1, InPipeline
        <5>2. PlanLength(cli.stopAfter) \in 1..5
          BY <5>1, RunThroughPlan DEF parsePipelineOptions
        <5> QED
          BY <4>1, <5>1, <5>2 DEF PlanInv, parsePipelineOptions
      <4>3. Past(PlanLength(cli.stopAfter), ir)
        BY <4>1, <4>2 DEF IrInv, Made
      <4>4. LevelOf(ir) = GoalOf
        BY <4>2, <4>3, LevelPast
      <4>5. StatusOf' = "ok"
        <5>1. ~cli.listPasses
          BY <4>1 DEF IrInv
        <5> QED
          BY <1>2, <2>4, <5>1 DEF StatusOf
      <4>6. Ladder!Succeed
        BY <1>1, <2>1, <3>2, <4>4, <4>5 DEF Ladder!Succeed
      <4> QED
        BY <4>6 DEF Ladder!Next
    <3> QED
      BY <3>1, <3>3, <3>4
  <2> QED
    BY <1>7, <2>2, <2>3, <2>4
<1> QED
  BY <1>4, <1>5, <1>6, <1>7, StepShape

(***************************************************************************)
(* The staged driver refines the ladder, as far as safety goes: for every  *)
(* input without affine and vector ops it starts at the top, each pass     *)
(* goes down one rung or none and never below the requested one, and a run *)
(* that succeeds stands on that rung.                                      *)
(***************************************************************************)
THEOREM DriverDescends ==
  ASSUME PlainInputs
  PROVE  Spec => Ladder!Init /\ [][Ladder!Next]_(Ladder!ladder)
<1>1. Init => Ladder!Init
  <2> SUFFICES ASSUME Init PROVE Ladder!Init
    OBVIOUS
  <2>1. LevelOf(ir) = 0 /\ StatusOf = "running"
    BY DEF Init, LevelOf, StatusOf
  <2>2. cli.stopAfter \in Stage \cup {"unknown"}
    BY DEF Init, CommandLine
  <2>3. GoalOf \in 0..4
    BY <2>2 DEF GoalOf, Stage
  <2> QED
    BY <2>1, <2>3 DEF Ladder!Init
<1> QED
  BY <1>1, IrHolds, LadderStep, PTL DEF Spec
=============================================================================
