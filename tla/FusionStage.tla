---------------------------- MODULE FusionStage ----------------------------
(***************************************************************************)
(* buildFusionStage (PipelineStages.cpp): the twenty function passes of    *)
(* the fusion stage, run one after the other on one function. A pass       *)
(* applies its patterns greedily: to any match, in any order, until none   *)
(* is left. Ops without a use are erased on the way. pipe-demo builds the  *)
(* stage with buildFusionStage, mlir-opt with the plugin's own copy of it. *)
(***************************************************************************)
EXTENDS FusionPatterns

CONSTANT Programs   \* a sequence of source programs: ops, results, KV role and
                    \* the boundaries the stage is to record in it

-----------------------------------------------------------------------------
(***************************************************************************)
(* What the parser and the verifier grant the first pass: operands come    *)
(* before the ops that use them, in the number their op takes, the two     *)
(* operands of an elementwise op have one shape and a reduction is smaller *)
(* than what it reduces; and no pass has marked an op yet. Of shapes only  *)
(* what the softmax matcher builds on is kept: a denominator broadcast to  *)
(* its numerator's shape.                                                  *)
(***************************************************************************)
Arity(n) ==
  /\ n.op \in {"arg", "constant"} => n.args = <<>>
  /\ n.op \in {"broadcast", "transpose", "exponential", "negate", "reduce"} =>
       Len(n.args) = 1
  /\ n.op \in {"add", "subtract", "multiply", "divide", "maximum", "dot_general",
              "convolution", "batch_norm"} => Len(n.args) = 2
  /\ n.op \in {"exponential", "subtract"} => n.attr = <<>>

ShapesFit(g) ==
  \A v \in DOMAIN g :
    LET args == g[v].args
    IN  /\ g[v].op = "divide" /\ g[args[2]].op = "broadcast" =>
             g[args[2]].shape = g[args[1]].shape
        /\ g[v].op = "reduce" => g[v].shape # g[args[1]].shape

\* The dimensions along which a broadcast's operand, or the parameters of a
\* batch norm, lie in the result.
DimsFit(g) ==
  \A v \in DOMAIN g : g[v].op \in {"broadcast", "batch_norm"} =>
    LET small == g[g[v].args[IF g[v].op = "broadcast" THEN 1 ELSE 2]].shape
    IN  /\ g[v].attr \in Seq(Nat) /\ DOMAIN g[v].attr = DOMAIN small
        /\ \A d \in DOMAIN small : g[v].attr[d] + 1 \in DOMAIN g[v].shape

Verified(p) ==
  /\ p.ops \in Seq({p.ops[v] : v \in DOMAIN p.ops})
  /\ p.ret \in Seq(DOMAIN p.ops)
  /\ \A v \in DOMAIN p.ops :
       LET n == p.ops[v]
       IN  /\ n = Node(n.op, n.args, n.attr, n.shape, {})
           /\ n.args \in Seq(1..(v - 1))
           /\ Arity(n)
  /\ ShapesFit(p.ops) /\ DimsFit(p.ops)

ASSUME ProgramsAssumption == \A s \in DOMAIN Programs : Verified(Programs[s])

VARIABLES
  source,      \* the program the stage was given: a number in Programs
  entry,       \* the tool that runs the stage
  at,          \* the position in Stage of the pass that runs; 0 before the
               \* pipeline is built
  outcome,     \* "running"; "aborted": the compiler dereferenced a null op;
               \* "rejected": the IR verifier refused a pass's result;
               \* "refused": the pipeline was given options
  kvBoundary   \* the function carries aicom.kvcache_boundary

vars == <<graph, ret, source, entry, at, outcome, kvBoundary>>

Pipeline == INSTANCE PipelineStages

Stage == IF entry = "mlir-opt" THEN Pipeline!registerFusionPipeline
                               ELSE Pipeline!buildFusionStage

Done == at > Len(Stage)

Running == at \in DOMAIN Stage /\ outcome = "running"

Runs(p) == Running /\ Stage[at] = p

Init == /\ source \in DOMAIN Programs
        /\ graph = Programs[source].ops /\ ret = Programs[source].ret
        /\ entry \in {"pipe-demo", "mlir-opt"}
        /\ at = 0 /\ outcome = "running" /\ kvBoundary = FALSE

BuildPipeline == /\ at = 0 /\ outcome = "running"
                 /\ at' = 1
                 /\ UNCHANGED <<graph, ret, source, entry, outcome, kvBoundary>>

\* The plugin's pipeline takes no options: mlir-opt stops before any pass.
RefuseOptions == /\ at = 0 /\ entry = "mlir-opt" /\ outcome = "running"
                 /\ outcome' = "refused"
                 /\ UNCHANGED <<graph, ret, source, entry, at, kvBoundary>>

-----------------------------------------------------------------------------
(***************************************************************************)
(* The matches of each pass.                                               *)
(***************************************************************************)
ConvBNs == {v \in Ops("batch_norm") : isConvBN(v)}
ReluMaxes == {v \in Ops("maximum") : isReluMax(v)}
SoftmaxDivides ==
  {v \in Unmarked("divide", "softmax_canonicalized") : isSoftmaxDivide(v)}
RmsNormMultiplies ==
  {v \in Unmarked("multiply", "rmsnorm_canonicalized") : isRmsNormMultiply(v)}
AttentionDots ==
  {v \in Unmarked("dot_general", "scaled_dot_product_attention") :
     isAttentionDot(v)}
FlashDots ==
  {v \in Unmarked("dot_general", "flash_tile") : isMarkedAttention(v)}
RoPEAdds == {v \in Unmarked("add", "rope_canonicalized") : isRoPEAdd(v)}
LayerNormAdds ==
  {v \in Unmarked("add", "layernorm_canonicalized") : isLayerNormAdd(v)}
GeluMultiplies ==
  {v \in Unmarked("multiply", "gelu_canonicalized") : isGeluMultiply(v)}
SwiGLUMultiplies ==
  {v \in Unmarked("multiply", "swiglu_canonicalized") : isSwiGLUMultiply(v)}
QdqDots ==
  {v \in Unmarked("dot_general", "qdq_matmul_canonicalized") : isQdqDot(v)}
MatMulBiasAdds ==
  {v \in Unmarked("add", "matmul_bias_fused") : isMatMulBiasAdd(v)}
NullBiasAdds == {v \in Unmarked("add", "matmul_bias_fused") : derefsNullOp(v)}
HorizontalGemms ==
  {v \in Unmarked("concatenate", "horizontal_gemm_fused") : isHorizontalGemm(v)}
ChainMaxes == {v \in Ops("maximum") : ChainSides(v) # {}}
ChainClamps ==
  {v \in Unmarked("clamp", "elementwise_chain_fused") : isElementwiseClamp(v)}
ProducerConsumerExps ==
  {v \in Unmarked("exponential", "producer_consumer_fused") :
     isProducerConsumerExp(v)}
LayoutBridges == {v \in Unmarked("transpose", "layout_folded") : isLayoutBridge(v)}
NchwFolds == {v \in Ops("transpose") : isNchwFold(v)}
SimpleFolds == {v \in Ops("transpose") : isSimpleFold(v)}
IdentityBroadcasts == {v \in Ops("broadcast") : isIdentityBroadcast(v)}
NestedBroadcasts == {v \in Ops("broadcast") : isNestedBroadcast(v)}
ConstantPairs == {v \in Ops("add") \cup Ops("multiply") : isConstantPair(v)}
KVFunction == Programs[source].role \in {"K", "V"} /\ ~kvBoundary

\* What is left for a pass to do.
Work(p) ==
  CASE p = "conv-bn-fusion" -> ConvBNs
    [] p = "conv-bn-relu-fusion" -> ReluMaxes
    [] p = "softmax-legalize" -> SoftmaxDivides
    [] p = "rmsnorm-legalize" -> RmsNormMultiplies
    [] p = "attention-legalize" -> AttentionDots
    [] p = "flash-attention-tile" -> FlashDots
    [] p = "rope-legalize" -> RoPEAdds
    [] p = "layernorm-legalize" -> LayerNormAdds
    [] p = "gelu-legalize" -> GeluMultiplies
    [] p = "swiglu-legalize" -> SwiGLUMultiplies
    [] p = "qdq-legalize" -> QdqDots
    [] p = "matmul-bias-fusion" -> MatMulBiasAdds \cup NullBiasAdds
    [] p = "horizontal-gemm-fusion" -> HorizontalGemms
    [] p = "elementwise-chain-legalize" -> ChainMaxes \cup ChainClamps
    [] p = "producer-consumer-legalize" -> ProducerConsumerExps
    [] p = "layout-bridge-legalize" -> LayoutBridges
    [] p = "layout-fold" -> NchwFolds \cup SimpleFolds
    [] p = "kvcache-legalize" -> IF KVFunction THEN {0} ELSE {}
    [] p = "broadcast-simplify" -> IdentityBroadcasts \cup NestedBroadcasts
    [] p = "stablehlo-constant-fold" -> ConstantPairs

-----------------------------------------------------------------------------
(***************************************************************************)
(* The passes that annotate: the root of a match gets the pass's mark.     *)
(***************************************************************************)
UnchangedStage == UNCHANGED <<source, entry, at, outcome, kvBoundary>>

Annotate(matches, mark) ==
  /\ \E v \in matches : graph' = [graph EXCEPT ![v].marks = @ \cup {mark}]
  /\ UNCHANGED ret
  /\ UnchangedStage

SoftmaxLegalize == /\ Runs("softmax-legalize")
                   /\ Annotate(SoftmaxDivides, "softmax_canonicalized")

RMSNormLegalize == /\ Runs("rmsnorm-legalize")
                   /\ Annotate(RmsNormMultiplies, "rmsnorm_canonicalized")

AttentionLegalize == /\ Runs("attention-legalize")
                     /\ Annotate(AttentionDots, "scaled_dot_product_attention")

FlashAttentionTile == /\ Runs("flash-attention-tile")
                      /\ Annotate(FlashDots, "flash_tile")

RoPELegalize == /\ Runs("rope-legalize")
                /\ Annotate(RoPEAdds, "rope_canonicalized")

LayerNormLegalize == /\ Runs("layernorm-legalize")
                     /\ Annotate(LayerNormAdds, "layernorm_canonicalized")

GeluLegalize == /\ Runs("gelu-legalize")
                /\ Annotate(GeluMultiplies, "gelu_canonicalized")

SwiGLULegalize == /\ Runs("swiglu-legalize")
                  /\ Annotate(SwiGLUMultiplies, "swiglu_canonicalized")

QdqLegalize == /\ Runs("qdq-legalize")
               /\ Annotate(QdqDots, "qdq_matmul_canonicalized")

MatMulBiasFusion == /\ Runs("matmul-bias-fusion")
                    /\ Annotate(MatMulBiasAdds, "matmul_bias_fused")

HorizontalGemmFusion == /\ Runs("horizontal-gemm-fusion")
                        /\ Annotate(HorizontalGemms, "horizontal_gemm_fused")

ElementwiseChainClamp == /\ Runs("elementwise-chain-legalize")
                         /\ Annotate(ChainClamps, "elementwise_chain_fused")

LayoutBridgeLegalize == /\ Runs("layout-bridge-legalize")
                        /\ Annotate(LayoutBridges, "layout_folded")

\* The null op is dereferenced while the pattern is still matching.
MatMulBiasAbort == /\ Runs("matmul-bias-fusion")
                   /\ NullBiasAdds # {}
                   /\ outcome' = "aborted"
                   /\ UNCHANGED <<graph, ret, source, entry, at, kvBoundary>>

-----------------------------------------------------------------------------
(***************************************************************************)
(* The passes that rewrite. Rewritten(e) makes the edited graph e current; *)
(* EraseIfUnused is the eraseOp that follows a replaceOp.                  *)
(***************************************************************************)
Rewritten(e) == graph' = e.g /\ ret' = e.r /\ UnchangedStage

EraseIfUnused_always(e, v) == EraseOp(e, v)

EraseIfUnused(e, v) == IF Uses(e.g, e.r, v) = {} THEN EraseOp(e, v) ELSE e

New(name, args, attr, v) == Node(name, args, attr, Shape(v), {})
NewMarked(name, args, attr, v, mark) == Node(name, args, attr, Shape(v), {mark})

ConvBNFusion ==
  /\ Runs("conv-bn-fusion")
  /\ \E bn \in ConvBNs :
        LET conv == Arg(bn, 1)
            params == Attr(Arg(bn, 2))
            weight == Arg(conv, 2)
        IN  Rewritten(EraseIfUnused(ReplaceOp(bn,
              <<New("constant", <<>>, Scaled(Attr(weight), params), weight),
                New("convolution", <<Arg(conv, 1), Fresh(1)>>, Attr(conv), conv),
                New("constant", <<>>, Shift(params), Arg(bn, 2)),
                New("broadcast", <<Fresh(3)>>, Attr(bn), bn),
                New("add", <<Fresh(2), Fresh(4)>>, <<>>, bn)>>), conv))

Infinity(v) == New("constant", <<>>, <<"inf">>, v)

ConvBNReluFusion ==
  /\ Runs("conv-bn-relu-fusion")
  /\ \E max \in ReluMaxes :
        LET i == ZeroSide(max)
        IN  Rewritten(ReplaceOp(max,
              <<Infinity(max),
                New("clamp", <<Arg(max, i), Arg(max, 3 - i), Fresh(1)>>, <<>>,
                    max)>>))

\* The left operand is looked for as the zero first.
ElementwiseReluFold ==
  /\ Runs("elementwise-chain-legalize")
  /\ \E max \in ChainMaxes :
        LET i == IF 2 \in ChainSides(max) THEN 2 ELSE 1
        IN  Rewritten(ReplaceOp(max,
              <<New("constant", <<>>, <<"zero">>, max),
                Infinity(max),
                NewMarked("clamp", <<Fresh(1), Arg(max, i), Fresh(2)>>, <<>>, max,
                          "elementwise_chain_fused")>>))

\* exp(scores - max) becomes exp(scores) * exp(-max), whichever side of the
\* subtraction the scores are on.
ProducerConsumerLegalize ==
  /\ Runs("producer-consumer-legalize")
  /\ \E exp \in ProducerConsumerExps :
        LET sub == Arg(exp, 1)
            i == ScoresSide(sub)
        IN  Rewritten(EraseIfUnused(ReplaceOp(exp,
              <<New("negate", <<Arg(sub, 3 - i)>>, <<>>, exp),
                New("exponential", <<Fresh(1)>>, <<>>, exp),
                New("exponential", <<Arg(sub, i)>>, <<>>, exp),
                NewMarked("multiply", <<Fresh(3), Fresh(2)>>, <<>>, exp,
                          "producer_consumer_fused")>>), sub))

\* The NHWC convolution takes the NCHW input as it is.
LayoutFoldNchw ==
  /\ Runs("layout-fold")
  /\ \E t \in NchwFolds :
        LET conv == Arg(t, 1)
            weight == Arg(conv, 2)
        IN  Rewritten(EraseIfUnused(ReplaceOp(t,
              <<Node("transpose", <<weight>>, <<2, 3, 1, 0>>,
                     Permuted(Shape(weight), <<2, 3, 1, 0>>), {}),
                Node("convolution", <<Arg(conv, 1), Fresh(1)>>, <<"b01f">>,
                     Shape(t), graph[conv].marks \cup {"layout_folded"})>>),
              conv))

LayoutFoldSimple_unmarked ==
  /\ Runs("layout-fold")
  /\ \E t \in SimpleFolds : Rewritten(ReplaceBy(t, Arg(t, 1)))

\* The transpose is dropped and the convolution marked in its place.
LayoutFoldSimple ==
  /\ Runs("layout-fold")
  /\ \E t \in SimpleFolds :
        LET e == ReplaceBy(t, Arg(t, 1))
        IN  Rewritten([e EXCEPT !.g[Arg(t, 1)].marks = @ \cup {"layout_folded"}])

KVCacheLegalize ==
  /\ Runs("kvcache-legalize")
  /\ KVFunction
  /\ kvBoundary' = TRUE
  /\ UNCHANGED <<graph, ret, source, entry, at, outcome>>

BroadcastIdentity ==
  /\ Runs("broadcast-simplify")
  /\ \E b \in IdentityBroadcasts : Rewritten(ReplaceBy(b, Arg(b, 1)))

BroadcastNested ==
  /\ Runs("broadcast-simplify")
  /\ \E outer \in NestedBroadcasts :
        Rewritten(ReplaceOp(outer,
          <<NewMarked("broadcast", <<Arg(Arg(outer, 1), 1)>>, composedDims(outer),
                      outer, "broadcast_simplified")>>))

StablehloConstantFold ==
  /\ Runs("stablehlo-constant-fold")
  /\ \E v \in ConstantPairs :
        Rewritten(ReplaceOp(v,
          <<New("constant", <<>>,
                <<Op(v)>> \o Attr(Arg(v, 1)) \o Attr(Arg(v, 2)), v)>>))

-----------------------------------------------------------------------------
\* The greedy driver erases an op without a use whenever it comes to one; the
\* KV-cache pass does not use the driver.
EraseDead ==
  /\ Running /\ Stage[at] # "kvcache-legalize"
  /\ \E v \in Dead : graph' = [n \in DOMAIN graph \ {v} |-> graph[n]]
  /\ UNCHANGED ret
  /\ UnchangedStage

\* The driver finds nothing more to do.
AtFixpoint == Running /\ Work(Stage[at]) = {} /\ Dead = {}

\* A pass ends at its fixpoint if the verifier accepts what it has made.
EndPass ==
  /\ AtFixpoint
  /\ \A conv \in Ops("convolution") : WellTyped(conv)
  /\ at' = at + 1
  /\ UNCHANGED <<graph, ret, source, entry, outcome, kvBoundary>>

VerifierRejects ==
  /\ AtFixpoint
  /\ \E conv \in Ops("convolution") : ~WellTyped(conv)
  /\ outcome' = "rejected"
  /\ UNCHANGED <<graph, ret, source, entry, at, kvBoundary>>

Next ==
  \/ BuildPipeline \/ RefuseOptions
  \/ ConvBNFusion \/ ConvBNReluFusion
  \/ SoftmaxLegalize \/ RMSNormLegalize \/ AttentionLegalize
  \/ FlashAttentionTile \/ RoPELegalize \/ LayerNormLegalize
  \/ GeluLegalize \/ SwiGLULegalize \/ QdqLegalize
  \/ MatMulBiasFusion \/ MatMulBiasAbort \/ HorizontalGemmFusion
  \/ ElementwiseReluFold \/ ElementwiseChainClamp
  \/ ProducerConsumerLegalize \/ LayoutBridgeLegalize
  \/ LayoutFoldNchw \/ LayoutFoldSimple \/ KVCacheLegalize
  \/ BroadcastIdentity \/ BroadcastNested \/ StablehloConstantFold
  \/ EraseDead \/ EndPass \/ VerifierRejects

\* Each pass runs to its end; the stage never waits.
Spec == Init /\ [][Next]_vars /\ WF_vars(Next)

-----------------------------------------------------------------------------
\* Every operand and every result is an op that still exists: no pass erases
\* an op that something uses (eraseOp in ConvBNFusion, ProducerConsumerLegalize
\* and LayoutFold).
NoUseOfErased ==
  /\ \A n \in DOMAIN graph, i \in 1..5 :
        i \in DOMAIN graph[n].args => graph[n].args[i] \in DOMAIN graph
  /\ \A i \in DOMAIN ret : ret[i] \in DOMAIN graph

Computed == Computes(graph, ret)

\* A convolution folded with its transpose: the layout of its input is lost.
FoldsLayout == LayoutFoldNchw \/ LayoutFoldSimple

\* A subtraction with the dot_general on its right is turned round, for the one
\* exponential that uses it.
TurnsShift ==
  /\ ProducerConsumerLegalize
  /\ \E exp \in ProducerConsumerExps :
       /\ ScoresSide(Arg(exp, 1)) = 2
       /\ Computed' =
            Computes([graph EXCEPT ![Arg(exp, 1)].args = <<@[2], @[1]>>], ret)

\* A permuting broadcast to its operand's shape is taken for an identity.
DropsPermutation ==
  /\ BroadcastIdentity
  /\ \E b \in IdentityBroadcasts :
       Computed' =
         Computes([graph EXCEPT ![b].attr = [d \in DOMAIN Shape(b) |-> d - 1]], ret)

\* No rewrite, annotation or erasure of the stage changes the value the
\* function returns, as long as arithmetic is exact, but for three: folding a
\* layout, and the two whose other value is given above
\* (ProducerConsumerLegalize.cpp:49, BroadcastSimplify.cpp:38).
PreservesFunction ==
  [][\/ Computed' = Computed
     \/ FoldsLayout \/ TurnsShift \/ DropsPermutation]_vars

\* A flash-attention tile is on a dot_general marked as attention, whose left
\* operand is a divide marked as softmax, after another dot_general: three
\* passes build this and none of the later rewrites may break it.
FlashIsAttention ==
  \A v \in DOMAIN graph : "flash_tile" \in graph[v].marks =>
    /\ isMarkedAttention(v)
    /\ Is(Arg(v, 1), "divide")
    /\ "softmax_canonicalized" \in graph[Arg(v, 1)].marks
    /\ \E scores \in Ops("dot_general") : scores < v

\* A program of these ops divides by the reduction v, and v is no sum.
DividesByOther(ops, v) ==
  /\ v \in DOMAIN ops /\ ops[v].op = "reduce" /\ ops[v].attr # <<"sum">>
  /\ \E d \in DOMAIN ops :
       LET b == ops[d].args[2]
       IN  /\ ops[d].op = "divide"
           /\ ops[b].op = "broadcast" /\ ops[b].args[1] = v

(***************************************************************************)
(* A divide marked as softmax divides by a reduction of its own numerator, *)
(* also after ProducerConsumerLegalize has replaced the exponential in     *)
(* both places. The reduction is a sum, as Passes.td:36 has it, unless the *)
(* function the stage was given already divides by it: isReduceOf does not *)
(* look at what a reduction does (SoftmaxLegalize.cpp:17-22), and marks    *)
(* the divide by a maximum also.                                           *)
(***************************************************************************)
SoftmaxSharesNumerator ==
  \A d \in DOMAIN graph : "softmax_canonicalized" \in graph[d].marks =>
    LET total == Arg(Arg(d, 2), 1)
    IN  /\ Is(total, "reduce") /\ Arg(total, 1) = Arg(d, 1)
        /\ Attr(total) = <<"sum">> \/ DividesByOther(Programs[source].ops, total)

\* The rewrites that may give a pass that has ended something to do: the product
\* a ProducerConsumerLegalize makes may be under a maximum, a folded layout
\* brings a convolution under another transpose, a broadcast may have hidden an
\* operand from a matcher, and a folded sum may be a bias or a weight.
Reopens ==
  \/ ProducerConsumerLegalize \/ FoldsLayout
  \/ BroadcastIdentity \/ BroadcastNested \/ StablehloConstantFold

\* No other step gives a pass that has ended something to do. This rests on the
\* order of the passes, which two files spell out: it holds whichever tool runs
\* the stage.
EndedPassesStayDone ==
  [][Reopens \/ \A i \in 1..(at - 1) : Work(Stage[i])' \subseteq Work(Stage[i])]_vars

Boundaries ==
  {"softmax_canonicalized", "rmsnorm_canonicalized", "gelu_canonicalized",
   "scaled_dot_product_attention", "flash_tile", "rope_canonicalized",
   "layernorm_canonicalized", "swiglu_canonicalized", "layout_folded",
   "qdq_matmul_canonicalized", "matmul_bias_fused", "horizontal_gemm_fused",
   "elementwise_chain_fused", "producer_consumer_fused"}

Recorded == {m \in Boundaries : \E v \in DOMAIN graph : m \in graph[v].marks}

\* A boundary one pass has recorded is still there after every later rewrite,
\* for the stages and tests that look for it.
BoundariesSurvive == [][Recorded \subseteq Recorded']_vars

\* At the end of the stage each program carries the boundaries the tests look
\* for in it, whichever tool runs the stage and in whatever order the rewrites
\* went: each matcher has found what the passes before it left.
RecordsBoundaries == Done => Programs[source].boundaries \subseteq Recorded

\* Every pass reaches its fixpoint: the stage ends, is refused or has aborted.
StageEnds == <>(Done \/ outcome # "running")

\* The compiler does not dereference a null op (Passes.td: MatMulBiasFusion
\* matches an add with a constant bias; another add is simply not a match).
NeverAborts == outcome # "aborted"
=============================================================================
