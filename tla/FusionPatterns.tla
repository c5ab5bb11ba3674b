--------------------------- MODULE FusionPatterns ---------------------------
(***************************************************************************)
(* The subgraphs the fusion passes look for: one operator per matcher of   *)
(* the *Legalize, *Fusion, Layout* and BroadcastSimplify sources, named    *)
(* after it. An operator tells whether the op v is the root of a match.    *)
(***************************************************************************)
EXTENDS StablehloGraph

Unmarked_all(name, mark) == Ops(name)

\* Ops a pattern may still annotate: the guard on the mark each one starts with.
Unmarked(name, mark) == {v \in Ops(name) : mark \notin graph[v].marks}

isReduceOf_any(v, x) == Is(v, "reduce")

\* SoftmaxLegalize: a reduction, of any kind, of x.
isReduceOf(v, x) == Is(v, "reduce") /\ Arg(v, 1) = x

isSoftmaxDivide(d) ==
  /\ Is(Arg(d, 1), "exponential")
  /\ Is(Arg(d, 2), "broadcast")
  /\ isReduceOf(Arg(Arg(d, 2), 1), Arg(d, 1))

\* AttentionLegalize: a dot_general earlier in the block.
hasPriorDotGeneral(dot) == \E other \in Ops("dot_general") : other < dot

isAttentionDot_anyDivide(dot) ==
  hasPriorDotGeneral(dot) /\ Is(Arg(dot, 1), "divide")

isAttentionDot(dot) ==
  /\ hasPriorDotGeneral(dot)
  /\ Is(Arg(dot, 1), "divide")
  /\ "softmax_canonicalized" \in graph[Arg(dot, 1)].marks

isMarkedAttention(dot) ==
  "scaled_dot_product_attention" \in graph[dot].marks

-----------------------------------------------------------------------------
(***************************************************************************)
(* RMSNormLegalize and LayerNormLegalize. A matcher that returns a base    *)
(* value through a reference is an operator with the base as a parameter,  *)
(* or one that tells the set of bases (one or none).                       *)
(***************************************************************************)
SkipReshape(v) == IF Is(v, "reshape") THEN Arg(v, 1) ELSE v
SkipSqrt(v) == IF Is(v, "sqrt") THEN Arg(v, 1) ELSE v

isSquareOf(v, base) == Is(v, "multiply") /\ Arg(v, 1) = base /\ Arg(v, 2) = base

isReduceOfSquare(v, base) ==
  LET tensor == SkipReshape(v)
  IN  Is(tensor, "reduce") /\ isSquareOf(Arg(tensor, 1), base)

isMeanOfSquare(v, base) == Is(v, "divide") /\ isReduceOfSquare(Arg(v, 1), base)

isRmsNormSqrtInput(v, base) ==
  LET add == SkipSqrt(v)
  IN  /\ Is(add, "add")
      /\ \/ isMeanOfSquare(Arg(add, 1), base)
         \/ /\ \A other \in DOMAIN graph : ~isMeanOfSquare(Arg(add, 1), other)
            /\ isMeanOfSquare(Arg(add, 2), base)

isRmsNormDivide(v) ==
  /\ Is(v, "divide")
  /\ Is(Arg(v, 2), "broadcast")
  /\ isRmsNormSqrtInput(Arg(Arg(v, 2), 1), Arg(v, 1))

isRmsNormMultiply(v) == \E i \in 1..2 : isRmsNormDivide(Arg(v, i))

isMeanOf(v, input) ==
  /\ Is(v, "divide")
  /\ isReduceOf(SkipReshape(Arg(v, 1)), input)

isCentered(v) ==
  Is(v, "subtract") /\ isMeanOf(Unwrap(Arg(v, 2)), Arg(v, 1))

\* The reference that receives the squared value overwrites centered and is
\* not compared with the numerator: any square will do.
isLayerNormSqrtInput(v, centered) ==
  LET add == SkipSqrt(v)
  IN  /\ Is(add, "add")
      /\ isCentered(centered)
      /\ \E i \in 1..2, squared \in DOMAIN graph :
            isMeanOfSquare(Arg(add, i), squared)

isLayerNormDivide(v) ==
  /\ Is(v, "divide")
  /\ isCentered(Arg(v, 1))
  /\ Is(Arg(v, 2), "broadcast")
  /\ isLayerNormSqrtInput(Arg(Arg(v, 2), 1), Arg(v, 1))

isLayerNormScaledMul(v) ==
  Is(v, "multiply") /\ \E i \in 1..2 : isLayerNormDivide(Arg(v, i))

isLayerNormAdd(v) == \E i \in 1..2 : isLayerNormScaledMul(Arg(v, i))

-----------------------------------------------------------------------------
(***************************************************************************)
(* RoPELegalize.                                                           *)
(***************************************************************************)
isNegOneBroadcast(v) == Is(v, "broadcast") /\ Splat(Arg(v, 1), "minus_one")

\* One half of base scaled by -1: the slice is looked for on the left first.
isNegatedHalf(v, base) ==
  /\ Is(v, "multiply")
  /\ LET i == IF Is(Arg(v, 1), "slice") THEN 1 ELSE 2
     IN  /\ Is(Arg(v, i), "slice")
         /\ isNegOneBroadcast(Arg(v, 3 - i))
         /\ Arg(Arg(v, i), 1) = base

isRotateHalf(v, base) ==
  /\ Is(v, "concatenate")
  /\ Len(graph[v].args) = 2
  /\ \E i \in 1..2 : /\ Is(Arg(v, 3 - i), "slice")
                     /\ Arg(Arg(v, 3 - i), 1) = base
                     /\ isNegatedHalf(Arg(v, i), base)

isMulOf(v, base) == Is(v, "multiply") /\ \E i \in 1..2 : Arg(v, i) = base

\* A product with a rotated value as a factor, the left one being taken first.
rotates(mul, base) ==
  \/ isRotateHalf(Arg(mul, 1), base)
  \/ /\ \A other \in DOMAIN graph : ~isRotateHalf(Arg(mul, 1), other)
     /\ isRotateHalf(Arg(mul, 2), base)

isRoPEAdd(v) ==
  LET l == Arg(v, 1)
      r == Arg(v, 2)
  IN  /\ Is(l, "multiply") /\ Is(r, "multiply")
      /\ IF \E base \in DOMAIN graph : rotates(l, base)
           THEN \E base \in DOMAIN graph : rotates(l, base) /\ isMulOf(r, base)
           ELSE \E base \in DOMAIN graph : rotates(r, base) /\ isMulOf(l, base)

-----------------------------------------------------------------------------
(***************************************************************************)
(* GeluLegalize and SwiGLULegalize. getScalarF32: a constant of one        *)
(* element, behind at most one broadcast.                                  *)
(***************************************************************************)
isScalar(v, c) == LET u == Unwrap(v) IN Splat(u, c) /\ Shape(u) = <<>>

\* 0.5 * input, the left factor being looked at first.
geluInputFromHalfMul(mul, input) ==
  IF isScalar(Arg(mul, 1), "half") THEN Arg(mul, 2) = input
  ELSE isScalar(Arg(mul, 2), "half") /\ Arg(mul, 1) = input

\* erf of the quotient of input and sqrt(2), in either order.
isErfOf(v, input) ==
  /\ Is(v, "erf")
  /\ Is(Arg(v, 1), "divide")
  /\ LET div == Arg(v, 1)
         i == IF Arg(div, 1) = input THEN 1 ELSE 2
         root == Unwrap(Arg(div, 3 - i))
     IN  /\ Arg(div, i) = input
         /\ Is(root, "sqrt") /\ isScalar(Arg(root, 1), "two")

isGeluInner(v, input) ==
  /\ Is(v, "add")
  /\ LET i == IF isScalar(Arg(v, 1), "one") THEN 1 ELSE 2
     IN  isScalar(Arg(v, i), "one") /\ isErfOf(Arg(v, 3 - i), input)

\* The left factor, if it is a product, must be the half; else the right one.
isGeluMultiply(v) ==
  LET i == IF Is(Arg(v, 1), "multiply") THEN 1 ELSE 2
  IN  /\ Is(Arg(v, i), "multiply")
      /\ \E input \in DOMAIN graph : /\ geluInputFromHalfMul(Arg(v, i), input)
                                     /\ isGeluInner(Arg(v, 3 - i), input)

isSigmoidOf(v, gate) ==
  /\ isScalar(Arg(v, 1), "one")
  /\ LET denominator == Arg(v, 2)
     IN  /\ Is(denominator, "add")
         /\ isScalar(Arg(denominator, 1), "one")
         /\ LET exp == Arg(denominator, 2)
            IN  /\ Is(exp, "exponential")
                /\ Is(Arg(exp, 1), "negate")
                /\ Arg(Arg(exp, 1), 1) = gate

matchSilu(v) ==
  /\ Is(v, "multiply")
  /\ LET i == IF Is(Arg(v, 1), "divide") THEN 1 ELSE 2
     IN  Is(Arg(v, i), "divide") /\ isSigmoidOf(Arg(v, i), Arg(v, 3 - i))

isSwiGLUMultiply(v) == \E i \in 1..2 : matchSilu(Arg(v, i))

-----------------------------------------------------------------------------
(***************************************************************************)
(* QdqLegalize, MatMulBiasFusion and HorizontalGemmFusion.                 *)
(***************************************************************************)
isDequantizeChain(v) ==
  Is(v, "multiply") /\ \E i \in 1..2 : Is(Arg(v, i), "subtract")

isQdqDot(dot) == \A i \in 1..2 : isDequantizeChain(Arg(dot, i))

isConstantBias(v) == Is(Unwrap(v), "constant")

\* The value is a function argument, which no op defines.
hasNoDefiningOp(v) == Is(v, "arg")

\* The operand tested as the bias: the one across from a dot_general, which is
\* looked for on the left first. isConstantBias is evaluated on it.
biasOperand(add) == Arg(add, IF Is(Arg(add, 1), "dot_general") THEN 2 ELSE 1)

testsBias(add) == \E i \in 1..2 : Is(Arg(add, i), "dot_general")

isMatMulBiasAdd(add) == testsBias(add) /\ isConstantBias(biasOperand(add))

\* isConstantBias calls isa<> on the null op of a function argument.
derefsNullOp(add) == testsBias(add) /\ hasNoDefiningOp(Unwrap(biasOperand(add)))

isHorizontalGemm(concat) ==
  /\ Len(graph[concat].args) = 2
  /\ \A i \in 1..2 : Is(Arg(concat, i), "dot_general")
  /\ Arg(Arg(concat, 1), 1) = Arg(Arg(concat, 2), 1)
  /\ Attr(concat) = <<"last">>

-----------------------------------------------------------------------------
(***************************************************************************)
(* The patterns that rewrite.                                              *)
(***************************************************************************)
isConvBN(bn) ==
  LET conv == Arg(bn, 1)
  IN  /\ Is(conv, "convolution")
      /\ Attr(bn) = FeatureOf(Attr(conv))
      /\ Is(Arg(bn, 2), "constant")
      /\ Is(Arg(conv, 2), "constant")

\* ConvBNReluFusion: a maximum with a zero constant, looked for on the right
\* first, in f32.
ZeroSide(max) == IF Splat(Arg(max, 2), "zero") THEN 2 ELSE 1

isReluMax(max) == Splat(Arg(max, ZeroSide(max)), "zero")

\* ElementwiseChainLegalize: the zero may be a broadcast, the other operand
\* is a sum or a product.
isElementwiseProducer(v) == Op(v) \in {"add", "multiply"}
isZeroBroadCast(v) == Splat(Unwrap(v), "zero")

ChainSides(max) == {i \in 1..2 : /\ isZeroBroadCast(Arg(max, 3 - i))
                                 /\ isElementwiseProducer(Arg(max, i))}

isElementwiseClamp(clamp) == isElementwiseProducer(Arg(clamp, 2))

\* ProducerConsumerLegalize: scores straight from a dot_general or through one
\* multiply; the subtract's left operand is looked at first.
findDotGeneralProducer(v) ==
  \/ Is(v, "dot_general")
  \/ Is(v, "multiply") /\ \E i \in 1..2 : Is(Arg(v, i), "dot_general")

ScoresSide(sub) == IF findDotGeneralProducer(Arg(sub, 1)) THEN 1 ELSE 2

hasOneUse(v) == Cardinality(Uses(graph, ret, v)) = 1

isProducerConsumerExp(exp) ==
  LET sub == Arg(exp, 1)
  IN  /\ Is(sub, "subtract")
      /\ findDotGeneralProducer(Arg(sub, ScoresSide(sub)))
      /\ hasOneUse(sub)

\* LayoutBridgeLegalize and LayoutFold.
NchwToNhwc == <<0, 2, 3, 1>>

isLayoutBridge(t) == Attr(t) = NchwToNhwc /\ Is(Arg(t, 1), "convolution")

isConstantConv(t) == isLayoutBridge(t) /\ Is(Arg(Arg(t, 1), 2), "constant")

isNchwFold(t) == isConstantConv(t) /\ Attr(Arg(t, 1)) = <<"bf01">>

isSimpleFold(t) == isConstantConv(t) /\ Shape(t) = Shape(Arg(t, 1))

\* BroadcastSimplify: the broadcast dimensions are not looked at.
isIdentityBroadcast(b) == Shape(Arg(b, 1)) = Shape(b)

isNestedBroadcast(b) == Is(Arg(b, 1), "broadcast")

composedDims_inner(outer) == Attr(Arg(outer, 1))

composedDims(outer) == Composed(Attr(outer), Attr(Arg(outer, 1)))

\* StablehloConstantFold: both operands constant and of the result's type.
isConstantPair(v) ==
  \A i \in 1..2 : Is(Arg(v, i), "constant") /\ Shape(Arg(v, i)) = Shape(v)
=============================================================================
