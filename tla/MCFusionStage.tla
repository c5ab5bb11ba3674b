--------------------------- MODULE MCFusionStage ---------------------------
(***************************************************************************)
(* Source programs for FusionStage: the decompositions the lit tests hold, *)
(* with the variations that decide whether a pattern matches. Op i of a    *)
(* program is the i-th of its sequence; T is the shape of a whole tensor.  *)
(* The boundaries of a program are those the tests look for in its like    *)
(* after a run of the whole stage.                                         *)
(***************************************************************************)
EXTENDS FusionStage

T == <<2, 4>>
N(name, args) == Node(name, args, <<>>, T, {})
M(name, args) == Node(name, args, <<>>, <<2>>, {})
R(name, args) == Node(name, args, <<>>, <<2, 1>>, {})
X(name) == Node("arg", <<>>, <<name>>, T, {})
K(c) == Node("constant", <<>>, <<c>>, T, {})
Scalar(c) == Node("constant", <<>>, <<c>>, <<>>, {})
RK(c) == Node("constant", <<>>, <<c>>, <<2, 1>>, {})
Reduce(kind, v) == Node("reduce", <<v>>, <<kind>>, <<2>>, {})
B(v, dims) == Node("broadcast", <<v>>, dims, T, {})
Spread(v) == B(v, <<>>)
Conv(layout, shape) == Node("convolution", <<1, 2>>, <<layout>>, shape, {})

Fn(ops, results) ==
  [ops |-> ops, ret |-> results, role |-> "none", boundaries |-> {}]

Tested(p, marks) == [p EXCEPT !.boundaries = marks]

\* softmax(q k * scale) v; the shift is scores - max, or max - scores.
Attention(shift, results) ==
  Fn(<<X("q"), X("k"), X("v"), N("dot_general", <<1, 2>>), Scalar("half"),
       Spread(5), N("multiply", <<4, 6>>), Reduce("max", 7), B(8, <<0>>),
       N("subtract", shift), N("exponential", <<10>>), Reduce("sum", 11),
       B(12, <<0>>), N("divide", <<11, 13>>), N("dot_general", <<14, 3>>)>>,
     results)

\* The softmax of an argument, summed by kind, over base.
Softmax(kind, base) ==
  Fn(<<X("x"), Reduce("max", 1), B(2, <<0>>), N("subtract", <<1, 3>>),
       N("exponential", <<4>>), Reduce(kind, base), B(6, <<0>>),
       N("divide", <<5, 7>>), N("dot_general", <<1, 5>>),
       N("dot_general", <<8, 9>>)>>, <<10>>)

\* x / sqrt(mean(x * x) + eps) * weight; the denominator is op 10, or op 9 to
\* leave out the root.
RMSNorm(denominator) ==
  Fn(<<X("x"), K("weight"), RK("eps"), N("multiply", <<1, 1>>),
       Reduce("sum", 4), R("reshape", <<5>>), RK("four"), R("divide", <<6, 7>>),
       R("add", <<8, 3>>), R("sqrt", <<9>>), B(denominator, <<0, 1>>),
       N("divide", <<1, 11>>), N("multiply", <<12, 2>>)>>, <<13>>)

\* (x - mean) / sqrt(var + eps) * gamma + beta, with the variance of op squared.
LayerNorm(squared) ==
  Fn(<<X("x"), Node("constant", <<>>, <<"four">>, <<2>>, {}), Reduce("sum", 1),
       M("divide", <<3, 2>>), B(4, <<0>>), N("subtract", <<1, 5>>),
       N("multiply", <<squared, squared>>), Reduce("sum", 7), M("divide", <<8, 2>>),
       M("add", <<9, 2>>), M("sqrt", <<10>>), B(11, <<0>>), N("divide", <<6, 12>>),
       K("gamma"), N("multiply", <<13, 14>>), K("beta"), N("add", <<15, 16>>)>>,
     <<17>>)

RoPE ==
  Fn(<<X("x"), X("cos"), X("sin"), Scalar("minus_one"), Spread(4),
       R("slice", <<1>>), R("slice", <<1>>), N("multiply", <<7, 5>>),
       N("concatenate", <<8, 6>>), N("multiply", <<1, 2>>),
       N("multiply", <<9, 3>>), N("add", <<10, 11>>)>>, <<12>>)

Gelu ==
  Fn(<<X("x"), Scalar("half"), Scalar("one"), Scalar("two"), Node("sqrt", <<4>>, <<>>, <<>>, {}),
       Spread(5), N("divide", <<1, 6>>), N("erf", <<7>>), Spread(3),
       N("add", <<9, 8>>), Spread(2), N("multiply", <<1, 11>>),
       N("multiply", <<12, 10>>)>>, <<13>>)

SwiGLU ==
  Fn(<<X("gate"), X("up"), Scalar("one"), N("negate", <<1>>),
       N("exponential", <<4>>), Spread(3), N("add", <<6, 5>>),
       N("divide", <<6, 7>>), N("multiply", <<1, 8>>),
       N("multiply", <<9, 2>>)>>, <<10>>)

\* Two dequantised matmuls with one left operand, side by side.
QdqGemms ==
  Fn(<<X("x"), X("w"), X("z"), X("s"), N("subtract", <<1, 3>>),
       N("multiply", <<5, 4>>), N("subtract", <<2, 3>>), N("multiply", <<7, 4>>),
       N("dot_general", <<6, 8>>), N("dot_general", <<6, 2>>),
       Node("concatenate", <<9, 10>>, <<"last">>, T, {})>>, <<11>>)

\* relu(a b + bias), with the zero behind a broadcast.
Linear(bias) ==
  Fn(<<X("a"), X("b"), N("dot_general", <<1, 2>>), bias, N("add", <<3, 4>>),
       Scalar("zero"), Spread(6), N("maximum", <<5, 7>>)>>, <<8>>)

\* relu(bn(conv(x))) and the value of the op also; the zero is a constant.
ConvBN(also, params) ==
  LET image == <<1, 3, 2, 2>>
  IN  Fn(<<Node("arg", <<>>, <<"x">>, image, {}),
           Node("constant", <<>>, <<"w">>, <<3, 3, 1, 1>>, {}),
           Conv("bf01", image), [params EXCEPT !.shape = <<3>>],
           Node("batch_norm", <<3, 4>>, <<1>>, image, {}),
           Node("constant", <<>>, <<"zero">>, image, {}),
           Node("maximum", <<6, 5>>, <<>>, image, {})>>, <<7, also>>)

\* A batch norm along feature after an NHWC convolution.
NhwcConvBN(feature) ==
  LET image == <<1, 2, 2, 3>>
  IN  Fn(<<Node("arg", <<>>, <<"x">>, image, {}),
           Node("constant", <<>>, <<"w">>, <<1, 1, 3, 3>>, {}),
           Conv("b01f", image),
           Node("constant", <<>>, <<"bn">>, <<image[feature + 1]>>, {}),
           Node("batch_norm", <<3, 4>>, <<feature>>, image, {})>>, <<5>>)

\* A 1x1 convolution of a 2x2 image in either layout, then the transpose from
\* NCHW to NHWC.
Layout(layout, weight, from, to, results) ==
  LET nchw == layout = "bf01"
      x == IF nchw THEN <<1, from, 2, 2>> ELSE <<1, 2, 2, from>>
      w == IF nchw THEN <<to, from, 1, 1>> ELSE <<1, 1, from, to>>
      y == IF nchw THEN <<1, to, 2, 2>> ELSE <<1, 2, 2, to>>
  IN  Fn(<<Node("arg", <<>>, <<"x">>, x, {}), [weight EXCEPT !.shape = w],
           Conv(layout, y),
           Node("transpose", <<3>>, <<0, 2, 3, 1>>, Permuted(y, <<0, 2, 3, 1>>),
                {})>>, results)

\* A vector broadcast in three steps, the last an identity.
Broadcasts ==
  Fn(<<Node("arg", <<>>, <<"v">>, <<4>>, {}), B(1, <<1>>),
       Node("broadcast", <<2>>, <<1, 2>>, <<3, 2, 4>>, {}),
       Node("broadcast", <<3>>, <<0, 1, 2>>, <<3, 2, 4>>, {}),
       Node("broadcast", <<4>>, <<1, 2, 3>>, <<5, 3, 2, 4>>, {})>>, <<5>>)

\* A square argument broadcast to its own shape with its dimensions swapped.
Permuting ==
  Fn(<<Node("arg", <<>>, <<"x">>, <<2, 2>>, {}),
       Node("broadcast", <<1>>, <<1, 0>>, <<2, 2>>, {})>>, <<2>>)

\* A matrix transposed by a broadcast, and back by another.
Turned ==
  Fn(<<X("x"), Node("broadcast", <<1>>, <<1, 0>>, <<4, 2>>, {}),
       B(2, <<1, 0>>)>>, <<3>>)

\* The maximum of a zero and a broadcast zero.
Zeros ==
  Fn(<<K("zero"), Scalar("zero"), Spread(2), N("maximum", <<1, 3>>)>>, <<4>>)

\* A bias that is a constant once it is folded.
LateBias ==
  Fn(<<X("a"), X("b"), N("dot_general", <<1, 2>>), K("b1"), K("b2"),
       N("add", <<4, 5>>), N("add", <<3, 6>>)>>, <<7>>)

Constants ==
  Fn(<<K("a"), K("b"), N("add", <<1, 2>>), N("multiply", <<3, 1>>), X("x"),
       N("add", <<4, 5>>), N("add", <<6, 6>>)>>, <<6>>)

Decode == [Constants EXCEPT !.role = "K"]

\* Program q after program p in one function.
Beside(p, q) ==
  LET n == Len(p.ops)
  IN  [ops |-> p.ops \o [i \in DOMAIN q.ops |->
                  [q.ops[i] EXCEPT !.args = [j \in DOMAIN @ |-> @[j] + n]]],
       ret |-> p.ret \o [i \in DOMAIN q.ret |-> q.ret[i] + n],
       role |-> p.role, boundaries |-> p.boundaries \cup q.boundaries]

TestedAttention ==
  Tested(Attention(<<7, 9>>, <<15>>),
    {"softmax_canonicalized", "scaled_dot_product_attention", "flash_tile",
     "producer_consumer_fused"})

TestedSoftmax == Tested(Softmax("sum", 5), {"softmax_canonicalized"})
TestedRMSNorm == Tested(RMSNorm(10), {"rmsnorm_canonicalized"})
TestedLayerNorm == Tested(LayerNorm(6), {"layernorm_canonicalized"})
TestedRoPE == Tested(RoPE, {"rope_canonicalized"})
TestedGelu == Tested(Gelu, {"gelu_canonicalized"})
TestedSwiGLU == Tested(SwiGLU, {"swiglu_canonicalized"})

TestedGemms ==
  Tested(QdqGemms, {"qdq_matmul_canonicalized", "horizontal_gemm_fused"})

TestedLinear ==
  Tested(Linear(K("bias")), {"matmul_bias_fused", "elementwise_chain_fused"})

TestedLayout == Tested(Layout("b01f", K("w"), 2, 3, <<4>>), {"layout_folded"})

Single ==
  <<TestedAttention, Attention(<<7, 9>>, <<15, 10>>),
    Attention(<<9, 7>>, <<15>>), TestedSoftmax, Softmax("sum", 4),
    Softmax("max", 5), TestedRMSNorm, RMSNorm(9), TestedLayerNorm, LayerNorm(1),
    TestedRoPE, TestedGelu, TestedSwiGLU, TestedGemms,
    TestedLinear, Linear(B(2, <<0, 1>>)), Linear(X("bias")),
    ConvBN(5, K("bn")), ConvBN(3, K("bn")), ConvBN(5, X("bn")),
    Layout("bf01", K("w"), 2, 3, <<4>>), Layout("bf01", K("w"), 3, 2, <<4>>),
    Layout("bf01", K("w"), 2, 2, <<4, 3>>), Layout("b01f", K("w"), 3, 2, <<4>>),
    TestedLayout, Layout("b01f", X("w"), 2, 2, <<4>>),
    NhwcConvBN(3), NhwcConvBN(1), Broadcasts, Permuting, Turned, Zeros,
    LateBias, Constants, Decode>>

\* Two subgraphs a pass may rewrite in either order, and the subgraphs of a
\* transformer block one after the other.
Joint ==
  <<Beside(TestedAttention, Attention(<<9, 7>>, <<15, 10>>)),
    Beside(TestedSoftmax, Softmax("sum", 4)),
    Beside(TestedLinear, Linear(X("bias"))),
    Beside(TestedLinear, Linear(K("other"))),
    Beside(ConvBN(5, K("bn")), ConvBN(3, K("bn"))),
    Beside(Layout("bf01", K("w"), 2, 2, <<4, 3>>),
           Layout("b01f", K("w"), 3, 2, <<4>>)),
    Beside(Constants, Permuting),
    Beside(TestedLayerNorm,
           Beside(TestedAttention, Beside(TestedRMSNorm, TestedSwiGLU)))>>

MCPrograms == Single \o Joint

\* The program for the run that shows a disagreement.
ArgumentBias == <<Linear(X("bias"))>>
=============================================================================
