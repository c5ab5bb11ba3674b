---------------------------- MODULE ConstantFolds ----------------------------
(***************************************************************************)
(* The passes that compute with constants, element by element:             *)
(* CustomLinalgOpt.cpp (elementwise linalg.generic),                       *)
(* StablehloConstantFold.cpp (add, multiply) and ConvBNFusion.cpp (the     *)
(* kernel and bias of a convolution under a batch norm). A number is an    *)
(* integer or NaN, arithmetic is exact and zero has no sign; a variance is *)
(* given by the reciprocal of the root the pass takes of it.               *)
(***************************************************************************)
EXTENDS Integers, Sequences, FiniteSetsExt, SequencesExt

CONSTANTS
  NaN,        \* a number no arithmetic of the programs yields
  Positions,  \* output positions of a convolution
  Programs    \* pass and ops of each function the pass may meet

(***************************************************************************)
(* What the verifier grants a pass: operands come before the ops that use  *)
(* them, and those of an elementwise StableHLO op have its size.           *)
(***************************************************************************)
Verified(p) ==
  /\ p.pass \in {"custom-linalg-opt", "stablehlo-constant-fold", "conv-bn-fusion"}
  /\ p.ops \in Seq({p.ops[v] : v \in DOMAIN p.ops})
  /\ \A v \in DOMAIN p.ops :
       LET op == p.ops[v]
       IN  /\ op.kind \notin {"constant", "arg"} => op.ins \in Seq(1..(v - 1))
           /\ op.kind \in {"add", "multiply"} =>
                /\ op.size \in Nat /\ Len(op.ins) = 2
                /\ \A n \in 1..2 : p.ops[op.ins[n]].size = op.size
           /\ op.kind = "generic" =>
                /\ op.size \in Nat
                /\ op.compute \in {"addf", "mulf", "subf", "maximumf", "other"}

ASSUME ProgramsAssumption == \A p \in Programs : Verified(p)

VARIABLES
  source,  \* the function
  ops,     \* what is left of it; ops[v] makes the value v
  phase    \* "fold", "done" or "crash"

vars == <<source, ops, phase>>

Kind(v) == ops[v].kind

-----------------------------------------------------------------------------
(***************************************************************************)
(* Constants: a splat keeps one element for all.                           *)
(***************************************************************************)
Dense(elem, elems) ==
  IF elems # <<>> /\ \A n \in DOMAIN elems : elems[n] = elems[1]
  THEN [kind |-> "constant", elem |-> elem, size |-> Len(elems),
        splat |-> TRUE, elems |-> <<elems[1]>>]
  ELSE [kind |-> "constant", elem |-> elem, size |-> Len(elems),
        splat |-> FALSE, elems |-> elems]

At(cst, n) == IF cst.splat THEN cst.elems[1] ELSE cst.elems[n]

\* The meaning of a scalar op.
Apply(f, a, b) ==
  IF NaN \in {a, b} THEN NaN
  ELSE CASE f \in {"addf", "add"} -> a + b
         [] f \in {"mulf", "multiply"} -> a * b
         [] f = "subf" -> a - b
         [] f = "maximumf" -> IF a < b THEN b ELSE a
         [] OTHER -> 0

\* std::max: every comparison with NaN is false.
stdMax(a, b) == IF NaN \notin {a, b} /\ a < b THEN b ELSE a

\* What CustomLinalgOpt computes for the scalar op.
Computed(f, a, b) == IF f = "maximumf" THEN stdMax(a, b) ELSE Apply(f, a, b)

-----------------------------------------------------------------------------
(***************************************************************************)
(* CustomLinalgOpt. A generic has inputs, the scalar op of its body and    *)
(* the block arguments the op takes, the last argument being the init's    *)
(* element.                                                                *)
(***************************************************************************)
IsElementwise(op) ==
  Len(op.ins) = 2 /\ op.parallel /\ op.identityMaps /\ op.bodyOps = 2 /\ op.elem = "f32"

Generics ==
  {v \in DOMAIN ops : /\ Kind(v) = "generic" /\ IsElementwise(ops[v])
                      /\ \A n \in 1..2 : Kind(ops[v].ins[n]) = "constant"}

\* getValues and convertToFloat assert on elements they cannot read.
Unreadable(v) ==
  \E n \in 1..2 : \/ ops[ops[v].ins[n]].elem = "i32"
                  \/ ops[ops[v].ins[n]].elem = "f64" /\ ops[v].size > 0

Supported(op) == op.compute \in {"addf", "mulf", "subf", "maximumf"} \/ op.size = 0

AssertElementType == /\ phase = "fold" /\ source.pass = "custom-linalg-opt"
                     /\ \E v \in Generics : Unreadable(v)
                     /\ phase' = "crash"
                     /\ UNCHANGED <<source, ops>>

FoldableGenerics ==
  {v \in Generics : ~Unreadable(v) /\ Supported(ops[v])}

\* Mutant: success is reported and nothing replaced.
FoldConstantElementwiseGeneric_nothing ==
  /\ phase = "fold" /\ source.pass = "custom-linalg-opt"
  /\ FoldableGenerics # {}
  /\ UNCHANGED vars

FoldConstantElementwiseGeneric ==
  /\ phase = "fold" /\ source.pass = "custom-linalg-opt"
  /\ \E v \in FoldableGenerics :
        LET lhs == ops[ops[v].ins[1]]
            rhs == ops[ops[v].ins[2]]
        IN  ops' = [ops EXCEPT ![v] = Dense("f32",
              [n \in 1..ops[v].size |->
                 Computed(ops[v].compute, At(lhs, n), At(rhs, n))])]
  /\ UNCHANGED <<source, phase>>

-----------------------------------------------------------------------------
\* StablehloConstantFold.
\* Mutant: only constants that list their elements are folded.
ConstantPairs_dense ==
  {v \in DOMAIN ops : /\ Kind(v) \in {"add", "multiply"}
                      /\ ops[v].elem = "f32"
                      /\ \A n \in 1..2 :
                           /\ Kind(ops[v].ins[n]) = "constant"
                           /\ ops[ops[v].ins[n]].elem = "f32"
                           /\ ~ops[ops[v].ins[n]].splat
                           /\ ops[ops[v].ins[n]].size = ops[v].size}

ConstantPairs ==
  {v \in DOMAIN ops : /\ Kind(v) \in {"add", "multiply"}
                      /\ ops[v].elem = "f32"
                      /\ \A n \in 1..2 :
                           /\ Kind(ops[v].ins[n]) = "constant"
                           /\ ops[ops[v].ins[n]].elem = "f32"
                           /\ ops[ops[v].ins[n]].size = ops[v].size}

foldBinaryConstants ==
  /\ phase = "fold" /\ source.pass = "stablehlo-constant-fold"
  /\ \E v \in ConstantPairs :
        LET lhs == ops[ops[v].ins[1]]
            rhs == ops[ops[v].ins[2]]
        IN  ops' = [ops EXCEPT ![v] = Dense("f32",
              [n \in 1..ops[v].size |->
                 Apply(Kind(v), At(lhs, n), At(rhs, n))])]
  /\ UNCHANGED <<source, phase>>

-----------------------------------------------------------------------------
(***************************************************************************)
(* ConvBNFusion. A convolution has an input, a kernel and the numbers of   *)
(* the output's and the kernel's output-feature dimension, from zero; the  *)
(* output has two dimensions, features and positions. A batch norm has the *)
(* convolution, gamma, beta, mean and variance.                            *)
(***************************************************************************)
Product(dims) == FoldLeft(LAMBDA x, y : x * y, 1, dims)

\* Mutant: the feature dimension itself counts as an inner one.
channelIndexForLinearIdx_inner(shape, featureIndex, linearIdx) ==
  LET inner == Product(SubSeq(shape, featureIndex + 1, Len(shape)))
  IN  (linearIdx \div inner) % shape[featureIndex + 1]

channelIndexForLinearIdx(shape, featureIndex, linearIdx) ==
  LET inner == Product(SubSeq(shape, featureIndex + 2, Len(shape)))
  IN  (linearIdx \div inner) % shape[featureIndex + 1]

FpConstants == {v \in DOMAIN ops : Kind(v) = "constant" /\ ops[v].elem # "i32"}

\* The batch norms whose constants the pass goes on to read.
Normed ==
  {v \in DOMAIN ops : /\ Kind(v) = "batch_norm"
                      /\ Kind(ops[v].ins[1]) = "convolution"
                      /\ ops[v].feature = ops[ops[v].ins[1]].outputFeature
                      /\ \A n \in 2..5 : ops[v].ins[n] \in FpConstants}

\* getValues<float> asserts on the parameters, then on the kernel, that are
\* constants of another float type.
NotFloat(v) ==
  LET read == {ops[v].ins[n] : n \in 2..5} \cup {ops[ops[v].ins[1]].ins[2]}
  IN  \E c \in read \cap FpConstants : ops[c].elem # "f32"

AssertFloat == /\ phase = "fold" /\ source.pass = "conv-bn-fusion"
               /\ \E v \in Normed : NotFloat(v)
               /\ phase' = "crash"
               /\ UNCHANGED <<source, ops>>

ConvBNs ==
  {v \in Normed :
     /\ ~NotFloat(v)
     /\ LET conv == ops[ops[v].ins[1]]
        IN  /\ conv.ins[2] \in FpConstants
            /\ conv.kernelOutputFeature < Len(conv.shape)
            /\ conv.shape[conv.kernelOutputFeature + 1] = ops[ops[v].ins[2]].size}

\* The batch norm becomes a convolution with a bias along the features.
ConvBNFusion ==
  /\ phase = "fold" /\ source.pass = "conv-bn-fusion"
  /\ \E v \in ConvBNs :
        LET conv == ops[ops[v].ins[1]]
            weight == ops[conv.ins[2]]
            Param(n, ch) == At(ops[ops[v].ins[n]], ch)
            scale == [ch \in 1..ops[ops[v].ins[2]].size |->
                        Param(2, ch) * Param(5, ch)]
            Channel(n) == 1 + channelIndexForLinearIdx(
                                conv.shape, conv.kernelOutputFeature, n - 1)
        IN  ops' = [ops EXCEPT ![v] =
              [kind |-> "biased",
               kernel |-> Dense("f32", [n \in 1..weight.size |->
                                          At(weight, n) * scale[Channel(n)]]),
               bias |-> [ch \in DOMAIN scale |->
                           Param(3, ch) - Param(4, ch) * scale[ch]],
               shape |-> conv.shape,
               kernelOutputFeature |-> conv.kernelOutputFeature,
               outputFeature |-> conv.outputFeature]]
  /\ UNCHANGED <<source, phase>>

-----------------------------------------------------------------------------
Work == CASE source.pass = "custom-linalg-opt" ->
               FoldableGenerics \cup {v \in Generics : Unreadable(v)}
          [] source.pass = "stablehlo-constant-fold" -> ConstantPairs
          [] source.pass = "conv-bn-fusion" -> ConvBNs \cup {v \in Normed : NotFloat(v)}

\* The greedy driver finds nothing more to do.
EndPass == /\ phase = "fold" /\ Work = {}
           /\ phase' = "done"
           /\ UNCHANGED <<source, ops>>

Init == /\ source \in Programs
        /\ ops = source.ops
        /\ phase = "fold"

Next == \/ FoldConstantElementwiseGeneric \/ AssertElementType
        \/ foldBinaryConstants \/ ConvBNFusion \/ AssertFloat \/ EndPass

Spec == Init /\ [][Next]_vars /\ WF_vars(Next)

-----------------------------------------------------------------------------
(***************************************************************************)
(* What a function computes, by the definition of its ops and, for the     *)
(* kernel of a convolution, by coordinates.                                *)
(***************************************************************************)
Coordinates(shape) == {c \in [DOMAIN shape -> 0..(Product(shape) - 1)] :
                         \A d \in DOMAIN shape : c[d] < shape[d]}

RowMajor(shape, c) ==
  FoldLeft(LAMBDA x, y : x + y, 0,
           [d \in DOMAIN shape |->
              c[d] * Product(SubSeq(shape, d + 1, Len(shape)))])

\* An input in which every element under the kernel has a value of its own.
Pixel(shape, c, position) == 1 + RowMajor(shape, c) + 5 * position * position

Convolve(conv, kernel, channel, position) ==
  LET f == conv.kernelOutputFeature + 1
  IN  MapThenSumSet(
        LAMBDA c : kernel[RowMajor(conv.shape, c) + 1]
                   * Pixel(conv.shape, [c EXCEPT ![f] = 0], position),
        {c \in Coordinates(conv.shape) : c[f] = channel})

Image(conv) ==
  LET channels == 0..(conv.shape[conv.kernelOutputFeature + 1] - 1)
  IN  IF conv.outputFeature = 0 THEN channels \X Positions ELSE Positions \X channels

\* The pixel x of what conv computes with the kernel.
ConvAt(conv, kernel, x) ==
  Convolve(conv, kernel, x[conv.outputFeature + 1], x[2 - conv.outputFeature])

\* Where an input of a generic is read.
Place(op, input, n) ==
  IF input = 1 /\ ~op.identityMaps THEN op.size + 1 - n ELSE n

Values(g) ==
  LET V[v \in DOMAIN g] ==
        LET op == g[v]
        IN  CASE op.kind = "constant" -> [n \in 1..op.size |-> At(op, n)]
              [] op.kind = "arg" -> [n \in 1..op.size |-> 3 + n]
              [] op.kind \in {"add", "multiply"} ->
                   [n \in 1..op.size |->
                      Apply(op.kind, V[op.ins[1]][n], V[op.ins[2]][n])]
              [] op.kind = "generic" ->
                   LET Block(m, n) == IF m \in DOMAIN op.ins
                                      THEN V[op.ins[m]][Place(op, m, n)] ELSE 7
                       Body(a, b) == IF op.compute = "std::max" THEN stdMax(a, b)
                                     ELSE Apply(op.compute, a, b)
                   IN  [n \in 1..op.size |->
                          Body(Block(op.args[1], n), Block(op.args[2], n))]
              [] op.kind = "convolution" ->
                   [x \in Image(op) |-> ConvAt(op, V[op.ins[2]], x)]
              [] op.kind = "biased" ->
                   LET kernel == [n \in 1..op.kernel.size |-> At(op.kernel, n)]
                   IN  [x \in Image(op) |-> ConvAt(op, kernel, x)
                                            + op.bias[x[op.outputFeature + 1] + 1]]
              [] op.kind = "batch_norm" ->
                   [x \in DOMAIN V[op.ins[1]] |->
                      LET ch == x[op.feature + 1] + 1
                          P(m) == V[op.ins[m]][ch]
                      IN  (V[op.ins[1]][x] - P(4)) * (P(2) * P(5)) + P(3)]
  IN  V

-----------------------------------------------------------------------------
\* The body takes both inputs in their order, or its op does not mind.
TakesInputs(op) ==
  \/ op.args = <<1, 2>>
  \/ op.args = <<2, 1>> /\ op.compute \in {"addf", "mulf", "maximumf"}

\* A maximum with a NaN on the right only.
DropsNaN(v, V) ==
  LET op == source.ops[v]
  IN  /\ op.compute = "maximumf"
      /\ \E n \in 1..op.size : V[op.ins[1]][n] # NaN /\ V[op.ins[2]][n] = NaN

\* The generic as the pass takes it when it has folded it.
AsFolded(v) ==
  IF source.ops[v].kind = "generic" /\ Kind(v) = "constant"
  THEN [source.ops[v] EXCEPT !.args = <<1, 2>>,
                             !.compute = IF @ = "maximumf" THEN "std::max" ELSE @]
  ELSE source.ops[v]

(***************************************************************************)
(* Folding changes no value: not where a splat meets a constant that lists *)
(* its elements, not along a chain in which folded constants are folded    *)
(* again, and not in a convolution, whatever the place of its features in  *)
(* the output and in the kernel. Two habits of CustomLinalgOpt are         *)
(* excepted: it takes the inputs in order whatever the body does           *)
(* (CustomLinalgOpt.cpp:73-80), and std::max loses a NaN on the right      *)
(* (line 81). These alone, and what follows from them, make a difference.  *)
(***************************************************************************)
FoldsPreserveValues ==
  LET V == Values(source.ops)
      Habits == \E v \in DOMAIN source.ops :
                  /\ source.ops[v].kind = "generic" /\ Len(source.ops[v].ins) = 2
                  /\ ~TakesInputs(source.ops[v]) \/ DropsNaN(v, V)
  IN  /\ ~Habits => Values(ops) = V
      /\ Values(ops) = Values([v \in DOMAIN source.ops |-> AsFolded(v)])

\* What the pass can compute if it is given constants.
Computable(op) ==
  \/ op.kind = "constant" /\ op.elem = "f32"
  \/ /\ op.kind \in {"add", "multiply"} /\ op.elem = "f32"
     /\ source.pass = "stablehlo-constant-fold"
  \/ /\ op.kind = "generic" /\ IsElementwise(op) /\ op.compute # "other"
     /\ source.pass = "custom-linalg-opt"

Inputs(op) == IF op.kind = "constant" THEN <<>> ELSE op.ins

\* The values that follow from f32 constants by what the pass can compute.
known[v \in DOMAIN source.ops] ==
  /\ Computable(source.ops[v])
  /\ \A n \in DOMAIN Inputs(source.ops[v]) : known[Inputs(source.ops[v])[n]]

Known == {v \in DOMAIN source.ops : known[v]}

(***************************************************************************)
(* One run of a pass folds chains to their end: what follows from          *)
(* constants is a constant, the constants the pass itself has made         *)
(* included.                                                               *)
(***************************************************************************)
ChainsAreFolded == phase = "done" => \A v \in Known : Kind(v) = "constant"

\* A pass ends, or stops at elements it cannot read.
FoldingEnds == <>(phase \in {"done", "crash"})
=============================================================================
