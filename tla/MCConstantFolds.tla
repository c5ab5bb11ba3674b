--------------------------- MODULE MCConstantFolds ---------------------------
(***************************************************************************)
(* Chains of two elementwise ops on constants (lists, splats, NaN, one     *)
(* element or none, elements of other types) and arguments, with every     *)
(* order of block arguments; and a convolution under a batch norm for      *)
(* every place of the features in a two- or three-dimensional kernel and   *)
(* in the output, with constants of other types among its own.             *)
(***************************************************************************)
EXTENDS ConstantFolds

MCNaN == 1000

Arg(n) == [kind |-> "arg", size |-> n, elem |-> "f32"]

Constants2 == {Dense("f32", e) : e \in {<<2, -1>>, <<-1, MCNaN>>, <<2, 2>>}}

\* Two operands of one size.
Operands == (Constants2 \X (Constants2 \cup {Arg(2)}))
            \cup {<<Arg(2), Dense("f32", <<2, 2>>)>>,
                  <<Dense("f32", <<3>>), Dense("f32", <<-2>>)>>,
                  <<Dense("f32", <<>>), Dense("f32", <<>>)>>}

Mixed == {<<Dense(a, e), Dense(b, e)>> :
            a \in {"f32", "f64", "i32"}, b \in {"f64", "i32"}, e \in {<<>>, <<1, 2>>}}

Generic(ins, size, compute, args, par, id, bodyOps) ==
  [kind |-> "generic", ins |-> ins, size |-> size, elem |-> "f32",
   compute |-> compute, args |-> args, parallel |-> par, identityMaps |-> id,
   bodyOps |-> bodyOps]

Computes == {"addf", "mulf", "subf", "maximumf", "other"}

LinalgChains ==
  {[pass |-> "custom-linalg-opt",
    ops |-> pair \o <<Generic(<<1, 2>>, pair[1].size, f, args, TRUE, id, 2),
                      Generic(<<3, 1>>, pair[1].size, g, <<1, 2>>, TRUE, TRUE, 2)>>] :
     pair \in Operands, f \in Computes, g \in {"subf", "maximumf"},
     args \in (1..3) \X (1..2), id \in BOOLEAN}

LinalgSingles ==
  {[pass |-> "custom-linalg-opt",
    ops |-> pair \o <<Generic(ins, pair[1].size, "subf", <<1, 2>>, par, TRUE, b)>>] :
     pair \in Operands, ins \in {<<1, 2>>, <<1>>, <<1, 2, 1>>},
     par \in BOOLEAN, b \in {2, 3}}
  \cup
  {[pass |-> "custom-linalg-opt",
    ops |-> pair \o <<Generic(<<1, 2>>, pair[1].size, "other", <<1, 2>>, TRUE, TRUE, 2)>>] :
     pair \in Mixed}

Binary(f, ins, size, elem) ==
  [kind |-> f, ins |-> ins, size |-> size, elem |-> elem]

StablehloChains ==
  {[pass |-> "stablehlo-constant-fold",
    ops |-> pair \o <<Binary(f, <<1, 2>>, pair[1].size, "f32"),
                      Binary(g, <<3, 1>>, pair[1].size, "f32")>>] :
     pair \in Operands, f \in {"add", "multiply"}, g \in {"add", "multiply"}}
  \cup
  {[pass |-> "stablehlo-constant-fold",
    ops |-> <<Dense(e, <<1, 2>>), Dense(e, <<3, 4>>), Binary("add", <<1, 2>>, 2, e)>>] :
     e \in {"f64", "i32"}}

Shapes == {<<2, 2>>, <<2, 3>>, <<3, 2>>, <<2, 1, 3>>, <<2, 3, 2>>, <<1, 2, 2>>}

MCPositions == {0, 1}

\* A kernel in which all elements differ; a parameter is a list or a splat.
Kernel(shape) == Dense("f32", [n \in 1..Product(shape) |-> n * n])

Param(n, a, splat) == Dense("f32", [m \in 1..n |-> IF splat THEN a ELSE a + m])

ConvBN(shape, k, o, f, size, w, gamma) ==
  [pass |-> "conv-bn-fusion",
   ops |-> <<Arg(1), w,
             [kind |-> "convolution", ins |-> <<1, 2>>, shape |-> shape,
              kernelOutputFeature |-> k, outputFeature |-> o],
             gamma, Param(size, 1, FALSE), Param(size, 5, TRUE), Param(size, 2, FALSE),
             [kind |-> "batch_norm", ins |-> <<3, 4, 5, 6, 7>>, feature |-> f]>>]

Norms ==
  UNION {UNION {{ConvBN(shape, k, o, f, size, w, gamma) :
     w \in {Kernel(shape), Arg(Product(shape))},
     gamma \in {Param(size, 3, FALSE), Param(size, 3, TRUE), Arg(size)}} :
       size \in {IF f = o THEN shape[k + 1] ELSE 2}} :
         shape \in Shapes, k \in 0..1, o \in 0..1, f \in 0..1}

\* Kernel and parameters of any type, the kernel possibly an argument.
Of(elem, c) == [c EXCEPT !.elem = elem]

TypedNorm(elem, w) ==
  LET norm == ConvBN(<<2, 2>>, 0, 0, 0, 2, w, Of(elem, Param(2, 3, FALSE)))
  IN  [norm EXCEPT !.ops = [v \in DOMAIN @ |-> IF v \in 5..7 THEN Of(elem, @[v]) ELSE @[v]]]

TypedNorms == {TypedNorm(elem, w) : elem \in {"f32", "f64", "i32"},
                 w \in {Arg(4)} \cup {Of(e, Kernel(<<2, 2>>)) : e \in {"f32", "f64", "i32"}}}

MCPrograms == LinalgChains \cup LinalgSingles \cup StablehloChains \cup Norms \cup TypedNorms
=============================================================================
