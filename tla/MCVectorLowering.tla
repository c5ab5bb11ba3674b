-------------------------- MODULE MCVectorLowering --------------------------
(***************************************************************************)
(* Elementwise ops (in place, too), fills and matmuls of up to three rows  *)
(* and five columns: rows of whole vectors and rows that end in part of    *)
(* one, with static and dynamic shapes.                                    *)
(***************************************************************************)
EXTENDS VectorLowering

In(buf) == [buf |-> buf, map |-> "identity"]

MatrixOp(kind, ins, dims, depth, static) ==
  [kind |-> kind, dims |-> dims, depth |-> depth, ins |-> ins, out |-> "C",
   parallel |-> kind # "matmul", static |-> static, indexed |-> FALSE,
   float |-> TRUE]

Matrices == (1..3) \X (1..5)

MCOps ==
  {MatrixOp("elementwise", ins, dims, 1, static) :
     ins \in {<<In("A")>>, <<In("A"), In("B")>>, <<In("C"), In("A")>>},
     dims \in Matrices, static \in BOOLEAN}
  \cup {MatrixOp("fill", <<>>, dims, 1, static) :
          dims \in Matrices, static \in BOOLEAN}
  \cup {MatrixOp("matmul", <<In("A"), In("B")>>, dims, depth, static) :
          dims \in Matrices, depth \in 1..3, static \in BOOLEAN}

\* Rows of one vector and a half.
OddMatmul == {MatrixOp("matmul", <<In("A"), In("B")>>, <<2, 3>>, 2, TRUE)}
=============================================================================
