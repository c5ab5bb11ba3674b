--------------------------- MODULE MCParallelLoops ---------------------------
(***************************************************************************)
(* Ops on up to two-by-two elements over three buffers: empty, scalar,     *)
(* in-place and transposed elementwise ops, fills and small matmuls.       *)
(***************************************************************************)
EXTENDS ParallelLoops

In(buf) == [buf |-> buf, map |-> "identity"]

Elementwise(dims, ins, parallel, static, indexed) ==
  [kind |-> "elementwise", dims |-> dims, depth |-> 0, ins |-> ins,
   out |-> "C", parallel |-> parallel, static |-> static,
   indexed |-> indexed, float |-> TRUE]

Fill(dims) ==
  [kind |-> "fill", dims |-> dims, depth |-> 0, ins |-> <<>>, out |-> "C",
   parallel |-> TRUE, static |-> TRUE, indexed |-> FALSE, float |-> TRUE]

Matmul(dims, depth, float) ==
  [kind |-> "matmul", dims |-> dims, depth |-> depth,
   ins |-> <<In("A"), In("B")>>, out |-> "C", parallel |-> FALSE,
   static |-> TRUE, indexed |-> FALSE, float |-> float]

Transposed == [buf |-> "A", map |-> "transpose"]

MCOps ==
  {Elementwise(dims, ins, TRUE, TRUE, FALSE) :
     dims \in {<<>>, <<0>>, <<2>>, <<2, 2>>},
     ins \in {<<In("A")>>, <<In("A"), In("B")>>, <<In("C"), In("A")>>}}
  \cup {Elementwise(<<2, 2>>, <<Transposed>>, TRUE, TRUE, FALSE)}
  \cup {Elementwise(<<2>>, <<In("A")>>, p, s, i) : p, s, i \in BOOLEAN}
  \cup {Fill(dims) : dims \in {<<>>, <<2>>, <<2, 2>>}}
  \cup {Matmul(dims, depth, float) : dims \in {<<1, 2>>, <<2, 2>>},
                                     depth \in 0..2, float \in BOOLEAN}
==============================================================================
