----------------------------- MODULE MCLinalgTile -----------------------------
(***************************************************************************)
(* One matmul with extents below, at and beyond what the pass asks for,    *)
(* even and odd, and chains of two in which the second reads the result of *)
(* the first.                                                              *)
(***************************************************************************)
EXTENDS LinalgTile

One(m, k, n, static, rank2, lhs) ==
  [m |-> m, k |-> k, n |-> n, static |-> static, rank2 |-> rank2, lhs |-> lhs]

MCFunctions ==
  {<<One(m, k, n, static, rank2, 0)>> :
     m \in 3..5, k \in 1..5, n \in 3..5, static \in BOOLEAN, rank2 \in BOOLEAN}
  \cup
  {<<One(m, k, 4, TRUE, TRUE, 0), One(m, 4, n, TRUE, TRUE, lhs)>> :
     m \in {3, 5}, k \in {1, 3}, n \in {3, 4}, lhs \in {0, 1}}
=============================================================================
