-------------------------- MODULE LinalgSemantics --------------------------
(***************************************************************************)
(* The linalg ops that CustomLinalgToParallelLoops.cpp lowers, and what    *)
(* they compute. Values are terms: a result records the op and the values  *)
(* it was computed from, in the order they enter the computation.          *)
(***************************************************************************)
EXTENDS Integers, Sequences

CONSTANTS
  Buffer,   \* the memrefs of the function
  MaxDim    \* an upper bound on every extent

ASSUME MaxDimAssumption == MaxDim \in Nat

Index == UNION {[1..rank -> 0..MaxDim] : rank \in 0..2}

Operand == [buf : Buffer, map : {"identity", "transpose"}]

(***************************************************************************)
(* One op on memrefs: its kind, the extents of its output, the depth of a  *)
(* matmul's reduction, its inputs with their indexing maps and its output. *)
(***************************************************************************)
LinalgOp ==
  [kind : {"elementwise", "fill", "matmul"}, dims : Seq(0..MaxDim),
   depth : 0..MaxDim, ins : Seq(Operand), out : Buffer,
   parallel : BOOLEAN, static : BOOLEAN, indexed : BOOLEAN, float : BOOLEAN]

\* The points of the output.
Space(op) == {x \in Index : /\ DOMAIN x = DOMAIN op.dims
                            /\ \A d \in DOMAIN x : x[d] < op.dims[d]}

\* The element of an operand at the loop point x.
Element(operand, x) ==
  <<operand.buf, IF operand.map = "transpose" THEN <<x[2], x[1]>> ELSE x>>

\* The elements that enter the computation of the output's point x, by the
\* definition of the op: C[x] first for a matmul, last for a generic.
Reads(op, x) ==
  CASE op.kind = "elementwise" ->
         [n \in 1..(Len(op.ins) + 1) |->
            IF n <= Len(op.ins) THEN Element(op.ins[n], x) ELSE <<op.out, x>>]
    [] op.kind = "fill" -> <<>>
    [] op.kind = "matmul" ->
         [n \in 1..(2 * op.depth + 1) |->
            CASE n = 1 -> <<op.out, x>>
              [] n > 1 /\ n % 2 = 0 ->
                   Element(op.ins[1], <<x[1], (n - 2) \div 2>>)
              [] n > 1 /\ n % 2 = 1 ->
                   Element(op.ins[2], <<(n - 3) \div 2, x[2]>>)]

Fetch(mem, reads) ==
  [n \in DOMAIN reads |-> mem[reads[n][1]][reads[n][2]]]

Compute(op, values) == <<op.kind, values>>

\* The memory after op.
Perform(op, mem) ==
  [mem EXCEPT ![op.out] =
     [x \in Index |-> IF x \in Space(op)
                      THEN Compute(op, Fetch(mem, Reads(op, x)))
                      ELSE mem[op.out][x]]]

\* Memory in which no two elements hold the same value.
Distinct == [b \in Buffer |-> [x \in Index |-> <<b, x>>]]
=============================================================================
