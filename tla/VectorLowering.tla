--------------------------- MODULE VectorLowering ---------------------------
(***************************************************************************)
(* The vector path (LowerToVectorDialect.cpp): a linalg op on matrices has *)
(* become an affine nest, affine-super-vectorize has made its column loop  *)
(* step by VectorSize and its accesses transfers, CustomVectorOpt.cpp      *)
(* turns transfers into plain loads and stores, and the nest runs. A       *)
(* transfer pads what it reads, and drops what it writes, past the end of  *)
(* a row; a load or store goes on in memory, which is row-major.           *)
(***************************************************************************)
EXTENDS LinalgSemantics

CONSTANTS
  VectorSize,   \* lanes of a vector; 2 in the source
  Ops           \* the ops of the program, on matrices

ASSUME VectorAssumption ==
  /\ VectorSize \in Nat \ {0}
  /\ \A o \in Ops : /\ o.kind \in {"elementwise", "fill", "matmul"}
                    /\ o.dims \in (1..MaxDim) \X (1..MaxDim)
                    /\ o.depth \in 1..MaxDim

VARIABLES
  op,        \* the linalg op the nest was made from
  phase,     \* "pass", "run" or "done"
  lowered,   \* the transfers the pass has replaced
  i, j, k,   \* the row, the first column of the vector, the reduction step
  mem        \* the memory of each buffer and a vector's worth behind it

vars == <<op, phase, lowered, i, j, k, mem>>

Lanes == 0..(VectorSize - 1)

(***************************************************************************)
(* The transfers of an iteration: 0 is the write, n > 0 reads the n-th     *)
(* input or, after the inputs, the output.                                 *)
(***************************************************************************)
ReadsOf(o) == IF o.kind = "fill" THEN {} ELSE 1..(Len(o.ins) + 1)

Transfers == {0} \cup ReadsOf(op)

BufferOf(n) == IF n \in DOMAIN op.ins THEN op.ins[n].buf ELSE op.out

IsLeft(n) == op.kind = "matmul" /\ n = 1
IsRight(n) == op.kind = "matmul" /\ n = 2

Rows(n) == IF IsRight(n) THEN op.depth ELSE op.dims[1]
Cols(n) == IF IsLeft(n) THEN op.depth ELSE op.dims[2]

Row(n) == IF IsRight(n) THEN k ELSE i
Column(n) == IF IsLeft(n) THEN k ELSE j

Depth == IF op.kind = "matmul" THEN op.depth ELSE 1

Address == 0..(MaxDim * MaxDim + VectorSize)

AddressOf(n) == Row(n) * Cols(n) + Column(n)

\* The transfer that tells the shape of a buffer.
ShapeOf(b) == IF \E n \in DOMAIN op.ins : op.ins[n].buf = b
              THEN CHOOSE n \in DOMAIN op.ins : op.ins[n].buf = b
              ELSE 0

\* Mutant: every transfer along rows is taken to be contiguous.
isMinorIdentity_any(n) == TRUE

\* The left operand of a matmul does not vary with the vectorised loop and is
\* broadcast to the lanes: its map is a constant.
isMinorIdentity(n) == ~IsLeft(n)

-----------------------------------------------------------------------------
\* A buffer's elements are distinct, and so is what lies behind it.
InitMem == [b \in Buffer |-> [a \in Address |->
              LET n == ShapeOf(b)
              IN  IF a < Rows(n) * Cols(n)
                  THEN <<b, <<a \div Cols(n), a % Cols(n)>>>>
                  ELSE <<b, <<MaxDim + 1, a>>>>]]

Init == /\ op \in Ops
        /\ phase = "pass" /\ lowered = {}
        /\ i = 0 /\ j = 0 /\ k = 0
        /\ mem = InitMem

Matches(n) == isMinorIdentity(n) /\ op.static

TransferReadToLoad == /\ phase = "pass"
                      /\ \E n \in ReadsOf(op) \ lowered :
                           Matches(n) /\ lowered' = lowered \cup {n}
                      /\ UNCHANGED <<op, phase, i, j, k, mem>>

\* Mutant: success is reported and the transfer stays.
TransferWriteToStore_nothing == /\ phase = "pass" /\ 0 \notin lowered /\ Matches(0)
                                /\ UNCHANGED vars

TransferWriteToStore == /\ phase = "pass" /\ 0 \notin lowered /\ Matches(0)
                        /\ lowered' = lowered \cup {0}
                        /\ UNCHANGED <<op, phase, i, j, k, mem>>

\* The greedy driver stops when no transfer matches.
EndPass == /\ phase = "pass"
           /\ \A n \in Transfers \ lowered : ~Matches(n)
           /\ phase' = "run"
           /\ UNCHANGED <<op, lowered, i, j, k, mem>>

-----------------------------------------------------------------------------
Padding == <<"padding", <<>>>>

InRow(n, l) == Column(n) + l < Cols(n)

\* What the read n puts in lane l. A broadcast reads for its first lane.
Lane(n, l) ==
  LET from == IF IsLeft(n) /\ n \notin lowered THEN 0 ELSE l
  IN  IF n \in lowered \/ InRow(n, from)
      THEN mem[BufferOf(n)][AddressOf(n) + from]
      ELSE Padding

\* One multiplication and addition, kept as the sequence of a sum's terms.
MulAdd(acc, a, b) ==
  Compute(op, (IF k = 0 THEN <<acc>> ELSE acc[2]) \o <<a, b>>)

Result(l) == IF op.kind = "matmul"
             THEN MulAdd(Lane(3, l), Lane(1, l), Lane(2, l))
             ELSE Compute(op, [n \in ReadsOf(op) |-> Lane(n, l)])

Written == {l \in Lanes : 0 \in lowered \/ InRow(0, l)}

\* Mutant: the column loop keeps its step.
Advance_step ==
  \/ /\ k + 1 < Depth
     /\ k' = k + 1 /\ UNCHANGED <<i, j, phase>>
  \/ /\ k + 1 >= Depth /\ j + 1 < op.dims[2]
     /\ k' = 0 /\ j' = j + 1 /\ UNCHANGED <<i, phase>>
  \/ /\ k + 1 >= Depth /\ j + 1 >= op.dims[2]
     /\ k' = 0 /\ j' = 0 /\ i' = i + 1
     /\ phase' = IF i + 1 < op.dims[1] THEN "run" ELSE "done"

\* The loops i, j and k in the order linalg gives them; j grows by VectorSize
\* and keeps its upper bound.
Advance ==
  \/ /\ k + 1 < Depth
     /\ k' = k + 1 /\ UNCHANGED <<i, j, phase>>
  \/ /\ k + 1 >= Depth /\ j + VectorSize < op.dims[2]
     /\ k' = 0 /\ j' = j + VectorSize /\ UNCHANGED <<i, phase>>
  \/ /\ k + 1 >= Depth /\ j + VectorSize >= op.dims[2]
     /\ k' = 0 /\ j' = 0 /\ i' = i + 1
     /\ phase' = IF i + 1 < op.dims[1] THEN "run" ELSE "done"

Iterate ==
  /\ phase = "run"
  /\ mem' = [mem EXCEPT ![op.out] = [a \in Address |->
               IF a - AddressOf(0) \in Written THEN Result(a - AddressOf(0))
                                               ELSE @[a]]]
  /\ Advance
  /\ UNCHANGED <<op, lowered>>

Next == TransferReadToLoad \/ TransferWriteToStore \/ EndPass \/ Iterate

\* Neither the greedy driver nor the nest ever waits.
Spec == Init /\ [][Next]_vars /\ WF_vars(Next)

-----------------------------------------------------------------------------
\* The rows are whole numbers of vectors.
WholeVectors == op.dims[2] % VectorSize = 0

(***************************************************************************)
(* The loads and stores of the pass stay in the row the transfer was in,   *)
(* and in the buffer, if the rows are whole vectors: the pass keeps none   *)
(* of the bounds the transfers checked.                                    *)
(***************************************************************************)
AccessesInRow ==
  phase = "run" /\ WholeVectors =>
    \A n \in lowered : /\ Row(n) < Rows(n)
                       /\ \A l \in Lanes : InRow(n, l)

\* Memory by coordinates, as the semantics of linalg has it.
View == [b \in Buffer |-> [x \in Index |->
          LET n == ShapeOf(b)
          IN  IF Len(x) = 2 /\ x[1] < Rows(n) /\ x[2] < Cols(n)
              THEN mem[b][x[1] * Cols(n) + x[2]]
              ELSE <<b, x>>]]

Behind(b) == {a \in Address : a >= Rows(ShapeOf(b)) * Cols(ShapeOf(b))}

ComputesOp == /\ View = Perform(op, Distinct)
              /\ \A b \in Buffer : \A a \in Behind(b) : mem[b][a] = InitMem[b][a]

(***************************************************************************)
(* The nest leaves in memory what the linalg op computes, and nothing else *)
(* in it changed, whichever of its transfers were lowered, if the rows are *)
(* whole vectors or the shapes are dynamic and the transfers stay.         *)
(***************************************************************************)
WholeVectorsComputeOp ==
  phase = "done" /\ (WholeVectors \/ ~op.static) => ComputesOp

\* The pass reaches a fixpoint and the nest ends.
LoweringEnds == <>(phase = "done")

-----------------------------------------------------------------------------
(***************************************************************************)
(* docs/superpowers/specs/2026-06-16-affine-vector-lowering-design.md:71:  *)
(* static transfers are lowered to loads and stores; the nest must go on   *)
(* computing the op.                                                       *)
(***************************************************************************)
NestComputesOp == phase = "done" => ComputesOp
=============================================================================
