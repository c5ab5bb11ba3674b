------------------------ MODULE VectorLoweringProofs ------------------------
(***************************************************************************)
(* For every vector size and all extents: the loads and stores made from   *)
(* transfers stay in their row, if rows are whole vectors, and the nest    *)
(* then computes the op. Inductive are that the column loop stays on       *)
(* multiples of the vector size, and how far every element of the output   *)
(* has come when the loops stand at i, j and k.                            *)
(***************************************************************************)
EXTENDS VectorLowering, TLAPS

Columns == op.dims[2]

TypeInv ==
  /\ op \in Ops
  /\ phase \in {"pass", "run", "done"}
  /\ lowered \subseteq {n \in Nat : isMinorIdentity(n)}
  /\ ~op.static => lowered = {}

\* Where the nest is while it runs.
Position ==
  /\ phase = "pass" => i = 0 /\ j = 0 /\ k = 0
  /\ phase = "run" => /\ i \in Nat /\ i < op.dims[1]
                      /\ k \in Nat /\ k < Depth
                      /\ j \in Nat /\ j < Columns
                      /\ \E q \in Nat : j = VectorSize * q
  /\ phase = "done" => i = op.dims[1] /\ j = 0 /\ k = 0

Inv == TypeInv /\ Position

LEMMA Extents ==
  ASSUME TypeInv
  PROVE  /\ op.dims[1] \in Nat /\ op.dims[1] > 0
         /\ Columns \in Nat /\ Columns > 0
         /\ Depth \in Nat /\ Depth > 0
         /\ VectorSize \in Nat /\ VectorSize > 0
  BY VectorAssumption, MaxDimAssumption DEF TypeInv, Columns, Depth

\* Two multiples of a number are at least that number apart.
LEMMA MultiplesApart ==
  ASSUME NEW v \in Nat, NEW q \in Nat, NEW r \in Nat, v * q < v * r
  PROVE  v * q + v <= v * r
<1>1. q < r
  <2>1. CASE r <= q
    <3>1. PICK d \in Nat : q = r + d
      BY <2>1
    <3>2. v * q = v * r + v * d /\ v * d \in Nat /\ v * r \in Nat
      BY <3>1
    <3> QED BY <3>2
  <2> QED BY <2>1
<1>2. PICK d \in Nat : r = q + 1 + d
  <2>1. r - q - 1 \in Nat /\ r = q + 1 + (r - q - 1)
    BY <1>1
  <2> QED BY <2>1
<1>3. v * r = v * q + v + v * d /\ v * d \in Nat /\ v * q \in Nat
  BY <1>2
<1> QED BY <1>3

LEMMA InitInv == Init => Inv
  BY DEF Init, Inv, TypeInv, Position

LEMMA ZeroIsMultiple == VectorSize \in Nat => \E q \in Nat : 0 = VectorSize * q
<1> SUFFICES ASSUME VectorSize \in Nat PROVE 0 = VectorSize * 0
  OBVIOUS
<1> QED OBVIOUS

LEMMA AdvanceInv ==
  ASSUME Inv, phase = "run", Advance, UNCHANGED op
  PROVE  /\ phase' \in {"run", "done"}
         /\ Position'
<1> USE Extents DEF Inv
<1>1. Depth' = Depth /\ Columns' = Columns
  BY DEF Depth, Columns
<1>2. CASE k + 1 < Depth /\ k' = k + 1 /\ UNCHANGED <<i, j, phase>>
  BY <1>1, <1>2 DEF Position
<1>3. CASE /\ k + 1 >= Depth /\ j + VectorSize < op.dims[2]
           /\ k' = 0 /\ j' = j + VectorSize /\ UNCHANGED <<i, phase>>
  <2>1. PICK q \in Nat : j = VectorSize * q
    BY DEF Position
  <2>2. j' = VectorSize * (q + 1) /\ q + 1 \in Nat
    BY <1>3, <2>1
  <2>3. \E p \in Nat : j' = VectorSize * p
    BY <2>2
  <2> QED BY <1>1, <1>3, <2>3 DEF Position, Columns
<1>4. CASE /\ k + 1 >= Depth /\ j + VectorSize >= op.dims[2]
           /\ k' = 0 /\ j' = 0 /\ i' = i + 1
           /\ phase' = IF i + 1 < op.dims[1] THEN "run" ELSE "done"
  <2>1. /\ i \in Nat /\ i < op.dims[1] /\ op.dims[1] \in Nat /\ op'.dims = op.dims
        /\ j' = 0 /\ k' = 0 /\ i' = i + 1
    BY <1>4 DEF Position
  <2>2. CASE i + 1 < op.dims[1]
    <3>1. phase' = "run"
      BY <1>4, <2>2
    <3> QED BY <1>1, <2>1, <2>2, <3>1, ZeroIsMultiple DEF Position
  <2>3. CASE ~(i + 1 < op.dims[1])
    <3>1. phase' = "done" /\ i' = op.dims[1]
      BY <1>4, <2>1, <2>3
    <3> QED BY <2>1, <3>1 DEF Position
  <2> QED BY <2>2, <2>3
<1> QED BY <1>2, <1>3, <1>4 DEF Advance

LEMMA NextInv == Inv /\ [Next]_vars => Inv'
<1> SUFFICES ASSUME Inv, [Next]_vars PROVE Inv'
  OBVIOUS
<1>1. UNCHANGED op => \A n : isMinorIdentity(n)' = isMinorIdentity(n)
  BY DEF isMinorIdentity, IsLeft
<1>2. CASE TransferReadToLoad
  <2>1. ReadsOf(op) \subseteq Nat
    BY DEF ReadsOf
  <2> QED BY <1>1, <1>2, <2>1
           DEF TransferReadToLoad, Matches, Inv, TypeInv, Position
<1>3. CASE TransferWriteToStore
  BY <1>1, <1>3 DEF TransferWriteToStore, Matches, Inv, TypeInv, Position
<1>4. CASE EndPass
  BY <1>1, <1>4, Extents, ZeroIsMultiple
     DEF EndPass, Inv, TypeInv, Position, Depth, Columns
<1>5. CASE Iterate
  <2>1. UNCHANGED <<op, lowered>> /\ phase = "run" /\ Advance
    BY <1>5 DEF Iterate
  <2> QED BY <1>1, <2>1, AdvanceInv DEF Inv, TypeInv
<1>6. CASE UNCHANGED vars
  BY <1>1, <1>6 DEF vars, Inv, TypeInv, Position, Depth, Columns
<1> QED BY <1>2, <1>3, <1>4, <1>5, <1>6 DEF Next

\* If rows are whole vectors the vector at j ends in its row.
LEMMA VectorFits ==
  ASSUME Inv, phase = "run", WholeVectors
  PROVE  j + VectorSize <= Columns
<1> USE Extents DEF Inv
<1>1. PICK q \in Nat : j = VectorSize * q
  BY DEF Position
<1>2. PICK r \in Nat : Columns = VectorSize * r
  <2>1. Columns = VectorSize * (Columns \div VectorSize)
    BY DEF WholeVectors, Columns
  <2> QED BY <2>1
<1> QED BY <1>1, <1>2, MultiplesApart DEF Position

LEMMA InvInRow == Inv => AccessesInRow
<1> SUFFICES ASSUME Inv, phase = "run", WholeVectors, NEW n \in lowered
             PROVE  Row(n) < Rows(n) /\ \A l \in Lanes : InRow(n, l)
  BY DEF AccessesInRow
<1> USE Extents DEF Inv
<1>1. ~IsLeft(n)
  BY DEF TypeInv, isMinorIdentity
<1>2. Row(n) < Rows(n)
  BY DEF Row, Rows, Position, IsRight, Depth
<1>3. ASSUME NEW l \in Lanes PROVE InRow(n, l)
  <2>1. l \in Nat /\ l < VectorSize /\ j \in Nat
    BY DEF Lanes, Position
  <2>2. j + l < Columns
    BY <2>1, VectorFits
  <2> QED BY <1>1, <1>2, <2>2 DEF InRow, Column, Cols, Columns
<1> QED BY <1>2, <1>3

(***************************************************************************)
(* If rows are whole vectors, no load or store that CustomVectorOpt makes  *)
(* leaves the row of the transfer it replaces: the check on in_bounds that *)
(* the pattern does not make is then not needed.                           *)
(***************************************************************************)
THEOREM LoadsAndStoresInRow == Spec => []AccessesInRow
  BY InitInv, NextInv, InvInRow, PTL DEF Spec

-----------------------------------------------------------------------------
(***************************************************************************)
(* Rows in memory, one behind the other.                                   *)
(***************************************************************************)

\* A row further on starts at least a row further on.
LEMMA RowsApart ==
  ASSUME NEW r \in Nat, NEW s \in Nat, NEW C \in Nat, r < s
  PROVE  r * C + C <= s * C /\ r * C \in Nat /\ s * C \in Nat
<1>1. PICK d \in Nat : s = r + 1 + d
  <2>1. s - r - 1 \in Nat /\ s = r + 1 + (s - r - 1)
    OBVIOUS
  <2> QED BY <2>1
<1>2. s * C = r * C + C + d * C /\ d * C \in Nat /\ r * C \in Nat
  BY <1>1
<1> QED BY <1>2

LEMMA InBuffer ==
  ASSUME NEW r \in Nat, NEW c \in Nat, NEW R \in Nat, NEW C \in Nat, r < R, c < C
  PROVE  r * C + c \in Nat /\ r * C + c < R * C
<1>1. r * C + C <= R * C /\ r * C \in Nat /\ R * C \in Nat
  BY RowsApart
<1> QED BY <1>1

\* An element's address tells its row and column.
LEMMA Unique ==
  ASSUME NEW r \in Nat, NEW c \in Nat, NEW s \in Nat, NEW d \in Nat, NEW C \in Nat,
         c < C, d < C, r * C + c = s * C + d
  PROVE  r = s /\ c = d
<1>1. CASE r < s
  <2>1. r * C + C <= s * C /\ r * C \in Nat /\ s * C \in Nat
    BY <1>1, RowsApart
  <2> QED BY <2>1
<1>2. CASE s < r
  <2>1. s * C + C <= r * C /\ r * C \in Nat /\ s * C \in Nat
    BY <1>2, RowsApart
  <2> QED BY <2>1
<1>3. CASE r = s
  <2>1. r * C \in Nat
    OBVIOUS
  <2> QED BY <1>3, <2>1
<1> QED BY <1>1, <1>2, <1>3

\* Every address in a buffer is that of an element.
LEMMA Coordinates ==
  ASSUME NEW a \in Nat, NEW R \in Nat, NEW C \in Nat \ {0}, a < R * C
  PROVE  /\ a \div C \in Nat /\ a \div C < R
         /\ a % C \in Nat /\ a % C < C
         /\ a = (a \div C) * C + (a % C)
<1> DEFINE r == a \div C
           c == a % C
<1>1. r \in Nat /\ c \in Nat /\ c < C /\ a = C * r + c
  OBVIOUS
<1> HIDE DEF r, c
<1>2. C * r = r * C /\ r * C \in Nat
  BY <1>1
<1>3. r < R
  <2>1. CASE R <= r
    <3>1. R = r \/ R < r
      BY <1>1, <2>1
    <3>2. R < r => R * C + C <= r * C /\ R * C \in Nat
      BY <1>1, RowsApart
    <3> QED BY <1>1, <1>2, <3>1, <3>2
  <2> QED BY <1>1, <2>1
<1> QED BY <1>1, <1>2, <1>3 DEF r, c

LEMMA CoordinatesOf ==
  ASSUME NEW r \in Nat, NEW c \in Nat, NEW C \in Nat, c < C
  PROVE  (r * C + c) \div C = r /\ (r * C + c) % C = c
<1>1. r + 1 \in Nat /\ r < r + 1 /\ C \in Nat \ {0}
  OBVIOUS
<1> DEFINE a == r * C + c
<1>2. a \in Nat /\ a < (r + 1) * C
  BY <1>1, InBuffer
<1>3. /\ a \div C \in Nat /\ a % C \in Nat /\ a % C < C
      /\ a = (a \div C) * C + (a % C)
  <2> HIDE DEF a
  <2> QED BY <1>1, <1>2, Coordinates
<1>4. r = a \div C /\ c = a % C
  BY <1>3, Unique
<1> QED BY <1>4

\* A buffer of any allowed extents is within the addresses.
LEMMA AddressBound ==
  ASSUME NEW R \in 1..MaxDim, NEW C \in 1..MaxDim, NEW a \in Nat, a < R * C
  PROVE  a \in Address
<1>1. MaxDim \in Nat /\ VectorSize \in Nat
  BY MaxDimAssumption, VectorAssumption
<1>2. R * C <= R * MaxDim
  <2>1. PICK d \in Nat : MaxDim = C + d
    <3>1. MaxDim - C \in Nat /\ MaxDim = C + (MaxDim - C)
      BY <1>1
    <3> QED BY <3>1
  <2>2. R * MaxDim = R * C + R * d /\ R * d \in Nat /\ R * C \in Nat
    BY <2>1
  <2> QED BY <2>2
<1>3. R * MaxDim <= MaxDim * MaxDim
  <2>1. PICK d \in Nat : MaxDim = R + d
    <3>1. MaxDim - R \in Nat /\ MaxDim = R + (MaxDim - R)
      BY <1>1
    <3> QED BY <3>1
  <2>2. MaxDim * MaxDim = R * MaxDim + d * MaxDim /\ d * MaxDim \in Nat
        /\ R * MaxDim \in Nat
    BY <1>1, <2>1
  <2> QED BY <2>2
<1>4. R * C \in Nat /\ R * MaxDim \in Nat /\ MaxDim * MaxDim \in Nat
  BY <1>1
<1> QED BY <1>1, <1>2, <1>3, <1>4 DEF Address

-----------------------------------------------------------------------------
(***************************************************************************)
(* The buffers of an op. An op reads its inputs by their own coordinates,  *)
(* a matmul writes a buffer it does not read as a factor, and one that has *)
(* the same factor twice is square.                                        *)
(***************************************************************************)
WellFormed(o) ==
  /\ o.out \in Buffer
  /\ o.ins \in Seq([buf : Buffer, map : {"identity"}])
  /\ o.kind = "matmul" =>
       /\ Len(o.ins) = 2
       /\ o.out # o.ins[1].buf /\ o.out # o.ins[2].buf
       /\ o.ins[1].buf = o.ins[2].buf => o.dims[1] = o.depth /\ o.dims[2] = o.depth

\* What is assumed of the op, and nothing of the loops.
Op == op \in Ops /\ WellFormed(op)

LEMMA ElementOfSeq ==
  ASSUME NEW T, NEW s \in Seq(T), NEW n \in DOMAIN s
  PROVE  s[n] \in T
OBVIOUS

LEMMA OpShape ==
  ASSUME Op
  PROVE  /\ op.dims[1] \in 1..MaxDim /\ Columns \in 1..MaxDim
         /\ op.depth \in 1..MaxDim
         /\ op.kind \in {"elementwise", "fill", "matmul"}
         /\ Len(op.ins) \in Nat /\ DOMAIN op.ins = 1..Len(op.ins)
         /\ \A n \in DOMAIN op.ins : op.ins[n].buf \in Buffer /\ op.ins[n].map = "identity"
         /\ op.kind = "matmul" => Len(op.ins) = 2
         /\ op.out \in Buffer
<1>1. /\ op.dims[1] \in 1..MaxDim /\ Columns \in 1..MaxDim
      /\ op.depth \in 1..MaxDim
      /\ op.kind \in {"elementwise", "fill", "matmul"}
  BY VectorAssumption DEF Op, Columns
<1>2. op.ins \in Seq([buf : Buffer, map : {"identity"}])
  BY DEF Op, WellFormed
<1>3. Len(op.ins) \in Nat /\ DOMAIN op.ins = 1..Len(op.ins)
  BY <1>2
<1>4. \A n \in DOMAIN op.ins : op.ins[n] \in [buf : Buffer, map : {"identity"}]
  BY <1>2, ElementOfSeq
<1> QED BY <1>1, <1>3, <1>4 DEF Op, WellFormed

\* The transfers of a buffer agree on its extents.
LEMMA ShapesAgree ==
  ASSUME Op, NEW n \in 0..(Len(op.ins) + 1), op.kind # "matmul" \/ n \in 0..3
  PROVE  LET s == ShapeOf(BufferOf(n))
         IN  Rows(s) = Rows(n) /\ Cols(s) = Cols(n)
<1> DEFINE b == BufferOf(n)
           s == ShapeOf(b)
<1> SUFFICES Rows(s) = Rows(n) /\ Cols(s) = Cols(n)
  OBVIOUS
<1>1. s = 0 \/ (s \in DOMAIN op.ins /\ op.ins[s].buf = b)
  BY DEF ShapeOf
<1>2. CASE op.kind # "matmul"
  BY <1>2 DEF Rows, Cols, IsRight, IsLeft
<1>3. CASE op.kind = "matmul"
  <2>1. Len(op.ins) = 2 /\ DOMAIN op.ins = 1..2
    BY <1>3, OpShape
  <2>2. /\ op.out # op.ins[1].buf /\ op.out # op.ins[2].buf
        /\ op.ins[1].buf = op.ins[2].buf => op.dims[1] = op.depth /\ op.dims[2] = op.depth
    BY <1>3 DEF Op, WellFormed
  <2>3. CASE n \in {1, 2}
    <3>1. b = op.ins[n].buf
      BY <2>1, <2>3 DEF BufferOf
    <3>2. s \in {1, 2} /\ op.ins[s].buf = b
      BY <2>1, <2>3, <3>1 DEF ShapeOf
    <3> HIDE DEF s, b
    <3> QED BY <1>3, <2>2, <2>3, <3>1, <3>2 DEF Rows, Cols, IsRight, IsLeft
  <2>4. CASE n \notin {1, 2}
    <3>1. b = op.out
      BY <2>1, <2>4 DEF BufferOf
    <3>2. s = 0
      BY <1>1, <2>1, <2>2, <3>1
    <3> HIDE DEF s, b
    <3> QED BY <2>4, <3>2 DEF Rows, Cols, IsRight, IsLeft
  <2> QED BY <2>3, <2>4
<1> QED BY <1>2, <1>3

\* The extents a buffer has.
LEMMA ShapeBounds ==
  ASSUME Op, NEW n
  PROVE  Rows(n) \in 1..MaxDim /\ Cols(n) \in 1..MaxDim
BY OpShape DEF Rows, Cols, Columns

\* What memory holds of an element to begin with.
LEMMA InitElement ==
  ASSUME Op, NEW b \in Buffer, NEW r \in Nat, NEW c \in Nat,
         r < Rows(ShapeOf(b)), c < Cols(ShapeOf(b))
  PROVE  InitMem[b][r * Cols(ShapeOf(b)) + c] = <<b, <<r, c>>>>
<1> DEFINE R == Rows(ShapeOf(b))
           C == Cols(ShapeOf(b))
           a == r * C + c
<1>1. R \in 1..MaxDim /\ C \in 1..MaxDim /\ R \in Nat /\ C \in Nat /\ C # 0
  BY ShapeBounds, MaxDimAssumption
<1>2. a \in Nat /\ a < R * C
  BY <1>1, InBuffer
<1>3. a \in Address
  <2> HIDE DEF R, C, a
  <2> QED BY <1>1, <1>2, AddressBound
<1>4. a \div C = r /\ a % C = c
  BY <1>1, CoordinatesOf
<1>5. InitMem[b][a] = IF a < R * C THEN <<b, <<a \div C, a % C>>>>
                      ELSE <<b, <<MaxDim + 1, a>>>>
  BY <1>3 DEF InitMem
<1> HIDE DEF R, C
<1> QED BY <1>2, <1>4, <1>5 DEF R, C

-----------------------------------------------------------------------------
(***************************************************************************)
(* What memory holds while the nest runs.                                  *)
(***************************************************************************)

\* The terms of the sum for the element <<r, c>> after d steps.
Term(o, r, c, n) ==
  IF n = 1 THEN <<o.out, <<r, c>>>>
  ELSE IF n % 2 = 0 THEN <<o.ins[1].buf, <<r, (n - 2) \div 2>>>>
  ELSE <<o.ins[2].buf, <<(n - 3) \div 2, c>>>>

Products(o, r, c, d) == [n \in 1..(2 * d + 1) |-> Term(o, r, c, n)]

Inputs(o, r, c) ==
  [n \in ReadsOf(o) |->
     <<IF n \in DOMAIN o.ins THEN o.ins[n].buf ELSE o.out, <<r, c>>>>]

\* The element <<r, c>> of the output after d steps.
Partial(o, r, c, d) ==
  IF d = 0 THEN <<o.out, <<r, c>>>>
  ELSE <<o.kind, IF o.kind = "matmul" THEN Products(o, r, c, d) ELSE Inputs(o, r, c)>>

\* The same when the loops stand at ii, jj and kk.
Held(o, r, c, ii, jj, kk) ==
  IF r < ii \/ (r = ii /\ c < jj)
  THEN Partial(o, r, c, IF o.kind = "matmul" THEN o.depth ELSE 1)
  ELSE IF r = ii /\ c < jj + VectorSize THEN Partial(o, r, c, kk)
  ELSE Partial(o, r, c, 0)

\* Only the output changes, only within its extents, and element by element.
MemOK ==
  /\ DOMAIN mem = Buffer
  /\ \A b \in Buffer \ {op.out} : mem[b] = InitMem[b]
  /\ \A a \in Address :
       a >= op.dims[1] * Columns => mem[op.out][a] = InitMem[op.out][a]
  /\ \A r, c \in Nat :
       r < op.dims[1] /\ c < Columns =>
         mem[op.out][r * Columns + c] = Held(op, r, c, i, j, k)

\* What the nest computes needs an op as above, and rows of whole vectors or
\* transfers that stayed.
Computed == WellFormed(op) /\ (WholeVectors \/ ~op.static) => MemOK

\* The output has the extents of the op.
LEMMA OutShape ==
  ASSUME Op
  PROVE  Rows(ShapeOf(op.out)) = op.dims[1] /\ Cols(ShapeOf(op.out)) = Columns
<1>1. 0 \in 0..(Len(op.ins) + 1) /\ 0 \in 0..3 /\ BufferOf(0) = op.out
  BY OpShape DEF BufferOf
<1>2. Rows(0) = op.dims[1] /\ Cols(0) = Columns
  BY DEF Rows, Cols, IsRight, IsLeft, Columns
<1> QED BY <1>1, <1>2, ShapesAgree

LEMMA InitMemStays == UNCHANGED op => InitMem' = InitMem
<1> SUFFICES ASSUME UNCHANGED op PROVE InitMem' = InitMem
  OBVIOUS
<1>1. \A b : ShapeOf(b)' = ShapeOf(b)
  BY Zenon DEF ShapeOf
<1>2. \A n : Rows(n)' = Rows(n) /\ Cols(n)' = Cols(n)
  BY DEF Rows, Cols, IsRight, IsLeft
<1> QED BY <1>1, <1>2, Zenon DEF InitMem

\* To begin with the output holds its own elements.
LEMMA InitComputed == Init => Computed
<1> SUFFICES ASSUME Init, WellFormed(op) PROVE MemOK
  BY DEF Computed
<1>1. Op /\ mem = InitMem /\ i = 0 /\ j = 0 /\ k = 0
  BY DEF Init, Op
<1>2. op.out \in Buffer /\ DOMAIN mem = Buffer
  BY <1>1, OpShape DEF InitMem
<1>3. ASSUME NEW r \in Nat, NEW c \in Nat, r < op.dims[1], c < Columns
      PROVE  mem[op.out][r * Columns + c] = Held(op, r, c, i, j, k)
  <2>1. mem[op.out][r * Columns + c] = <<op.out, <<r, c>>>>
    BY <1>1, <1>2, <1>3, OutShape, InitElement
  <2>2. Held(op, r, c, 0, 0, 0) = Partial(op, r, c, 0)
    BY <1>3 DEF Held
  <2> QED BY <1>1, <2>1, <2>2 DEF Partial
<1> QED BY <1>1, <1>2, <1>3 DEF MemOK

\* A buffer that is not the output still holds its own elements.
LEMMA InputElement ==
  ASSUME Op, MemOK, NEW n \in 0..(Len(op.ins) + 1), op.kind # "matmul" \/ n \in 0..3,
         BufferOf(n) # op.out,
         NEW r \in Nat, NEW c \in Nat, r < Rows(n), c < Cols(n)
  PROVE  mem[BufferOf(n)][r * Cols(n) + c] = <<BufferOf(n), <<r, c>>>>
<1> DEFINE b == BufferOf(n)
           s == ShapeOf(b)
<1>1. Rows(s) = Rows(n) /\ Cols(s) = Cols(n)
  BY ShapesAgree
<1>2. b \in Buffer /\ b # op.out
  BY OpShape DEF BufferOf
<1>3. mem[b] = InitMem[b]
  BY <1>2 DEF MemOK
<1>4. InitMem[b][r * Cols(s) + c] = <<b, <<r, c>>>>
  <2>1. r < Rows(s) /\ c < Cols(s)
    BY <1>1
  <2> QED BY <1>2, <2>1, InitElement
<1> QED BY <1>1, <1>3, <1>4

\* Products grow by two factors.
LEMMA ProductsStep ==
  ASSUME NEW o, NEW r, NEW c, NEW d \in Nat
  PROVE  Products(o, r, c, d + 1)
           = Products(o, r, c, d) \o <<<<o.ins[1].buf, <<r, d>>>>, <<o.ins[2].buf, <<d, c>>>>>>
<1> DEFINE x == <<o.ins[1].buf, <<r, d>>>>
           y == <<o.ins[2].buf, <<d, c>>>>
           P == Products(o, r, c, d)
           Q == Products(o, r, c, d + 1)
           N == 2 * d + 1
<1>1. /\ N \in Nat /\ N + 1 = 2 * (d + 1) /\ N + 2 = 2 * (d + 1) + 1 /\ N + 1 > 1
      /\ (N + 1) % 2 = 0 /\ (N + 2) % 2 = 1
      /\ (N + 1 - 2) \div 2 = d /\ (N + 2 - 3) \div 2 = d
  OBVIOUS
<1>2. DOMAIN P = 1..N /\ DOMAIN Q = 1..(N + 2)
  BY <1>1 DEF Products
<1>3. Q = [n \in 1..(N + 2) |-> Term(o, r, c, n)] /\ P = [n \in 1..N |-> Term(o, r, c, n)]
  BY <1>1 DEF Products
<1>4. \A n \in 1..N : P[n] = Term(o, r, c, n)
  BY <1>3
<1>5. Term(o, r, c, N + 1) = x /\ Term(o, r, c, N + 2) = y
  <2> HIDE DEF N
  <2> QED BY <1>1 DEF Term
<1> SUFFICES Q = P \o <<x, y>>
  OBVIOUS
<1> HIDE DEF P, Q, x, y, N
<1>6. P \o <<x, y>> = [n \in 1..(N + 2) |-> IF n <= N THEN P[n] ELSE <<x, y>>[n - N]]
  <2>1. P \in Seq({Term(o, r, c, n) : n \in 1..N}) /\ Len(P) = N
    BY <1>1, <1>3
  <2>2. Len(<<x, y>>) = 2
    OBVIOUS
  <2> QED BY <1>1, <2>1, <2>2
<1>7. \A n \in 1..(N + 2) : n \in 1..N \/ n = N + 1 \/ n = N + 2
  BY <1>1
<1>8. \A n \in 1..(N + 2) : Term(o, r, c, n) = IF n <= N THEN P[n] ELSE <<x, y>>[n - N]
  BY <1>1, <1>4, <1>5, <1>7
<1> QED BY <1>3, <1>6, <1>8

\* A lane within the row reads the element at its column, lowered or not.
LEMMA LaneElement ==
  ASSUME Inv, Op, phase = "run", NEW n \in ReadsOf(op), NEW l \in Lanes, j + l < Columns
  PROVE  Lane(n, l) = mem[BufferOf(n)][Row(n) * Cols(n) + IF IsLeft(n) THEN k ELSE j + l]
<1> USE Extents DEF Inv
<1>1. /\ i \in Nat /\ j \in Nat /\ k \in Nat /\ l \in Nat
  BY DEF Position, Lanes
<1>2. Row(n) \in Nat /\ Cols(n) \in Nat /\ Row(n) * Cols(n) \in Nat
  BY <1>1, ShapeBounds, MaxDimAssumption DEF Row
<1>3. CASE IsLeft(n)
  <2>1. n \notin lowered
    BY <1>3 DEF TypeInv, isMinorIdentity
  <2>2. AddressOf(n) + 0 = Row(n) * Cols(n) + k
    BY <1>1, <1>2, <1>3 DEF AddressOf, Column
  <2>3. Cols(n) = Depth /\ Column(n) = k
    BY <1>3 DEF Cols, Depth, Column, IsLeft
  <2>4. InRow(n, 0)
    BY <1>1, <2>3 DEF InRow, Position
  <2> QED BY <1>3, <2>1, <2>2, <2>4 DEF Lane
<1>4. CASE ~IsLeft(n)
  <2>1. InRow(n, l)
    BY <1>4 DEF InRow, Column, Cols, Columns
  <2>2. AddressOf(n) + l = Row(n) * Cols(n) + (j + l)
    BY <1>1, <1>2, <1>4 DEF AddressOf, Column
  <2>3. Lane(n, l) = mem[BufferOf(n)][AddressOf(n) + l]
    BY <1>4, <2>1 DEF Lane
  <2> QED BY <1>4, <2>2, <2>3
<1> QED BY <1>3, <1>4

\* A lane of the output reads what it held.
LEMMA OutputLane ==
  ASSUME Inv, Op, MemOK, phase = "run", NEW n \in ReadsOf(op), BufferOf(n) = op.out,
         op.kind = "matmul" => n = 3,
         NEW l \in Lanes, j + l < Columns
  PROVE  Lane(n, l) = Partial(op, i, j + l, k)
<1> USE Extents DEF Inv
<1>1. /\ i \in Nat /\ j \in Nat /\ k \in Nat /\ l \in Nat /\ j + l \in Nat
      /\ i < op.dims[1] /\ l < VectorSize
  BY DEF Position, Lanes
<1>2. ~IsLeft(n) /\ ~IsRight(n)
  BY DEF IsLeft, IsRight
<1>3. Row(n) = i /\ Cols(n) = Columns
  BY <1>2 DEF Row, Cols, Columns
<1>4. Lane(n, l) = mem[op.out][i * Columns + (j + l)]
  BY <1>2, <1>3, LaneElement
<1>5. mem[op.out][i * Columns + (j + l)] = Held(op, i, j + l, i, j, k)
  BY <1>1 DEF MemOK
<1>6. Held(op, i, j + l, i, j, k) = Partial(op, i, j + l, k)
  BY <1>1 DEF Held
<1> QED BY <1>4, <1>5, <1>6

\* What a lane computes is one more step of its element.
LEMMA ResultIsPartial ==
  ASSUME Inv, Op, MemOK, phase = "run", NEW l \in Lanes, j + l < Columns
  PROVE  Result(l) = Partial(op, i, j + l, k + 1)
<1> USE Extents DEF Inv
<1>1. /\ i \in Nat /\ j \in Nat /\ k \in Nat /\ l \in Nat /\ j + l \in Nat
      /\ i < op.dims[1] /\ k < Depth /\ k + 1 # 0
  BY DEF Position, Lanes
<1>2. /\ Len(op.ins) \in Nat /\ DOMAIN op.ins = 1..Len(op.ins)
      /\ op.kind = "matmul" => Len(op.ins) = 2
      /\ op.kind = "matmul" => op.out # op.ins[1].buf /\ op.out # op.ins[2].buf
  BY OpShape DEF Op, WellFormed
<1>3. CASE op.kind = "matmul"
  <2>1. ReadsOf(op) = 1..3
    <3>1. Len(op.ins) = 2
      BY <1>2, <1>3
    <3>2. ReadsOf(op) = 1..(2 + 1)
      BY <1>3, <3>1 DEF ReadsOf
    <3> QED BY <3>2
  <2>2. BufferOf(1) = op.ins[1].buf /\ BufferOf(2) = op.ins[2].buf /\ BufferOf(3) = op.out
    BY <1>2, <1>3 DEF BufferOf
  <2>3. Lane(3, l) = Partial(op, i, j + l, k)
    BY <1>3, <2>1, <2>2, OutputLane
  <2>4. Lane(1, l) = <<op.ins[1].buf, <<i, k>>>>
    <3>1. /\ IsLeft(1) /\ Row(1) = i /\ Rows(1) = op.dims[1] /\ Cols(1) = op.depth
          /\ Depth = op.depth
      BY <1>3 DEF IsLeft, IsRight, Row, Rows, Cols, Depth
    <3>2. Lane(1, l) = mem[BufferOf(1)][Row(1) * Cols(1) + k]
      BY <2>1, <3>1, LaneElement
    <3>3. 1 \in 0..(Len(op.ins) + 1) /\ 1 \in 0..3 /\ BufferOf(1) # op.out
      BY <1>2, <1>3, <2>2
    <3>4. mem[BufferOf(1)][i * Cols(1) + k] = <<BufferOf(1), <<i, k>>>>
      BY <1>1, <3>1, <3>3, InputElement
    <3> QED BY <2>2, <3>1, <3>2, <3>4
  <2>5. Lane(2, l) = <<op.ins[2].buf, <<k, j + l>>>>
    <3>1. /\ ~IsLeft(2) /\ Row(2) = k /\ Rows(2) = op.depth /\ Cols(2) = Columns
          /\ Depth = op.depth
      BY <1>3 DEF IsLeft, IsRight, Row, Rows, Cols, Depth, Columns
    <3>2. Lane(2, l) = mem[BufferOf(2)][Row(2) * Cols(2) + (j + l)]
      BY <2>1, <3>1, LaneElement
    <3>3. 2 \in 0..(Len(op.ins) + 1) /\ 2 \in 0..3 /\ BufferOf(2) # op.out
      BY <1>2, <1>3, <2>2
    <3>4. mem[BufferOf(2)][k * Cols(2) + (j + l)] = <<BufferOf(2), <<k, j + l>>>>
      BY <1>1, <3>1, <3>3, InputElement
    <3> QED BY <2>2, <3>1, <3>2, <3>4
  <2> DEFINE P == Products(op, i, j + l, k)
  <2>6. (IF k = 0 THEN <<Lane(3, l)>> ELSE Lane(3, l)[2]) = P
    <3>1. CASE k = 0
      <4>1. P = <<Term(op, i, j + l, 1)>>
        <5>1. 2 * k + 1 = 1
          BY <3>1
        <5> QED BY <5>1 DEF Products
      <4>2. Lane(3, l) = Term(op, i, j + l, 1)
        BY <2>3, <3>1 DEF Partial, Term
      <4> QED BY <3>1, <4>1, <4>2
    <3>2. CASE k # 0
      BY <1>3, <2>3, <3>2 DEF Partial
    <3> QED BY <3>1, <3>2
  <2>7. Result(l) = <<op.kind, P \o <<<<op.ins[1].buf, <<i, k>>>>, <<op.ins[2].buf, <<k, j + l>>>>>>>>
    BY <1>3, <2>4, <2>5, <2>6 DEF Result, MulAdd, Compute
  <2>8. Products(op, i, j + l, k + 1)
          = P \o <<<<op.ins[1].buf, <<i, k>>>>, <<op.ins[2].buf, <<k, j + l>>>>>>
    BY <1>1, ProductsStep
  <2> QED BY <1>1, <1>3, <2>7, <2>8 DEF Partial
<1>4. CASE op.kind # "matmul"
  <2>1. k = 0
    BY <1>1, <1>4 DEF Depth
  <2>2. ASSUME NEW n \in ReadsOf(op)
        PROVE  Lane(n, l) = <<IF n \in DOMAIN op.ins THEN op.ins[n].buf ELSE op.out,
                              <<i, j + l>>>>
    <3>1. n \in 1..(Len(op.ins) + 1)
      BY <2>2 DEF ReadsOf
    <3>2. /\ ~IsLeft(n) /\ ~IsRight(n)
          /\ Row(n) = i /\ Rows(n) = op.dims[1] /\ Cols(n) = Columns
      BY <1>4 DEF IsLeft, IsRight, Row, Rows, Cols, Columns
    <3>3. Lane(n, l) = <<BufferOf(n), <<i, j + l>>>>
      <4>1. CASE BufferOf(n) = op.out
        BY <1>4, <2>1, <4>1, OutputLane DEF Partial
      <4>2. CASE BufferOf(n) # op.out
        <5>1. Lane(n, l) = mem[BufferOf(n)][i * Cols(n) + (j + l)]
          BY <3>2, LaneElement
        <5>2. n \in 0..(Len(op.ins) + 1)
          BY <1>2, <3>1
        <5>3. mem[BufferOf(n)][i * Cols(n) + (j + l)] = <<BufferOf(n), <<i, j + l>>>>
          BY <1>1, <1>4, <3>2, <4>2, <5>2, InputElement
        <5> QED BY <5>1, <5>3
      <4> QED BY <4>1, <4>2
    <3> QED BY <3>3 DEF BufferOf
  <2>3. [n \in ReadsOf(op) |-> Lane(n, l)] = Inputs(op, i, j + l)
    BY <2>2 DEF Inputs
  <2>4. Result(l) = <<op.kind, Inputs(op, i, j + l)>>
    BY <1>4, <2>3 DEF Result, Compute
  <2> QED BY <1>1, <1>4, <2>4 DEF Partial
<1> QED BY <1>3, <1>4

-----------------------------------------------------------------------------
\* The lanes the write of an iteration keeps are those within the row.
LEMMA LanesWritten ==
  ASSUME Inv, Op, WholeVectors \/ ~op.static, phase = "run"
  PROVE  Written = {l \in Lanes : j + l < Columns}
<1> USE Extents DEF Inv
<1>1. \A l \in Lanes : InRow(0, l) <=> j + l < Columns
  BY DEF InRow, Column, Cols, Columns, IsLeft
<1>2. CASE WholeVectors
  <2>1. \A l \in Lanes : j + l < Columns
    BY <1>2, VectorFits DEF Position, Lanes
  <2> QED BY <1>1, <2>1 DEF Written
<1>3. CASE ~op.static
  <2>1. 0 \notin lowered
    BY <1>3 DEF TypeInv
  <2> QED BY <1>1, <2>1 DEF Written
<1> QED BY <1>2, <1>3

\* An address is one the iteration writes if its element is in the vector.
WrittenAt(r, c) ==
  /\ (r * Columns + c) - AddressOf(0) \in Written
       <=> (r = i /\ j <= c /\ c < j + VectorSize)
  /\ r = i => (r * Columns + c) - AddressOf(0) = c - j

LEMMA AddressWritten ==
  ASSUME Inv, Op, WholeVectors \/ ~op.static, phase = "run",
         NEW r \in Nat, NEW c \in Nat, c < Columns
  PROVE  WrittenAt(r, c)
<1> USE Extents DEF Inv
<1> DEFINE d == (r * Columns + c) - AddressOf(0)
<1>1. i \in Nat /\ j \in Nat /\ i * Columns \in Nat /\ r * Columns \in Nat
  BY DEF Position
<1>2. AddressOf(0) = i * Columns + j
  BY DEF AddressOf, Row, Cols, Column, IsRight, IsLeft, Columns
<1>3. r = i => d = c - j
  BY <1>1, <1>2
<1>4. ASSUME d \in Written PROVE r = i /\ j <= c /\ c < j + VectorSize
  <2>1. d \in Nat /\ d < VectorSize /\ j + d < Columns
    BY <1>4, LanesWritten DEF Lanes
  <2>2. r * Columns + c = i * Columns + (j + d) /\ j + d \in Nat
    BY <1>1, <1>2, <2>1
  <2> HIDE DEF d
  <2>3. r = i /\ c = j + d
    BY <1>1, <2>1, <2>2, Unique
  <2> QED BY <1>1, <2>1, <2>3
<1>5. ASSUME r = i, j <= c, c < j + VectorSize PROVE d \in Written
  <2>1. c - j \in Lanes /\ j + (c - j) < Columns
    BY <1>1, <1>5 DEF Lanes
  <2>2. c - j \in Written
    BY <2>1, LanesWritten
  <2> QED BY <1>3, <1>5, <2>2
<1> QED BY <1>3, <1>4, <1>5 DEF WrittenAt

\* An element is in front of the vector, in it or behind it, and the loops
\* move on as the vector is done.
LEMMA HeldAdvances ==
  ASSUME Inv, phase = "run", Advance,
         NEW r \in Nat, NEW c \in Nat, c < Columns
  PROVE  Held(op, r, c, i', j', k')
           = IF r = i /\ j <= c /\ c < j + VectorSize THEN Partial(op, r, c, k + 1)
             ELSE Held(op, r, c, i, j, k)
<1> USE Extents DEF Inv
<1>1. i \in Nat /\ j \in Nat /\ k \in Nat /\ k < Depth
  BY DEF Position
<1>2. Depth = IF op.kind = "matmul" THEN op.depth ELSE 1
  BY DEF Depth
<1>3. CASE k + 1 < Depth /\ k' = k + 1 /\ UNCHANGED <<i, j, phase>>
  BY <1>1, <1>3 DEF Held
<1>4. CASE /\ k + 1 >= Depth /\ j + VectorSize < op.dims[2]
           /\ k' = 0 /\ j' = j + VectorSize /\ UNCHANGED <<i, phase>>
  <2>1. k + 1 = Depth
    BY <1>1, <1>4
  <2> QED BY <1>1, <1>2, <1>4, <2>1 DEF Held
<1>5. CASE /\ k + 1 >= Depth /\ j + VectorSize >= op.dims[2]
           /\ k' = 0 /\ j' = 0 /\ i' = i + 1
           /\ phase' = IF i + 1 < op.dims[1] THEN "run" ELSE "done"
  <2>1. k + 1 = Depth
    BY <1>1, <1>5
  <2>2. c < j + VectorSize
    BY <1>1, <1>5 DEF Columns
  <2> QED BY <1>1, <1>2, <1>5, <2>1, <2>2 DEF Held
<1> QED BY <1>3, <1>4, <1>5 DEF Advance

LEMMA IterateComputes ==
  ASSUME Inv, Op, MemOK, WholeVectors \/ ~op.static, Iterate
  PROVE  MemOK'
<1> USE Extents DEF Inv
<1> DEFINE new == [a \in Address |-> IF a - AddressOf(0) \in Written
                                     THEN Result(a - AddressOf(0))
                                     ELSE mem[op.out][a]]
<1>1. /\ phase = "run" /\ Advance /\ UNCHANGED op
      /\ mem' = [mem EXCEPT ![op.out] = new]
  BY DEF Iterate
<1>2. op.out \in Buffer /\ DOMAIN mem = Buffer
  BY OpShape DEF MemOK
<1>3. /\ DOMAIN mem' = Buffer /\ mem'[op.out] = new
      /\ \A b \in Buffer \ {op.out} : mem'[b] = mem[b]
  BY <1>1, <1>2
<1>4. Columns' = Columns /\ InitMem' = InitMem /\ op' = op
  BY <1>1, InitMemStays DEF Columns
<1>5. \A b \in Buffer \ {op.out} : mem'[b] = InitMem[b]
  BY <1>3 DEF MemOK
<1>6. i \in Nat /\ j \in Nat /\ i < op.dims[1] /\ j < Columns
  BY <1>1 DEF Position
<1>7. ASSUME NEW a \in Address, a >= op.dims[1] * Columns
      PROVE  mem'[op.out][a] = InitMem[op.out][a]
  <2>1. a - AddressOf(0) \notin Written
    <3> SUFFICES ASSUME NEW l \in Written, l = a - AddressOf(0) PROVE FALSE
      OBVIOUS
    <3>1. l \in Nat /\ j + l < Columns
      BY <1>1, LanesWritten DEF Lanes
    <3>2. AddressOf(0) = i * Columns + j /\ i * Columns \in Nat
      BY <1>6 DEF AddressOf, Row, Cols, Column, IsRight, IsLeft, Columns
    <3>3. a \in Int
      BY MaxDimAssumption DEF Address
    <3>4. a = i * Columns + (j + l) /\ j + l \in Nat
      BY <1>6, <3>1, <3>2, <3>3
    <3>5. i * Columns + (j + l) < op.dims[1] * Columns
      BY <1>6, <3>1, <3>4, InBuffer
    <3> QED BY <1>6, <1>7, <3>3, <3>4, <3>5
  <2>2. new[a] = mem[op.out][a]
    BY <1>7, <2>1
  <2> QED BY <1>3, <1>7, <2>2 DEF MemOK
<1>8. ASSUME NEW r \in Nat, NEW c \in Nat, r < op.dims[1], c < Columns
      PROVE  mem'[op.out][r * Columns + c] = Held(op, r, c, i', j', k')
  <2> DEFINE a == r * Columns + c
  <2>0. /\ a - AddressOf(0) \in Written <=> (r = i /\ j <= c /\ c < j + VectorSize)
        /\ r = i => a - AddressOf(0) = c - j
    <3>1. phase = "run" /\ c < Columns
      BY <1>1, <1>8
    <3>2. WrittenAt(r, c)
      BY <3>1, AddressWritten, Zenon
    <3> QED BY <3>2 DEF WrittenAt
  <2>1. a \in Address
    <3>1. /\ op.dims[1] \in 1..MaxDim /\ Columns \in 1..MaxDim
          /\ op.dims[1] \in Nat /\ Columns \in Nat
      BY OpShape
    <3>2. a \in Nat /\ a < op.dims[1] * Columns
      BY <1>8, <3>1, InBuffer
    <3> HIDE DEF a
    <3> QED BY <3>1, <3>2, AddressBound
  <2>2. new[a] = IF a - AddressOf(0) \in Written THEN Result(a - AddressOf(0))
                 ELSE mem[op.out][a]
    BY <2>1
  <2>3. mem[op.out][a] = Held(op, r, c, i, j, k)
    BY <1>8 DEF MemOK
  <2>4. CASE r = i /\ j <= c /\ c < j + VectorSize
    <3>1. a - AddressOf(0) \in Written /\ a - AddressOf(0) = c - j
      BY <2>0, <2>4
    <3>2. c - j \in Lanes /\ j + (c - j) = c
      BY <1>6, <2>4 DEF Lanes
    <3>3. Result(c - j) = Partial(op, r, c, k + 1)
      <4>1. Result(c - j) = Partial(op, i, j + (c - j), k + 1)
        BY <1>1, <1>8, <3>2, ResultIsPartial
      <4> QED BY <2>4, <3>2, <4>1
    <3> QED BY <1>1, <1>3, <1>8, <2>2, <2>4, <3>1, <3>3, HeldAdvances
  <2>5. CASE ~(r = i /\ j <= c /\ c < j + VectorSize)
    <3>1. a - AddressOf(0) \notin Written
      BY <2>0, <2>5
    <3> QED BY <1>1, <1>3, <1>8, <2>2, <2>3, <2>5, <3>1, HeldAdvances
  <2> QED BY <2>4, <2>5
<1> QED BY <1>3, <1>4, <1>5, <1>7, <1>8 DEF MemOK

LEMMA NextComputed == Inv /\ Computed /\ [Next]_vars => Computed'
<1> SUFFICES ASSUME Inv, Computed, [Next]_vars, WellFormed(op'), (WholeVectors \/ ~op.static)'
             PROVE  MemOK'
  BY DEF Computed
<1>1. UNCHANGED op
  BY DEF Next, TransferReadToLoad, TransferWriteToStore, EndPass, Iterate, vars
<1>2. Op /\ MemOK /\ (WholeVectors \/ ~op.static)
  BY <1>1 DEF Computed, Op, Inv, TypeInv, WholeVectors
<1>3. CASE Iterate
  BY <1>2, <1>3, IterateComputes
<1>4. CASE UNCHANGED <<op, i, j, k, mem>>
  <2>1. Columns' = Columns /\ InitMem' = InitMem
    BY <1>1, InitMemStays DEF Columns
  <2> QED BY <1>2, <1>4, <2>1 DEF MemOK
<1> QED BY <1>3, <1>4
        DEF Next, TransferReadToLoad, TransferWriteToStore, EndPass, vars

-----------------------------------------------------------------------------
(***************************************************************************)
(* What the nest leaves against what the op computes.                      *)
(***************************************************************************)
LEMMA IndexPair ==
  ASSUME NEW x \in Index
  PROVE  /\ DOMAIN x = 1..Len(x) /\ Len(x) \in Nat
         /\ Len(x) = 2 => /\ x = <<x[1], x[2]>>
                          /\ x[1] \in Nat /\ x[2] \in Nat
                          /\ x[1] \in 0..MaxDim /\ x[2] \in 0..MaxDim
<1>1. PICK rank \in 0..2 : x \in [1..rank -> 0..MaxDim]
  BY DEF Index
<1>2. Len(x) = rank /\ DOMAIN x = 1..rank /\ rank \in Nat
  BY <1>1
<1>3. CASE rank = 2
  BY <1>1, <1>2, <1>3, MaxDimAssumption
<1> QED BY <1>2, <1>3

LEMMA PairIndex ==
  ASSUME NEW r \in 0..MaxDim, NEW c \in 0..MaxDim
  PROVE  <<r, c>> \in Index
<1>1. <<r, c>> \in [1..2 -> 0..MaxDim]
  OBVIOUS
<1> QED BY <1>1 DEF Index

\* Every element of the distinct memory is its own name.
LEMMA FetchDistinct ==
  ASSUME NEW D, NEW reads \in [D -> Buffer \X Index]
  PROVE  Fetch(Distinct, reads) = reads
<1>1. ASSUME NEW n \in D PROVE Distinct[reads[n][1]][reads[n][2]] = reads[n]
  <2>1. reads[n] \in Buffer \X Index
    OBVIOUS
  <2>2. PICK b \in Buffer, y \in Index : reads[n] = <<b, y>>
    BY <2>1
  <2> QED BY <2>2 DEF Distinct
<1> QED BY <1>1 DEF Fetch

\* The space of the op, by coordinates.
LEMMA SpacePoints ==
  ASSUME Op, NEW x \in Index
  PROVE  x \in Space(op) <=> (Len(x) = 2 /\ x[1] < op.dims[1] /\ x[2] < Columns)
<1>1. DOMAIN op.dims = 1..2
  BY VectorAssumption DEF Op
<1>2. DOMAIN x = 1..Len(x) /\ Len(x) \in Nat
  BY IndexPair
<1>3. DOMAIN x = DOMAIN op.dims <=> Len(x) = 2
  BY <1>1, <1>2
<1>4. x \in Space(op) <=> /\ DOMAIN x = DOMAIN op.dims
                          /\ \A d \in DOMAIN x : x[d] < op.dims[d]
  BY DEF Space
<1> QED BY <1>1, <1>3, <1>4 DEF Columns

\* The sums and inputs the loops collect are what the op reads.
LEMMA ReadsCollected ==
  ASSUME Op, NEW r \in Nat, NEW c \in Nat, r < op.dims[1], c < Columns
  PROVE  Partial(op, r, c, Depth) = Compute(op, Fetch(Distinct, Reads(op, <<r, c>>)))
<1> DEFINE reads == Reads(op, <<r, c>>)
           values == IF op.kind = "matmul" THEN Products(op, r, c, op.depth)
                     ELSE Inputs(op, r, c)
<1>1. /\ op.dims[1] \in 1..MaxDim /\ Columns \in 1..MaxDim /\ op.depth \in 1..MaxDim
      /\ MaxDim \in Nat
  BY OpShape, MaxDimAssumption
<1>2. /\ Len(op.ins) \in Nat /\ DOMAIN op.ins = 1..Len(op.ins) /\ op.out \in Buffer
      /\ \A n \in DOMAIN op.ins : op.ins[n].buf \in Buffer /\ op.ins[n].map = "identity"
  BY OpShape
<1>3. r \in 0..MaxDim /\ c \in 0..MaxDim
  BY <1>1
<1>4. <<r, c>> \in Index
  BY <1>3, PairIndex
<1>5. \A n \in DOMAIN op.ins : \A x : Element(op.ins[n], x) = <<op.ins[n].buf, x>>
  BY <1>2 DEF Element
<1>6. reads = values /\ \E D : values \in [D -> Buffer \X Index]
  <2>1. CASE op.kind = "elementwise"
    <3>1. ReadsOf(op) = 1..(Len(op.ins) + 1) /\ op.kind # "matmul"
      BY <2>1 DEF ReadsOf
    <3>2. reads = [n \in 1..(Len(op.ins) + 1) |->
                     IF n <= Len(op.ins) THEN Element(op.ins[n], <<r, c>>)
                     ELSE <<op.out, <<r, c>>>>]
      BY <2>1 DEF Reads
    <3>3. \A n \in 1..(Len(op.ins) + 1) : n <= Len(op.ins) <=> n \in DOMAIN op.ins
      BY <1>2
    <3>4. values = [n \in 1..(Len(op.ins) + 1) |->
                      <<IF n \in DOMAIN op.ins THEN op.ins[n].buf ELSE op.out, <<r, c>>>>]
      BY <3>1 DEF Inputs
    <3>5. reads = values
      <4>1. \A n \in 1..(Len(op.ins) + 1) :
              (IF n <= Len(op.ins) THEN Element(op.ins[n], <<r, c>>)
               ELSE <<op.out, <<r, c>>>>)
                = <<IF n \in DOMAIN op.ins THEN op.ins[n].buf ELSE op.out, <<r, c>>>>
        BY <1>5, <3>3
      <4> HIDE DEF reads, values
      <4> QED BY ONLY <3>2, <3>4, <4>1
    <3>6. \A n \in 1..(Len(op.ins) + 1) :
            <<IF n \in DOMAIN op.ins THEN op.ins[n].buf ELSE op.out, <<r, c>>>>
              \in Buffer \X Index
      BY <1>2, <1>4
    <3>7. values \in [1..(Len(op.ins) + 1) -> Buffer \X Index]
      <4> HIDE DEF values
      <4> QED BY ONLY <3>4, <3>6
    <3> QED BY <3>5, <3>7
  <2>2. CASE op.kind = "fill"
    <3>1. ReadsOf(op) = {} /\ op.kind # "matmul" /\ reads = <<>>
      BY <2>2 DEF ReadsOf, Reads
    <3>2. values \in [{} -> Buffer \X Index]
      BY <3>1 DEF Inputs
    <3>3. values = <<>>
      BY <3>1 DEF Inputs
    <3> QED BY <3>1, <3>2, <3>3
  <2>3. CASE op.kind = "matmul"
    <3> DEFINE D == 1..(2 * op.depth + 1)
    <3>1. Len(op.ins) = 2 /\ 1 \in DOMAIN op.ins /\ 2 \in DOMAIN op.ins
      <4>1. Len(op.ins) = 2
        BY <2>3, OpShape
      <4>2. DOMAIN op.ins = 1..2
        BY <1>2, <4>1
      <4> QED BY <4>1, <4>2
    <3>2. reads = [n \in D |->
            CASE n = 1 -> <<op.out, <<r, c>>>>
              [] n > 1 /\ n % 2 = 0 -> Element(op.ins[1], <<r, (n - 2) \div 2>>)
              [] n > 1 /\ n % 2 = 1 -> Element(op.ins[2], <<(n - 3) \div 2, c>>)]
      BY <2>3 DEF Reads
    <3>3. values = [n \in D |-> Term(op, r, c, n)]
      BY <2>3 DEF Products
    <3>4. ASSUME NEW n \in D
          PROVE  /\ (CASE n = 1 -> <<op.out, <<r, c>>>>
                       [] n > 1 /\ n % 2 = 0 -> Element(op.ins[1], <<r, (n - 2) \div 2>>)
                       [] n > 1 /\ n % 2 = 1 -> Element(op.ins[2], <<(n - 3) \div 2, c>>))
                     = Term(op, r, c, n)
                 /\ Term(op, r, c, n) \in Buffer \X Index
      <4>1. n \in Nat /\ n >= 1 /\ n <= 2 * op.depth + 1
        BY <1>1
      <4>2. CASE n = 1
        BY <1>2, <1>4, <4>2 DEF Term
      <4>3. CASE n # 1 /\ n % 2 = 0
        <5>1. (n - 2) \div 2 \in 0..MaxDim
          BY <1>1, <4>1, <4>3
        <5>2. <<r, (n - 2) \div 2>> \in Index
          BY <1>3, <5>1, PairIndex
        <5> QED BY <1>2, <1>5, <3>1, <4>1, <4>3, <5>2 DEF Term
      <4>4. CASE n # 1 /\ n % 2 # 0
        <5>1. (n - 3) \div 2 \in 0..MaxDim /\ n % 2 = 1
          BY <1>1, <4>1, <4>4
        <5>2. <<(n - 3) \div 2, c>> \in Index
          BY <1>3, <5>1, PairIndex
        <5> QED BY <1>2, <1>5, <3>1, <4>1, <4>4, <5>1, <5>2 DEF Term
      <4> QED BY <4>2, <4>3, <4>4
    <3>5. reads = values
      BY <3>2, <3>3, <3>4
    <3>6. values \in [D -> Buffer \X Index]
      BY <3>3, <3>4
    <3> QED BY <3>5, <3>6
  <2> QED BY <2>1, <2>2, <2>3, OpShape
<1>7. Fetch(Distinct, reads) = values
  <2> HIDE DEF reads, values
  <2> QED BY <1>6, FetchDistinct
<1>8. Depth # 0 /\ (op.kind = "matmul" => Depth = op.depth)
  BY <1>1 DEF Depth
<1> QED BY <1>7, <1>8 DEF Partial, Compute

LEMMA DoneComputes ==
  ASSUME Inv, Op, MemOK, phase = "done"
  PROVE  ComputesOp
<1> DEFINE P == Perform(op, Distinct)
<1>1. i = op.dims[1] /\ j = 0 /\ k = 0
  BY DEF Inv, Position
<1>2. op.out \in Buffer /\ DOMAIN Distinct = Buffer
  BY OpShape DEF Distinct
<1>3. /\ DOMAIN P = Buffer
      /\ \A b \in Buffer \ {op.out} : P[b] = [x \in Index |-> <<b, x>>]
      /\ P[op.out] = [x \in Index |-> IF x \in Space(op)
                                      THEN Compute(op, Fetch(Distinct, Reads(op, x)))
                                      ELSE <<op.out, x>>]
  BY <1>2 DEF Perform, Distinct
<1>4. ASSUME NEW b \in Buffer, NEW x \in Index
      PROVE  View[b][x] = P[b][x]
  <2> DEFINE s == ShapeOf(b)
             within == Len(x) = 2 /\ x[1] < Rows(s) /\ x[2] < Cols(s)
  <2>1. View[b][x] = IF within THEN mem[b][x[1] * Cols(s) + x[2]] ELSE <<b, x>>
    BY DEF View
  <2>2. Len(x) = 2 => x = <<x[1], x[2]>> /\ x[1] \in Nat /\ x[2] \in Nat
    BY IndexPair
  <2>3. CASE b # op.out
    <3>1. P[b][x] = <<b, x>>
      BY <1>3, <2>3
    <3>2. mem[b] = InitMem[b]
      BY <2>3 DEF MemOK
    <3>3. within => InitMem[b][x[1] * Cols(s) + x[2]] = <<b, <<x[1], x[2]>>>>
      BY <2>2, InitElement
    <3> HIDE DEF P, within
    <3>4. CASE within
      <4>1. <<x[1], x[2]>> = x
        BY <2>2, <3>4 DEF within
      <4> QED BY <2>1, <3>1, <3>2, <3>3, <3>4, <4>1
    <3> QED BY <2>1, <3>1, <3>4
  <2>4. CASE b = op.out
    <3>1. Rows(s) = op.dims[1] /\ Cols(s) = Columns
      BY <2>4, OutShape
    <3>2. x \in Space(op) <=> within
      BY <3>1, SpacePoints
    <3>3. within => mem[b][x[1] * Cols(s) + x[2]]
                      = Compute(op, Fetch(Distinct, Reads(op, x)))
      <4> SUFFICES ASSUME within
                   PROVE  mem[b][x[1] * Cols(s) + x[2]]
                            = Compute(op, Fetch(Distinct, Reads(op, x)))
        OBVIOUS
      <4>1. /\ x[1] \in Nat /\ x[2] \in Nat /\ x[1] < op.dims[1] /\ x[2] < Columns
            /\ x = <<x[1], x[2]>>
        BY <2>2, <3>1
      <4>2. mem[op.out][x[1] * Columns + x[2]] = Held(op, x[1], x[2], i, j, k)
        BY <4>1 DEF MemOK
      <4>3. Held(op, x[1], x[2], i, j, k) = Partial(op, x[1], x[2], Depth)
        BY <1>1, <4>1 DEF Held, Depth
      <4>4. Partial(op, x[1], x[2], Depth)
              = Compute(op, Fetch(Distinct, Reads(op, <<x[1], x[2]>>)))
        BY <4>1, ReadsCollected
      <4> QED BY <2>4, <3>1, <4>1, <4>2, <4>3, <4>4
    <3>4. P[b][x] = IF x \in Space(op) THEN Compute(op, Fetch(Distinct, Reads(op, x)))
                    ELSE <<b, x>>
      BY <1>3, <2>4
    <3> HIDE DEF P, within
    <3> QED BY <2>1, <3>2, <3>3, <3>4
  <2> QED BY <2>3, <2>4
<1>5. View = P
  <2>1. /\ View = [b \in Buffer |-> View[b]] /\ P = [b \in Buffer |-> P[b]]
    BY <1>3 DEF View, Perform, Distinct
  <2>2. ASSUME NEW b \in Buffer PROVE View[b] = P[b]
    <3>1. View[b] = [x \in Index |-> View[b][x]]
      BY DEF View
    <3>2. P[b] = [x \in Index |-> P[b][x]]
      <4> HIDE DEF P
      <4>1. CASE b # op.out
        BY <1>3, <4>1
      <4>2. CASE b = op.out
        BY <1>3, <4>2
      <4> QED BY <4>1, <4>2
    <3> HIDE DEF P
    <3> QED BY <1>4, <3>1, <3>2
  <2> HIDE DEF P
  <2> QED BY <2>1, <2>2
<1>6. ASSUME NEW b \in Buffer, NEW a \in Behind(b) PROVE mem[b][a] = InitMem[b][a]
  <2>1. CASE b # op.out
    BY <2>1 DEF MemOK
  <2>2. CASE b = op.out
    BY <2>2, OutShape DEF MemOK, Behind
  <2> QED BY <2>1, <2>2
<1> QED BY <1>5, <1>6 DEF ComputesOp

(***************************************************************************)
(* With rows of whole vectors, or with transfers that stay as their shapes *)
(* are dynamic, the nest leaves in memory what the linalg op computes, for *)
(* every vector size and all extents and whichever transfers the greedy    *)
(* driver of CustomVectorOpt had replaced when the nest ran.               *)
(***************************************************************************)
THEOREM VectorNestComputes ==
  ASSUME \A o \in Ops : WellFormed(o)
  PROVE  Spec => []WholeVectorsComputeOp
<1>1. Inv /\ Computed => WholeVectorsComputeOp
  <2> SUFFICES ASSUME Inv, Computed, phase = "done", WholeVectors \/ ~op.static
               PROVE  ComputesOp
    BY DEF WholeVectorsComputeOp
  <2>1. Op /\ MemOK
    BY DEF Op, Computed, Inv, TypeInv
  <2> QED BY <2>1, DoneComputes
<1> QED BY <1>1, InitInv, NextInv, InitComputed, NextComputed, PTL DEF Spec
=============================================================================
