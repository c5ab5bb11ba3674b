---------------------------- MODULE ParallelLoops ----------------------------
(***************************************************************************)
(* CustomLinalgToParallelLoops.cpp: a linalg op becomes an scf.parallel    *)
(* nest whose iterations load, compute and store. The iterations run in    *)
(* any order and interleave load by load.                                  *)
(***************************************************************************)
EXTENDS LinalgSemantics

CONSTANT Ops    \* the ops the pass may meet

VARIABLES
  op,       \* the linalg op
  phase,    \* "linalg", "parallel", "upstream", "rejected" or "done"
  mem,      \* the buffers
  got,      \* the values each iteration has loaded
  stored    \* the iterations that have stored their result

vars == <<op, phase, mem, got, stored>>

\* Mutant: the upper bounds are inclusive.
Iterations_inclusive ==
  {x \in Index : /\ DOMAIN x = DOMAIN op.dims
                 /\ \A d \in DOMAIN x : x[d] <= op.dims[d]}

\* lbs, ubs and steps of the nest: 0, the extent and 1 for each dimension.
Iterations ==
  {x \in Index : /\ DOMAIN x = DOMAIN op.dims
                 /\ \A d \in DOMAIN x : x[d] < op.dims[d]}

allIdentityMaps == \A n \in DOMAIN op.ins : op.ins[n].map = "identity"

\* Mutant: the indexing maps are not looked at.
Matches_anyMap ==
  CASE op.kind = "elementwise" -> op.parallel /\ ~op.indexed /\ op.static
    [] op.kind = "fill"        -> op.static /\ op.dims # <<>>
    [] op.kind = "matmul"      -> op.static /\ op.float

\* The three patterns' guards; only the one for fill looks at the rank.
Matches ==
  CASE op.kind = "elementwise" ->
         op.parallel /\ allIdentityMaps /\ ~op.indexed /\ op.static
    [] op.kind = "fill"        -> op.static /\ op.dims # <<>>
    [] op.kind = "matmul"      -> op.static /\ op.float

\* Mutant: the matmul starts from the output of its left neighbour.
Loads_noInit(x) ==
  CASE op.kind = "elementwise" ->
         [n \in 1..(Len(op.ins) + 1) |->
            IF n <= Len(op.ins) THEN <<op.ins[n].buf, x>> ELSE <<op.out, x>>]
    [] op.kind = "fill" -> <<>>
    [] op.kind = "matmul" ->
         [n \in 1..(2 * op.depth + 1) |->
            CASE n = 1 -> <<op.out, <<x[1], 0>>>>
              [] n > 1 /\ n % 2 = 0 -> <<op.ins[1].buf, <<x[1], (n - 2) \div 2>>>>
              [] n > 1 /\ n % 2 = 1 -> <<op.ins[2].buf, <<(n - 3) \div 2, x[2]>>>>]

\* Mutant: the right operand is loaded at its indices swapped.
Loads_swapped(x) ==
  CASE op.kind = "elementwise" ->
         [n \in 1..(Len(op.ins) + 1) |->
            IF n <= Len(op.ins) THEN <<op.ins[n].buf, x>> ELSE <<op.out, x>>]
    [] op.kind = "fill" -> <<>>
    [] op.kind = "matmul" ->
         [n \in 1..(2 * op.depth + 1) |->
            CASE n = 1 -> <<op.out, x>>
              [] n > 1 /\ n % 2 = 0 -> <<op.ins[1].buf, <<x[1], (n - 2) \div 2>>>>
              [] n > 1 /\ n % 2 = 1 -> <<op.ins[2].buf, <<x[2], (n - 3) \div 2>>>>]

\* The loads of the iteration x, in program order, at the loop's own indices.
Loads(x) ==
  CASE op.kind = "elementwise" ->
         [n \in 1..(Len(op.ins) + 1) |->
            IF n <= Len(op.ins) THEN <<op.ins[n].buf, x>> ELSE <<op.out, x>>]
    [] op.kind = "fill" -> <<>>
    [] op.kind = "matmul" ->
         [n \in 1..(2 * op.depth + 1) |->
            CASE n = 1 -> <<op.out, x>>
              [] n > 1 /\ n % 2 = 0 -> <<op.ins[1].buf, <<x[1], (n - 2) \div 2>>>>
              [] n > 1 /\ n % 2 = 1 -> <<op.ins[2].buf, <<(n - 3) \div 2, x[2]>>>>]

-----------------------------------------------------------------------------
Init == /\ op \in Ops
        /\ phase = "linalg"
        /\ mem = Distinct
        /\ got = [x \in Iterations |-> <<>>]
        /\ stored = {}

Lower == /\ phase = "linalg" /\ Matches /\ op.dims # <<>>
         /\ phase' = "parallel"
         /\ UNCHANGED <<op, mem, got, stored>>

\* An scf.parallel without dimensions fails verification after the pass.
Reject == /\ phase = "linalg" /\ Matches /\ op.dims = <<>>
          /\ phase' = "rejected"
          /\ UNCHANGED <<op, mem, got, stored>>

\* Ops without a match are left to convert-linalg-to-parallel-loops.
LeaveUpstream == /\ phase = "linalg" /\ ~Matches
                 /\ phase' = "upstream"
                 /\ UNCHANGED <<op, mem, got, stored>>

Upstream == /\ phase = "upstream"
            /\ mem' = Perform(op, mem)
            /\ phase' = "done"
            /\ UNCHANGED <<op, got, stored>>

Load(x) ==
  /\ phase = "parallel" /\ x \notin stored
  /\ Len(got[x]) < Len(Loads(x))
  /\ LET from == Loads(x)[Len(got[x]) + 1]
     IN  got' = [got EXCEPT ![x] = Append(@, mem[from[1]][from[2]])]
  /\ UNCHANGED <<op, phase, mem, stored>>

\* Mutant: the result of a partial reduction is stored.
Store_partial(x) ==
  /\ phase = "parallel" /\ x \notin stored
  /\ mem' = [mem EXCEPT ![op.out][x] = Compute(op, got[x])]
  /\ stored' = stored \cup {x}
  /\ UNCHANGED <<op, phase, got>>

Store(x) ==
  /\ phase = "parallel" /\ x \notin stored
  /\ Len(got[x]) = Len(Loads(x))
  /\ mem' = [mem EXCEPT ![op.out][x] = Compute(op, got[x])]
  /\ stored' = stored \cup {x}
  /\ UNCHANGED <<op, phase, got>>

Finish == /\ phase = "parallel" /\ stored = Iterations
          /\ phase' = "done"
          /\ UNCHANGED <<op, mem, got, stored>>

Next == \/ Lower \/ Reject \/ LeaveUpstream \/ Upstream \/ Finish
        \/ \E x \in Iterations : Load(x) \/ Store(x)

Spec == Init /\ [][Next]_vars

-----------------------------------------------------------------------------
TypeOK ==
  /\ op \in Ops
  /\ phase \in {"linalg", "parallel", "upstream", "rejected", "done"}
  /\ DOMAIN got = Space(op)
  /\ stored \subseteq Space(op)

Atomic == INSTANCE AtomicOp
            WITH mem <- IF phase = "done" THEN mem ELSE Distinct,
                 ended <- (phase = "done")

(***************************************************************************)
(* However its iterations interleave, and with the output also an input of *)
(* an elementwise op, the nest leaves in memory what the linalg op         *)
(* computes, every sum in the order of its reduction loop.                 *)
(***************************************************************************)
LoweringIsAtomic == Atomic!Spec

(***************************************************************************)
(* The nest is a parallel loop in fact: no iteration loads an element that *)
(* another iteration has already overwritten.                              *)
(***************************************************************************)
NoRace ==
  [][\A x \in Iterations :
       Len(got[x]') > Len(got[x]) =>
         \A y \in stored : Loads(x)[Len(got[x]')] # <<op.out, y>>]_vars

(***************************************************************************)
(* In the middle of a nest, with some iterations stored and others half    *)
(* way, every iteration has loaded the first of the values that the op     *)
(* reads for its point, in the op's order, as they were before the nest:   *)
(* no store of another iteration shows in what is being computed.          *)
(***************************************************************************)
LoadsOldValues ==
  phase = "parallel" =>
    \A x \in Iterations :
      LET values == Fetch(Distinct, Reads(op, x))
      IN  /\ Len(got[x]) <= Len(values)
          /\ \A n \in 1..Len(got[x]) : got[x][n] = values[n]
=============================================================================
