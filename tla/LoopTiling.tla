----------------------------- MODULE LoopTiling -----------------------------
(***************************************************************************)
(* CustomLoopTiling.cpp and CustomAffineOpt.cpp: an outermost scf.for or   *)
(* affine.for with constant bounds is strip-mined; then the loop, tiled or *)
(* not, executes. Index values are machine integers in MinIndex..MaxIndex  *)
(* and wrap around.                                                        *)
(***************************************************************************)
EXTENDS Integers, Sequences

CONSTANTS
  kTileSize,   \* iterations of a tile; 4 in the source
  MaxIndex,    \* the largest index value; 2^63 - 1 in the source
  Loops        \* the loops the passes may meet

MinIndex == -MaxIndex - 1

LoopType == [dialect : {"scf", "affine"}, lb : Int, ub : Int, step : Int,
             constBounds : BOOLEAN, constStep : BOOLEAN,
             carries : BOOLEAN, nested : BOOLEAN]

ASSUME TilingAssumption ==
  /\ kTileSize \in Nat \ {0}
  /\ MaxIndex \in Nat
  /\ Loops \subseteq LoopType
  /\ \A l \in Loops : l.step > 0 /\ (l.dialect = "affine" => l.constStep)

VARIABLES
  loop,     \* the scf.for or affine.for
  pc,       \* "pass"; "loop" if not tiled, else "outer" or "inner"; "done"
  ii,       \* the induction variable of the outer loop
  j,        \* the induction variable of the loop around the body
  trace,    \* the induction variables the body has seen
  result    \* the iterations the loop's result has been through

vars == <<loop, pc, ii, j, trace, result>>

Wrap(x) == IF x \in MinIndex..MaxIndex
           THEN x
           ELSE ((x - MinIndex) % (MaxIndex - MinIndex + 1)) + MinIndex

\* Signed overflow in this sum is undefined in C++; the builds wrap.
trip(l) == Wrap(l.ub - l.lb + l.step - 1) \div l.step

\* Mutant: the guard on iter_args dropped.
IsTarget_carried(l) ==
  /\ ~l.nested /\ l.constBounds /\ l.constStep /\ trip(l) > kTileSize

\* The loops collected by CustomLoopTiling's walk. A loop is nested if one
\* of its own dialect is around it.
IsTarget(l) == /\ ~l.nested
               /\ ~l.carries
               /\ l.constBounds /\ l.constStep
               /\ trip(l) > kTileSize

\* Those collected by CustomAffineOpt's; the step is an attribute.
IsAffineTarget(l) == /\ ~l.nested
                     /\ ~l.carries
                     /\ l.constBounds
                     /\ trip(l) > kTileSize

tileStep == Wrap(kTileSize * loop.step)

\* Mutant: a partial last tile is not cut at the upper bound.
innerUB_uncut == Wrap(ii + tileStep)

\* tilePerfectlyNested leaves the minimum out if the tile size divides the
\* trip count.
WholeTiles == /\ loop.dialect = "affine"
              /\ ((loop.ub - loop.lb + loop.step - 1) \div loop.step) % kTileSize = 0

\* arith.minsi, or affine.min, of the end of the tile and that of the loop.
innerUB == LET end == Wrap(ii + tileStep)
           IN  IF WholeTiles \/ end < loop.ub THEN end ELSE loop.ub

-----------------------------------------------------------------------------
\* Mutant: the outer loop counts from zero.
Init_zero == /\ loop \in Loops
             /\ pc = "pass"
             /\ ii = 0 /\ j = loop.lb
             /\ trace = <<>> /\ result = <<>>

Init == /\ loop \in Loops
        /\ pc = "pass"
        /\ ii = loop.lb /\ j = loop.lb
        /\ trace = <<>> /\ result = <<>>

\* CustomLoopTiling.
RunPass == /\ pc = "pass" /\ loop.dialect = "scf"
           /\ pc' = IF IsTarget(loop) THEN "outer" ELSE "loop"
           /\ UNCHANGED <<loop, ii, j, trace, result>>

\* CustomAffineOpt. The tiling fails on no target: it has constant bounds
\* and no results, and a single loop is a perfect nest.
RunAffineOpt == /\ pc = "pass" /\ loop.dialect = "affine"
                /\ pc' = IF IsAffineTarget(loop) THEN "outer" ELSE "loop"
                /\ UNCHANGED <<loop, ii, j, trace, result>>

Body == /\ trace' = Append(trace, j)
        /\ j' = Wrap(j + loop.step)
        /\ UNCHANGED <<loop, pc, ii, result>>

Iterate == pc = "loop" /\ j < loop.ub /\ Body

Finish == /\ pc = "loop" /\ j >= loop.ub
          /\ result' = IF loop.carries THEN trace ELSE <<>>
          /\ pc' = "done"
          /\ UNCHANGED <<loop, ii, j, trace>>

EnterTile == /\ pc = "outer" /\ ii < loop.ub
             /\ j' = ii
             /\ pc' = "inner"
             /\ UNCHANGED <<loop, ii, trace, result>>

IterateTile == pc = "inner" /\ j < innerUB /\ Body

\* Mutant: the outer loop keeps the original step.
LeaveTile_step == /\ pc = "inner" /\ j >= innerUB
                  /\ ii' = Wrap(ii + loop.step)
                  /\ pc' = "outer"
                  /\ UNCHANGED <<loop, j, trace, result>>

LeaveTile == /\ pc = "inner" /\ j >= innerUB
             /\ ii' = Wrap(ii + tileStep)
             /\ pc' = "outer"
             /\ UNCHANGED <<loop, j, trace, result>>

\* The tiled loops carry nothing and the erased loop has no results.
FinishTiles == /\ pc = "outer" /\ ii >= loop.ub
               /\ pc' = "done"
               /\ UNCHANGED <<loop, ii, j, trace, result>>

Next == RunPass \/ RunAffineOpt \/ Iterate \/ Finish
        \/ EnterTile \/ IterateTile \/ LeaveTile \/ FinishTiles

Safe == Init /\ [][Next]_vars

Spec == Safe /\ WF_vars(Next)

-----------------------------------------------------------------------------
TypeOK ==
  /\ loop \in Loops
  /\ pc \in {"pass", "loop", "outer", "inner", "done"}
  /\ ii \in Int /\ ii >= loop.lb
  /\ j \in Int /\ j >= loop.lb
  /\ trace \in Seq(Int)
  /\ result \in Seq(Int)

(***************************************************************************)
(* Every tile but the last runs exactly kTileSize iterations of the body,  *)
(* and no tile runs more: the outer step and the inner bound both count in *)
(* units of the original step.                                             *)
(***************************************************************************)
TilesAreFull ==
  /\ pc = "inner" => j - ii <= kTileSize * loop.step
  /\ pc = "outer" /\ ii < loop.ub =>
       Len(trace) * loop.step = ii - loop.lb /\ Len(trace) % kTileSize = 0

Original == INSTANCE SeqLoop WITH next <- j, ended <- (pc = "done")

(***************************************************************************)
(* Strip-mining changes nothing but the loop structure: the body sees the  *)
(* same induction variables in the same order, the result is the same, and *)
(* a loop that ends still ends.                                            *)
(***************************************************************************)
TilingPreservesLoop == Original!Spec
=============================================================================
