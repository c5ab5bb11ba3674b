---------------------------- MODULE MCLoopTiling ----------------------------
(***************************************************************************)
(* Loops of both dialects with up to ten iterations: below, at and beyond  *)
(* one tile and two tiles of four, with full and cut last tiles, negative  *)
(* and empty ranges and steps that do not divide the range; and loops      *)
(* whose last tile ends just within the index type.                        *)
(***************************************************************************)
EXTENDS LoopTiling

LoopsOf(lbs, ubs, steps) ==
  {l \in [dialect : {"scf", "affine"}, lb : lbs, ub : ubs, step : steps,
          constBounds : BOOLEAN, constStep : BOOLEAN,
          carries : BOOLEAN, nested : BOOLEAN] :
     l.dialect = "affine" => l.constStep}

MCLoops == LoopsOf({-3, 0, 2}, 0..10, 1..3)
  \cup UNION {LoopsOf(104..108, {MaxIndex + 1 - kTileSize * s}, {s}) : s \in 1..3}
=============================================================================
