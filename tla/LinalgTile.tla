------------------------------ MODULE LinalgTile ------------------------------
(***************************************************************************)
(* CustomLinalgTile.cpp: a matmul on static matrices gets a nest of tile   *)
(* loops in front of it, and stays; then the function runs. A matmul reads *)
(* arguments or results of earlier matmuls. An element of a result is the  *)
(* sequence of the reduction steps that were added up for it.              *)
(***************************************************************************)
EXTENDS Integers, Sequences, FiniteSets

CONSTANTS
  kTileM,     \* 2 in the source
  kTileN,     \* 2 in the source
  Functions   \* the matmuls of each function, in order

Matmul == [m : Nat, k : Nat, n : Nat, static : BOOLEAN, rank2 : BOOLEAN,
           lhs : Nat]  \* the matmul whose result is the left operand, or 0

ASSUME TileAssumption ==
  /\ {kTileM, kTileN} \subseteq Nat \ {0}
  /\ \A f \in Functions : /\ f \in Seq(Matmul)
                          /\ \A v \in DOMAIN f : f[v].lhs < v

VARIABLES
  mats,     \* the function's matmuls
  body,     \* its top-level ops: <<"matmul", v>> or <<"nest", v>>
  targets,  \* the matmuls still to tile
  phase,    \* "collect", "tile", "run" or "done"
  pos,      \* the op of the body that runs
  tile,     \* where the tile loops stand
  acc,      \* the tensor the tile loops carry
  env       \* the values computed so far, by op

vars == <<mats, body, targets, phase, pos, tile, acc, env>>

-----------------------------------------------------------------------------
IsTarget(v) == /\ mats[v].rank2 /\ mats[v].static
               /\ mats[v].m >= kTileM * 2
               /\ mats[v].k >= kTileM
               /\ mats[v].n >= kTileN * 2

Targets == {v \in DOMAIN mats : IsTarget(v)}

Init == /\ mats \in Functions
        /\ body = [v \in DOMAIN mats |-> <<"matmul", v>>]
        /\ targets = {} /\ phase = "collect"
        /\ pos = 1 /\ tile = <<0, 0, 0>> /\ acc = <<>> /\ env = <<>>

\* Only ops at the top level are looked at, and no nest is there yet.
Collect == /\ phase = "collect"
           /\ targets' = Targets /\ phase' = "tile"
           /\ UNCHANGED <<mats, body, pos, tile, acc, env>>

PlaceOf(o) == CHOOSE p \in DOMAIN body : body[p] = o

InsertBefore(s, p, o) == SubSeq(s, 1, p - 1) \o <<o>> \o SubSeq(s, p, Len(s))

\* The targets are tiled in the order of the walk that found them.
First(v) == v \in targets /\ \A w \in targets : v <= w

\* Mutant: the rewriter stays at the beginning of the function.
Tile_atStart ==
  /\ phase = "tile"
  /\ \E v \in targets : /\ First(v)
                        /\ body' = InsertBefore(body, 1, <<"nest", v>>)
                        /\ targets' = targets \ {v}
  /\ UNCHANGED <<mats, phase, pos, tile, acc, env>>

\* tileLinalgOp fails on no matmul of static matrices.
Tile ==
  /\ phase = "tile"
  /\ \E v \in targets :
       /\ First(v)
       /\ body' = InsertBefore(body, PlaceOf(<<"matmul", v>>), <<"nest", v>>)
       /\ targets' = targets \ {v}
  /\ UNCHANGED <<mats, phase, pos, tile, acc, env>>

EndPass == /\ phase = "tile" /\ targets = {}
           /\ phase' = "run"
           /\ UNCHANGED <<mats, body, targets, pos, tile, acc, env>>

-----------------------------------------------------------------------------
Running(kind) == phase = "run" /\ pos \in DOMAIN body /\ body[pos][1] = kind

Current == body[pos][2]

Elements(v) == (0..(mats[v].m - 1)) \X (0..(mats[v].n - 1))

\* The value of the left operand is there.
Dominated(v) == mats[v].lhs = 0 \/ <<"matmul", mats[v].lhs>> \in DOMAIN env

Bind(o, value) == env' = [q \in DOMAIN env \cup {o} |->
                            IF q = o THEN value ELSE env[q]]

\* All of the reduction, in its order, in every element.
RunMatmul ==
  /\ Running("matmul")
  /\ Bind(body[pos],
          [x \in Elements(Current) |-> [s \in 1..mats[Current].k |-> s - 1]])
  /\ pos' = pos + 1
  /\ UNCHANGED <<mats, body, targets, phase, tile, acc>>

EnterNest ==
  /\ Running("nest") /\ acc = <<>>
  /\ acc' = [x \in Elements(Current) |->
               IF Dominated(Current) THEN <<>> ELSE <<"undefined">>]
  /\ tile' = <<0, 0, 0>>
  /\ UNCHANGED <<mats, body, targets, phase, pos, env>>

\* setTileSizes({kTileM, kTileM, kTileN}): a matmul's loops are m, n and k.
TileSizes == <<kTileM, kTileM, kTileN>>

Extents == <<mats[Current].m, mats[Current].n, mats[Current].k>>

\* The loop points of a tile in one dimension, cut by affine.min.
Span(d) == {x \in tile[d]..(tile[d] + TileSizes[d] - 1) : x < Extents[d]}

MoreIn(d) == tile[d] + TileSizes[d] < Extents[d]

\* The next tile: the loop over k is the innermost.
NextTile ==
  CASE MoreIn(3) -> [tile EXCEPT ![3] = @ + TileSizes[3]]
    [] ~MoreIn(3) /\ MoreIn(2) -> <<tile[1], tile[2] + TileSizes[2], 0>>
    [] ~MoreIn(3) /\ ~MoreIn(2) -> <<tile[1] + TileSizes[1], 0, 0>>

\* The matmul of a tile, on slices of the operands and of what is carried.
RunTile ==
  /\ Running("nest") /\ acc # <<>> /\ tile[1] < mats[Current].m
  /\ acc' = [x \in DOMAIN acc |->
               IF x[1] \in Span(1) /\ x[2] \in Span(2)
               THEN acc[x] \o [s \in 1..Cardinality(Span(3)) |-> tile[3] + s - 1]
               ELSE acc[x]]
  /\ tile' = NextTile
  /\ UNCHANGED <<mats, body, targets, phase, pos, env>>

LeaveNest ==
  /\ Running("nest") /\ acc # <<>> /\ tile[1] >= mats[Current].m
  /\ Bind(body[pos], acc)
  /\ acc' = <<>> /\ pos' = pos + 1
  /\ UNCHANGED <<mats, body, targets, phase, tile>>

Return == /\ phase = "run" /\ pos > Len(body)
          /\ phase' = "done"
          /\ UNCHANGED <<mats, body, targets, pos, tile, acc, env>>

Next == \/ Collect \/ Tile \/ EndPass
        \/ RunMatmul \/ EnterNest \/ RunTile \/ LeaveNest \/ Return

Spec == Init /\ [][Next]_vars

-----------------------------------------------------------------------------
(***************************************************************************)
(* A nest computes what its matmul does: each product is added once, in    *)
(* the same order, with tiles that do not fit the extents too, and no nest *)
(* reads a matmul's result before it is there (rewriter.setInsertionPoint, *)
(* CustomLinalgTile.cpp:45). The pass never replaces the matmul: the       *)
(* nest's result has no user, and what a later pass may find dead is the   *)
(* nest.                                                                   *)
(***************************************************************************)
NestsComputeMatmul ==
  phase = "done" =>
    \A p \in DOMAIN body :
      body[p][1] = "nest" => env[body[p]] = env[<<"matmul", body[p][2]>>]
=============================================================================
