-------------------------- MODULE LoopTilingProofs --------------------------
(***************************************************************************)
(* Strip-mining implements the original loop, for every tile size, every   *)
(* width of the index type and every set of loops whose tile ends fit it.  *)
(***************************************************************************)
EXTENDS LoopTiling, TLAPS

\* The end of the tile that holds the last iteration fits the index type.
TilesFit ==
  \A l \in Loops : /\ l.lb >= MinIndex
                   /\ kTileSize * l.step <= MaxIndex
                   /\ l.ub - 1 + kTileSize * l.step <= MaxIndex

(***************************************************************************)
(* What keeps j on the original loop's iterations: the outer loop stands a *)
(* whole number of tiles from the lower bound, and inside a tile j is a    *)
(* whole number of steps from the tile's start; so many iterations have    *)
(* been through. After a cut tile, or the last, j is past the end.         *)
(***************************************************************************)
AtTile(q) == /\ ii = loop.lb + q * (kTileSize * loop.step)
             /\ ii < loop.ub
             /\ j = ii
             /\ Len(trace) = q * kTileSize

InTile(q, k) == /\ ii = loop.lb + q * (kTileSize * loop.step)
                /\ ii < loop.ub
                /\ j = ii + k * loop.step
                /\ Len(trace) = q * kTileSize + k

Aligned ==
  /\ pc = "outer" => \/ \E q \in Nat : AtTile(q)
                     \/ ii >= loop.ub /\ j >= loop.ub
  /\ pc = "inner" => \E q \in Nat : \E k \in 0..kTileSize : InTile(q, k)

Inv ==
  /\ TypeOK
  /\ pc # "done" => result = <<>>
  /\ pc \in {"outer", "inner"} => loop.carries = FALSE
  /\ pc = "pass" => j = loop.lb /\ ii = loop.lb /\ trace = <<>>
  /\ Aligned

\* A product with a step grows by at least a step with its first factor.
LEMMA TimesStep ==
  ASSUME NEW s \in Nat, NEW k \in Int, NEW m \in Int, k < m
  PROVE  (k + 1) * s = k * s + s /\ (k + 1) * s <= m * s
<1>1. (k + 1) * s = k * s + s
  BY SMT
<1>2. (m - (k + 1)) * s >= 0
  BY SMT
<1>3. (m - (k + 1)) * s = m * s - (k + 1) * s
  BY SMT
<1> QED
  BY <1>1, <1>2, <1>3

LEMMA Steps ==
  ASSUME NEW K \in Nat, NEW s \in Nat, NEW k \in 0..K
  PROVE  /\ k * s \in Int /\ k * s <= K * s
         /\ k < K => (k + 1) * s = k * s + s /\ k * s + s <= K * s
<1>1. k \in Int /\ k * s \in Int /\ K * s \in Int
  BY SMT
<1>2. k < K => (k + 1) * s = k * s + s /\ k * s + s <= K * s
  <2> SUFFICES ASSUME k < K PROVE (k + 1) * s = k * s + s /\ k * s + s <= K * s
    OBVIOUS
  <2>1. (k + 1) * s = k * s + s /\ (k + 1) * s <= K * s
    BY <1>1, TimesStep
  <2> QED BY <2>1
<1>3. k * s <= K * s
  <2>1. CASE k = K
    BY <1>1, <2>1
  <2>2. CASE k < K
    <3> HIDE <1>1
    <3>1. k * s \in Int /\ K * s \in Int
      BY <1>1
    <3> QED BY <1>2, <2>2, <3>1
  <2> QED BY <2>1, <2>2
<1> QED BY <1>1, <1>2, <1>3

LEMMA Tiles ==
  ASSUME NEW K \in Nat, NEW T \in Nat, NEW q \in Nat
  PROVE  /\ (q + 1) * T = q * T + T /\ (q + 1) * K = q * K + K
         /\ q * T \in Int /\ q * K \in Int
BY SMT

LEMMA MultipleLeavesNothing ==
  ASSUME NEW K \in Nat, K > 0, NEW q \in Nat
  PROVE  (q * K) % K = 0
<1> DEFINE x == q * K
           d == x \div K
           r == x % K
<1>1. x \in Int /\ d \in Int /\ r \in Int /\ 0 <= r /\ r < K /\ x = d * K + r
  BY SMT
<1>2. (q - d) * K = r
  BY <1>1
<1> HIDE DEF x, d, r
<1>3. CASE q > d
  <2>1. d * K + K <= q * K
    BY <1>1, <1>3, TimesStep
  <2> QED BY <1>1, <2>1 DEF x
<1>4. CASE q < d
  <2>1. q * K + K <= d * K
    BY <1>1, <1>4, TimesStep
  <2> QED BY <1>1, <2>1 DEF x
<1>5. CASE q = d
  BY <1>1, <1>2, <1>5 DEF x, r
<1> QED BY <1>1, <1>3, <1>4, <1>5

\* The fields of a loop, as the arithmetic below needs them.
LEMMA LoopFields ==
  ASSUME loop \in Loops
  PROVE  /\ loop.lb \in Int /\ loop.ub \in Int
         /\ loop.step \in Nat /\ loop.step > 0
         /\ loop.carries \in BOOLEAN
         /\ kTileSize * loop.step \in Nat
BY TilingAssumption DEF LoopType

LEMMA InitInv == Init => Inv
<1> SUFFICES ASSUME Init PROVE Inv
  OBVIOUS
<1>1. loop \in Loops /\ loop.lb \in Int
  BY LoopFields DEF Init
<1>2. TypeOK
  BY <1>1 DEF Init, TypeOK
<1> QED
  BY <1>1, <1>2 DEF Init, Inv, Aligned

\* Inside the range neither the increment nor the tile end wraps.
LEMMA NoWrap ==
  ASSUME TilesFit, Inv, NEW x \in Int, x >= loop.lb, x < loop.ub
  PROVE  /\ Wrap(x + loop.step) = x + loop.step
         /\ tileStep = kTileSize * loop.step
         /\ Wrap(x + tileStep) = x + kTileSize * loop.step
<1>1. loop \in Loops
  BY DEF Inv, TypeOK
<1> DEFINE s == loop.step
           T == kTileSize * s
<1>2. /\ s \in Nat /\ T \in Nat /\ loop.lb \in Int /\ loop.ub \in Int
      /\ s > 0
  BY <1>1, LoopFields
<1>3. s <= T
  <2>1. 1 * s = s
    BY <1>2
  <2>2. 0 < kTileSize /\ kTileSize \in Int
    BY TilingAssumption
  <2> QED
    BY <1>2, <2>1, <2>2, TimesStep
<1>4. /\ loop.lb >= MinIndex /\ T <= MaxIndex
      /\ loop.ub - 1 + T <= MaxIndex
  BY <1>1 DEF TilesFit
<1>5. MaxIndex \in Nat /\ MinIndex = -MaxIndex - 1
  BY TilingAssumption DEF MinIndex
<1> HIDE DEF s, T
<1>6. x + s \in MinIndex..MaxIndex /\ T \in MinIndex..MaxIndex
      /\ x + T \in MinIndex..MaxIndex
  BY <1>2, <1>3, <1>4, <1>5
<1> QED
  BY <1>6 DEF Wrap, tileStep, s, T

\* If the tile size divides the trip count, a tile that begins below the
\* upper bound has all its iterations below it.
LEMMA TileIsWhole ==
  ASSUME loop \in Loops, WholeTiles, NEW q \in Nat, NEW k \in Nat, k < kTileSize,
         loop.lb + q * (kTileSize * loop.step) < loop.ub
  PROVE  loop.lb + q * (kTileSize * loop.step) + k * loop.step < loop.ub
<1> DEFINE s == loop.step
           K == kTileSize
           d == loop.ub - loop.lb
           t == (d + s - 1) \div s
           c == t \div K
<1>1. s \in Nat /\ s > 0 /\ d \in Int /\ K \in Nat /\ K > 0
      /\ loop.lb \in Int /\ loop.ub \in Int
  BY LoopFields, TilingAssumption
<1>2. t \in Int /\ t * s >= d /\ (t - 1) * s < d
  <2>1. t \in Int /\ s * t <= d + s - 1 /\ d + s - 1 < s * t + s
    BY <1>1
  <2>2. (t - 1) * s = s * t - s /\ t * s = s * t
    BY <1>1, <2>1
  <2> HIDE DEF s, d, t
  <2> QED BY <1>1, <2>1, <2>2
<1>3. c \in Int /\ t = c * K
  <2>1. t % K = 0
    BY DEF WholeTiles
  <2> HIDE DEF t
  <2> QED BY <1>1, <1>2, <2>1
<1> HIDE DEF s, K, d, t, c
<1>4. q * (K * s) = (q * K) * s
  BY <1>1
<1>5. q * K < t
  <2>1. (q * K) * s < d
    BY <1>1, <1>4 DEF s, K, d
  <2>2. CASE q * K >= t
    <3>1. (q * K - t) * s >= 0 /\ (q * K - t) * s = (q * K) * s - t * s
      BY <1>1, <1>2, <2>2
    <3> QED BY <1>1, <1>2, <2>1, <3>1
  <2> QED BY <1>1, <1>2, <2>2
<1>6. q < c
  <2>1. CASE q >= c
    <3>1. (q - c) * K >= 0 /\ (q - c) * K = q * K - c * K
      BY <1>1, <1>3, <2>1
    <3> QED BY <1>1, <1>3, <1>5, <3>1
  <2> QED BY <1>3, <2>1
<1>7. q * K + K <= t
  BY <1>1, <1>3, <1>6, TimesStep
<1>8. (q * K + k) * s <= (t - 1) * s
  <2>1. q * K + k < t /\ q * K + k \in Int
    <3> DEFINE Q == q * K
    <3>1. Q \in Int /\ Q + K <= t /\ k < K
      BY <1>1, <1>7 DEF K
    <3> HIDE DEF Q
    <3>2. Q + k < t /\ Q + k \in Int
      BY <1>1, <1>2, <3>1
    <3> QED BY <3>2 DEF Q
  <2>2. (q * K + k + 1) * s = (q * K + k) * s + s /\ (q * K + k + 1) * s <= t * s
    BY <1>1, <1>2, <2>1, TimesStep
  <2>3. (t - 1) * s = t * s - s
    BY <1>1, <1>2
  <2> QED BY <1>1, <1>2, <2>1, <2>2, <2>3
<1>9. (q * K + k) * s = (q * K) * s + k * s
  BY <1>1
<1> QED BY <1>1, <1>2, <1>4, <1>8, <1>9 DEF s, K, d

\* The same, for the two induction variables.
LEMMA Increments ==
  ASSUME TilesFit, Inv
  PROVE  /\ j < loop.ub => Wrap(j + loop.step) = j + loop.step
         /\ ii < loop.ub =>
              /\ Wrap(ii + tileStep) = ii + kTileSize * loop.step
              /\ innerUB \in Int
              /\ innerUB = loop.ub \/ innerUB = ii + kTileSize * loop.step
              /\ innerUB <= ii + kTileSize * loop.step
<1>1. /\ loop \in Loops /\ ii \in Int /\ j \in Int
      /\ ii >= loop.lb /\ j >= loop.lb
  BY DEF Inv, TypeOK
<1>2. j < loop.ub => Wrap(j + loop.step) = j + loop.step
  BY <1>1, NoWrap
<1>3. ii < loop.ub => Wrap(ii + tileStep) = ii + kTileSize * loop.step
  BY <1>1, NoWrap
<1>4. loop.ub \in Int /\ kTileSize * loop.step \in Nat
  BY <1>1, LoopFields
<1> QED
  BY <1>1, <1>2, <1>3, <1>4 DEF innerUB

\* The inner bound keeps the body below the upper bound.
LEMMA InRange ==
  ASSUME TilesFit, Inv, NEW q \in Nat, NEW k \in 0..kTileSize, InTile(q, k),
         j < innerUB
  PROVE  j < loop.ub /\ k < kTileSize
<1>1. /\ loop \in Loops /\ loop.lb \in Int /\ loop.ub \in Int
      /\ loop.step \in Nat /\ loop.step > 0 /\ kTileSize \in Nat
      /\ kTileSize * loop.step \in Nat /\ ii \in Int /\ j \in Int
  BY LoopFields, TilingAssumption DEF Inv, TypeOK
<1>2. ii < loop.ub /\ j = ii + k * loop.step
  BY DEF InTile
<1>3. /\ innerUB \in Int /\ innerUB <= ii + kTileSize * loop.step
      /\ innerUB = loop.ub \/ innerUB = ii + kTileSize * loop.step
  BY <1>2, Increments
<1>4. k < kTileSize
  <2>1. CASE k = kTileSize
    BY <1>1, <1>2, <1>3, <2>1
  <2> QED BY <1>1, <2>1
<1>5. j < loop.ub
  <2>1. CASE WholeTiles
    BY <1>1, <1>2, <1>4, <2>1, TileIsWhole DEF InTile
  <2>2. CASE ~WholeTiles
    BY <1>1, <1>2, <1>3, <2>2, Increments DEF innerUB
  <2> QED BY <2>1, <2>2
<1> QED BY <1>4, <1>5

LEMMA NextInv ==
  ASSUME TilesFit, Inv, [Next]_vars
  PROVE  Inv'
<1>1. /\ loop \in Loops /\ loop.lb \in Int /\ loop.ub \in Int
      /\ loop.step \in Nat /\ loop.step > 0 /\ loop.carries \in BOOLEAN
      /\ kTileSize * loop.step \in Nat /\ kTileSize \in Nat /\ kTileSize > 0
      /\ ii \in Int /\ j \in Int /\ ii >= loop.lb /\ j >= loop.lb
      /\ trace \in Seq(Int)
  BY LoopFields, TilingAssumption DEF Inv, TypeOK
<1>2. ASSUME RunPass \/ RunAffineOpt PROVE Inv'
  <2>1. /\ pc = "pass" /\ pc' \in {"outer", "loop"}
        /\ UNCHANGED <<loop, ii, j, trace, result>>
    BY <1>2 DEF RunPass, RunAffineOpt
  <2>2. pc' = "outer" => loop.carries = FALSE
    BY <1>1, <1>2 DEF RunPass, RunAffineOpt, IsTarget, IsAffineTarget
  <2>3. j = loop.lb /\ ii = loop.lb /\ trace = <<>> /\ result = <<>>
    BY <2>1 DEF Inv
  <2>4. pc' = "outer" /\ ii < loop.ub => AtTile(0)'
    <3>1. 0 * (kTileSize * loop.step) = 0 /\ 0 * kTileSize = 0
      BY <1>1
    <3> QED BY <1>1, <2>1, <2>3, <3>1 DEF AtTile
  <2>5. Aligned'
    BY <1>1, <2>1, <2>3, <2>4 DEF Aligned
  <2> QED
    BY <1>1, <2>1, <2>2, <2>3, <2>5 DEF Inv, TypeOK
<1>3. ASSUME Iterate PROVE Inv'
  <2>1. j' = j + loop.step
    BY <1>3, Increments DEF Iterate, Body
  <2> QED
    BY <1>1, <1>3, <2>1 DEF Iterate, Body, Aligned, Inv, TypeOK
<1>4. ASSUME Finish PROVE Inv'
  BY <1>1, <1>4 DEF Finish, Aligned, Inv, TypeOK
<1>5. ASSUME EnterTile PROVE Inv'
  <2>1. PICK q \in Nat : AtTile(q)
    BY <1>1, <1>5 DEF EnterTile, Inv, Aligned
  <2>2. InTile(q, 0)'
    <3>1. 0 * loop.step = 0 /\ q * kTileSize \in Int
      BY <1>1
    <3> QED BY <1>1, <1>5, <2>1, <3>1 DEF EnterTile, AtTile, InTile
  <2>3. Aligned'
    <3>1. 0 \in 0..kTileSize
      BY <1>1
    <3> QED BY <1>5, <2>2, <3>1 DEF EnterTile, Aligned
  <2> QED
    BY <1>1, <1>5, <2>3 DEF EnterTile, Inv, TypeOK
<1>6. ASSUME IterateTile PROVE Inv'
  <2>1. PICK q \in Nat : \E k \in 0..kTileSize : InTile(q, k)
    BY <1>6 DEF IterateTile, Aligned, Inv
  <2>2. PICK k \in 0..kTileSize : InTile(q, k)
    BY <2>1
  <2>3. j < loop.ub /\ k < kTileSize
    BY <1>6, <2>2, InRange DEF IterateTile
  <2>4. j' = j + loop.step
    BY <1>6, <2>3, Increments DEF IterateTile, Body
  <2>5. (k + 1) * loop.step = k * loop.step + loop.step /\ k * loop.step \in Int
    BY <1>1, <2>3, Steps
  <2>6. Len(trace') = Len(trace) + 1
    BY <1>1, <1>6 DEF IterateTile, Body
  <2>7. InTile(q, k + 1)'
    <3> DEFINE P == k * loop.step
               Q == q * kTileSize
    <3>1. P \in Int /\ Q \in Int /\ k \in Int
      BY <1>1, <2>5
    <3>2. j = ii + P /\ Len(trace) = Q + k /\ (k + 1) * loop.step = P + loop.step
      BY <2>2, <2>5 DEF InTile
    <3> HIDE DEF P, Q
    <3>3. j' = ii + (k + 1) * loop.step /\ Len(trace') = Q + (k + 1)
      BY <1>1, <2>4, <2>6, <3>1, <3>2
    <3>4. /\ ii = loop.lb + q * (kTileSize * loop.step)
          /\ ii < loop.ub /\ ii' = ii /\ loop' = loop
      BY <1>6, <2>2 DEF IterateTile, Body, InTile
    <3> QED
      BY <3>3, <3>4 DEF InTile, Q
  <2>8. Aligned'
    <3>1. k + 1 \in 0..kTileSize
      BY <1>1, <2>3
    <3> QED BY <1>6, <2>7, <3>1 DEF IterateTile, Body, Aligned
  <2>9. TypeOK'
    BY <1>1, <1>6, <2>4 DEF IterateTile, Body, Inv, TypeOK
  <2> QED
    BY <1>6, <2>8, <2>9 DEF IterateTile, Body, Inv
<1>7. ASSUME LeaveTile PROVE Inv'
  <2>1. PICK q \in Nat : \E k \in 0..kTileSize : InTile(q, k)
    BY <1>7 DEF LeaveTile, Aligned, Inv
  <2>2. PICK k \in 0..kTileSize : InTile(q, k)
    BY <2>1
  <2>3. /\ ii < loop.ub /\ j = ii + k * loop.step
        /\ ii = loop.lb + q * (kTileSize * loop.step)
        /\ Len(trace) = q * kTileSize + k
    BY <2>2 DEF InTile
  <2>4. ii' = ii + kTileSize * loop.step
    BY <1>7, <2>3, Increments DEF LeaveTile
  <2>5. j >= loop.ub \/ j >= ii'
    BY <1>1, <1>7, <2>3, <2>4, Increments DEF LeaveTile
  <2>6. /\ k * loop.step \in Int
        /\ k < kTileSize => k * loop.step + loop.step <= kTileSize * loop.step
    BY <1>1, Steps
  <2>7. k < kTileSize => j < ii'
    <3> DEFINE P == k * loop.step
               T == kTileSize * loop.step
    <3>1. P \in Int /\ T \in Int /\ j = ii + P /\ ii' = ii + T
      BY <1>1, <2>3, <2>4, <2>6
    <3>2. k < kTileSize => P + loop.step <= T
      BY <2>6
    <3> HIDE DEF P, T
    <3> QED BY <1>1, <3>1, <3>2
  <2>8. ii' < loop.ub => AtTile(q + 1)'
    <3> SUFFICES ASSUME ii' < loop.ub PROVE AtTile(q + 1)'
      OBVIOUS
    <3> DEFINE T == kTileSize * loop.step
    <3>1. k = kTileSize
      BY <1>1, <2>4, <2>5, <2>7
    <3>2. /\ (q + 1) * T = q * T + T /\ q * T \in Int
          /\ (q + 1) * kTileSize = q * kTileSize + kTileSize
      BY <1>1, Tiles
    <3>3. ii' = loop.lb + (q + 1) * T
      <4> DEFINE Q == q * T
                 R == (q + 1) * T
      <4>1. ii = loop.lb + Q /\ ii' = ii + T /\ T \in Int
        BY <1>1, <2>3, <2>4
      <4>2. Q \in Int /\ R = Q + T
        BY <3>2
      <4> HIDE DEF Q, R, T
      <4>3. ii' = loop.lb + R
        BY <1>1, <4>1, <4>2
      <4> QED BY <4>3 DEF R
    <3>4. j = ii' /\ Len(trace) = (q + 1) * kTileSize
      BY <1>1, <2>3, <2>4, <3>1, <3>2
    <3> QED
      BY <1>7, <3>3, <3>4 DEF LeaveTile, AtTile
  <2>9. ii' >= loop.ub => j >= loop.ub
    BY <1>1, <2>4, <2>5
  <2>10. Aligned'
    BY <1>1, <1>7, <2>4, <2>8, <2>9 DEF LeaveTile, Aligned
  <2> QED
    BY <1>1, <1>7, <2>4, <2>10 DEF LeaveTile, Inv, TypeOK
<1>8. ASSUME FinishTiles PROVE Inv'
  BY <1>1, <1>8 DEF FinishTiles, Aligned, Inv, TypeOK
<1>9. ASSUME UNCHANGED vars PROVE Inv'
  <2>1. Aligned'
    BY <1>9 DEF vars, Aligned, AtTile, InTile, Inv
  <2> QED BY <1>9, <2>1 DEF vars, Inv, TypeOK
<1> QED
  BY <1>2, <1>3, <1>4, <1>5, <1>6, <1>7, <1>8, <1>9 DEF Next

\* Every step of the loops is a step of the original loop, or changes
\* nothing that the original loop has.
LEMMA NextRefines ==
  ASSUME TilesFit, Inv, [Next]_vars
  PROVE  [Original!Next]_(Original!vars)
<1> USE DEF Original!vars
<1>1. /\ loop \in Loops /\ loop.ub \in Int /\ ii \in Int /\ j \in Int
      /\ kTileSize * loop.step \in Nat
  BY LoopFields DEF Inv, TypeOK
<1>2. CASE RunPass \/ RunAffineOpt
  BY <1>2 DEF RunPass, RunAffineOpt
<1>3. CASE Iterate
  <2>1. j < loop.ub /\ j' = j + loop.step
    BY <1>3, Increments DEF Iterate, Body
  <2> QED
    BY <1>3, <2>1 DEF Iterate, Body, Original!Next, Original!Iterate
<1>4. CASE Finish
  BY <1>4 DEF Finish, Inv, Original!Next, Original!Finish
<1>5. CASE EnterTile
  BY <1>1, <1>5 DEF EnterTile, Inv, Aligned, AtTile
<1>6. CASE IterateTile
  <2>1. j < loop.ub
    BY <1>6, InRange DEF IterateTile, Aligned, Inv
  <2>2. j' = j + loop.step
    BY <1>6, <2>1, Increments DEF IterateTile, Body
  <2> QED
    BY <1>6, <2>1, <2>2 DEF IterateTile, Body, Original!Next, Original!Iterate
<1>7. CASE LeaveTile
  BY <1>7 DEF LeaveTile
<1>8. CASE FinishTiles
  BY <1>1, <1>8
  DEF FinishTiles, Inv, Aligned, AtTile, Original!Next, Original!Finish
<1>9. CASE UNCHANGED vars
  BY <1>9 DEF vars
<1> QED
  BY <1>2, <1>3, <1>4, <1>5, <1>6, <1>7, <1>8, <1>9 DEF Next

LEMMA InvHolds ==
  ASSUME TilesFit
  PROVE  Safe => []Inv
<1>1. Inv /\ [Next]_vars => Inv'
  BY NextInv
<1> QED
  BY <1>1, InitInv, PTL DEF Safe

(***************************************************************************)
(* The induction variables of the tiled loops stay in their types and      *)
(* never fall below the loop's lower bound: no step wraps.                 *)
(***************************************************************************)
THEOREM TypeCorrect ==
  ASSUME TilesFit
  PROVE  Safe => []TypeOK
<1>1. Inv => TypeOK
  BY DEF Inv
<1> QED
  BY <1>1, InvHolds, PTL

(***************************************************************************)
(* Every tile but the last runs exactly kTileSize iterations of the body,  *)
(* and no tile runs more, for every tile size and step.                    *)
(***************************************************************************)
THEOREM TilesAlwaysFull ==
  ASSUME TilesFit
  PROVE  Safe => []TilesAreFull
<1>1. ASSUME Inv PROVE TilesAreFull
  <2>1. /\ loop \in Loops /\ loop.step \in Nat /\ kTileSize \in Nat
        /\ loop.lb \in Int /\ loop.ub \in Int /\ kTileSize > 0
        /\ kTileSize * loop.step \in Nat /\ ii \in Int /\ j \in Int
    BY <1>1, LoopFields, TilingAssumption DEF Inv, TypeOK
  <2>2. ASSUME pc = "inner" PROVE j - ii <= kTileSize * loop.step
    <3>1. PICK q \in Nat : \E k \in 0..kTileSize : InTile(q, k)
      BY <1>1, <2>2 DEF Inv, Aligned
    <3>2. PICK k \in 0..kTileSize : InTile(q, k)
      BY <3>1
    <3> DEFINE P == k * loop.step
               T == kTileSize * loop.step
    <3>3. P \in Int /\ P <= T /\ T \in Int
      BY <2>1, Steps
    <3>4. j = ii + P
      BY <3>2 DEF InTile
    <3> HIDE DEF P, T
    <3>5. j - ii <= T
      BY <2>1, <3>3, <3>4
    <3> QED BY <3>5 DEF T
  <2>3. ASSUME pc = "outer", ii < loop.ub
        PROVE  Len(trace) * loop.step = ii - loop.lb /\ Len(trace) % kTileSize = 0
    <3>1. PICK q \in Nat : AtTile(q)
      BY <1>1, <2>1, <2>3 DEF Inv, Aligned
    <3>2. (q * kTileSize) * loop.step = q * (kTileSize * loop.step)
      BY <2>1
    <3>3. (q * kTileSize) % kTileSize = 0
      BY <2>1, MultipleLeavesNothing
    <3>4. q * (kTileSize * loop.step) \in Int
      BY <2>1
    <3> QED BY <2>1, <3>1, <3>2, <3>3, <3>4 DEF AtTile
  <2> QED BY <2>2, <2>3 DEF TilesAreFull
<1> QED
  BY <1>1, InvHolds, PTL

(***************************************************************************)
(* The body of a loop, tiled by CustomLoopTiling or not, sees the          *)
(* induction variables of the original loop in their order, and the loop   *)
(* ends with the original result.                                          *)
(***************************************************************************)
THEOREM TilingRefinesLoop ==
  ASSUME TilesFit
  PROVE  Safe => Original!Safe
<1>1. Init => Original!Init
  BY DEF Init, Original!Init
<1>2. Inv /\ [Next]_vars => [Original!Next]_(Original!vars)
  BY NextRefines
<1> QED
  BY <1>1, <1>2, InvHolds, PTL DEF Safe, Original!Safe
=============================================================================
