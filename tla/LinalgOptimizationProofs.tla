--------------------- MODULE LinalgOptimizationProofs ---------------------
(***************************************************************************)
(* The two passes of the linalg optimization stage. For all extents, tile  *)
(* sizes and chains of matmuls, a nest of tile loops computes what the     *)
(* matmul it was made from does: inductive are where in the function nests *)
(* and matmuls may stand, and how far the sum of every element has come    *)
(* when the loops stand at a tile. For functions of every length, constant *)
(* folding, here and in the fusion stage, folds chains to their end.       *)
(***************************************************************************)
EXTENDS LinalgTile, FiniteSetTheorems, TLAPS

Kinds == {"matmul", "nest"}

\* Every matmul is there, each behind those before it in the source, and a
\* nest is behind the matmuls its own could read.
BodyOK ==
  /\ body \in Seq(Kinds \X (DOMAIN mats))
  /\ \A v \in DOMAIN mats : \E p \in DOMAIN body : body[p] = <<"matmul", v>>
  /\ \A p, q \in DOMAIN body :
       body[q][1] = "matmul" /\ body[q][2] < body[p][2] => q < p

\* The sum of an element whose first b reduction steps are done.
Steps(b) == [s \in 1..b |-> s - 1]

Full(v) == [x \in Elements(v) |-> Steps(mats[v].k)]

\* The ops in front of the current one have left what a matmul computes.
EnvOK ==
  /\ pos \in 1..(Len(body) + 1)
  /\ DOMAIN env = {body[p] : p \in 1..(pos - 1)}
  /\ \A p \in 1..(pos - 1) : env[body[p]] = Full(body[p][2])

(***************************************************************************)
(* The steps an element x has had when the loops stand at the tile t:      *)
(* tiles in front of t are complete, t has the steps the loop over k has   *)
(* reached, the others have none.                                          *)
(***************************************************************************)
Reached(x, t, k) ==
  IF x[1] < t[1] \/ (x[1] < t[1] + kTileM /\ x[2] < t[2]) THEN k
  ELSE IF x[1] < t[1] + kTileM /\ x[2] < t[2] + kTileM THEN t[3]
  ELSE 0

NestOK ==
  acc # <<>> =>
    /\ Running("nest")
    /\ tile \in Nat \X Nat \X Nat
    /\ tile[3] <= mats[Current].k
    /\ acc = [x \in Elements(Current) |-> Steps(Reached(x, tile, mats[Current].k))]

Inv ==
  /\ mats \in Functions
  /\ phase \in {"collect", "tile", "run", "done"}
  /\ targets \subseteq DOMAIN mats
  /\ BodyOK
  /\ EnvOK
  /\ NestOK
  /\ phase \in {"collect", "tile"} => pos = 1 /\ acc = <<>>
  /\ phase = "done" => pos > Len(body)

-----------------------------------------------------------------------------
\* What the assumption says of a function's matmuls.
LEMMA MatmulTypes ==
  ASSUME mats \in Functions, NEW v \in DOMAIN mats
  PROVE  /\ v \in Nat /\ mats[v].m \in Nat /\ mats[v].k \in Nat /\ mats[v].n \in Nat
         /\ mats[v].lhs \in Nat /\ mats[v].lhs < v
         /\ mats[v].lhs # 0 => mats[v].lhs \in DOMAIN mats
<1>1. mats \in Seq(Matmul) /\ mats[v].lhs < v
  BY TileAssumption
<1>2. mats[v] \in Matmul /\ v \in 1..Len(mats) /\ DOMAIN mats = 1..Len(mats)
      /\ Len(mats) \in Nat
  BY <1>1
<1>3. /\ mats[v].m \in Nat /\ mats[v].k \in Nat /\ mats[v].n \in Nat
      /\ mats[v].lhs \in Nat
  BY <1>2 DEF Matmul
<1> QED BY <1>1, <1>2, <1>3

\* Two sequences, one behind the other.
LEMMA Concatenation ==
  ASSUME NEW T, NEW s \in Seq(T), NEW t \in Seq(T)
  PROVE  /\ s \o t \in Seq(T) /\ Len(s \o t) = Len(s) + Len(t)
         /\ \A q \in 1..Len(s) : (s \o t)[q] = s[q]
         /\ \A q \in 1..Len(t) : (s \o t)[Len(s) + q] = t[q]
OBVIOUS

\* r is s with o in front of the op at p: the others keep their order.
Inserted(r, s, p, o, T) ==
  /\ r \in Seq(T) /\ Len(r) = Len(s) + 1
  /\ \A q \in 1..(p - 1) : r[q] = s[q]
  /\ r[p] = o
  /\ \A q \in (p + 1)..(Len(s) + 1) : r[q] = s[q - 1]

LEMMA InsertShifts ==
  ASSUME NEW T, NEW s \in Seq(T), NEW p \in DOMAIN s, NEW o \in T,
         NEW r, r = InsertBefore(s, p, o)
  PROVE  Inserted(r, s, p, o, T)
<1> DEFINE a == SubSeq(s, 1, p - 1)
           b == SubSeq(s, p, Len(s))
           c == a \o <<o>>
<1>6. r = c \o b
  BY DEF InsertBefore
<1>1. p \in 1..Len(s) /\ Len(s) \in Nat
  OBVIOUS
<1>2. /\ a \in Seq(T) /\ Len(a) = p - 1
      /\ \A q \in 1..(p - 1) : a[q] = s[q]
  BY <1>1
<1>3. /\ b \in Seq(T) /\ Len(b) = Len(s) - p + 1
      /\ \A q \in 1..(Len(s) - p + 1) : b[q] = s[q + p - 1]
  BY <1>1
<1> HIDE DEF a, b
<1>4. /\ c \in Seq(T) /\ Len(c) = p
      /\ \A q \in 1..(p - 1) : c[q] = s[q]
      /\ c[p] = o
  BY <1>1, <1>2
<1> HIDE DEF c
<1>5. /\ r \in Seq(T) /\ Len(r) = Len(c) + Len(b)
      /\ \A q \in 1..Len(c) : r[q] = c[q]
      /\ \A q \in 1..Len(b) : r[Len(c) + q] = b[q]
  <2>1. c \in Seq(T) /\ b \in Seq(T)
    BY <1>3, <1>4
  <2>2. /\ c \o b \in Seq(T) /\ Len(c \o b) = Len(c) + Len(b)
        /\ \A q \in 1..Len(c) : (c \o b)[q] = c[q]
        /\ \A q \in 1..Len(b) : (c \o b)[Len(c) + q] = b[q]
    BY <2>1, Concatenation
  <2> QED BY <1>6, <2>2
<1>7. /\ r \in Seq(T) /\ Len(r) = Len(s) + 1
      /\ \A q \in 1..p : r[q] = c[q]
      /\ \A q \in 1..(Len(s) - p + 1) : r[p + q] = b[q]
  <2>1. Len(c) = p /\ Len(b) = Len(s) - p + 1
    BY <1>3, <1>4
  <2> QED BY <1>1, <1>5, <2>1
<1>8. ASSUME NEW q \in (p + 1)..(Len(s) + 1) PROVE r[q] = s[q - 1]
  <2>1. q - p \in 1..(Len(s) - p + 1) /\ (q - p) + p - 1 = q - 1 /\ p + (q - p) = q
    BY <1>1
  <2>2. r[p + (q - p)] = b[q - p]
    BY <1>7, <2>1
  <2>3. b[q - p] = s[(q - p) + p - 1]
    BY <1>3, <2>1
  <2> QED BY <2>1, <2>2, <2>3
<1> QED BY <1>1, <1>4, <1>7, <1>8 DEF Inserted

\* The insertion of a nest in front of its matmul keeps the order.
LEMMA InsertKeepsBody ==
  ASSUME mats \in Functions, BodyOK, NEW v \in DOMAIN mats,
         body' = InsertBefore(body, PlaceOf(<<"matmul", v>>), <<"nest", v>>),
         UNCHANGED mats
  PROVE  BodyOK'
<1> DEFINE P == PlaceOf(<<"matmul", v>>)
           T == Kinds \X (DOMAIN mats)
           n == Len(body)
<1>1. P \in DOMAIN body /\ body[P] = <<"matmul", v>>
  BY DEF BodyOK, PlaceOf
<1> HIDE DEF P
<1>2. body \in Seq(T) /\ <<"nest", v>> \in T
  BY DEF BodyOK, Kinds
<1> HIDE DEF T
<1>3. /\ body' \in Seq(T) /\ Len(body') = Len(body) + 1
      /\ \A q \in 1..(P - 1) : body'[q] = body[q]
      /\ body'[P] = <<"nest", v>>
      /\ \A q \in (P + 1)..(Len(body) + 1) : body'[q] = body[q - 1]
  <2>1. body' = InsertBefore(body, P, <<"nest", v>>)
    BY DEF P
  <2> DEFINE o == <<"nest", v>>
             r == body'
  <2>2. body \in Seq(T) /\ P \in DOMAIN body /\ o \in T /\ r = InsertBefore(body, P, o)
    BY <1>1, <1>2, <2>1
  <2> HIDE DEF n, o, r
  <2>3. Inserted(r, body, P, o, T)
    BY <2>2, InsertShifts, Zenon
  <2> QED BY <2>3 DEF Inserted, o, r
<1>4. n \in Nat /\ P \in 1..n /\ DOMAIN body = 1..n /\ DOMAIN body' = 1..(n + 1)
  BY <1>1, <1>2, <1>3
<1>8. /\ \A q \in 1..(P - 1) : body'[q] = body[q]
      /\ \A q \in (P + 1)..(n + 1) : body'[q] = body[q - 1]
  BY <1>3
<1>9. /\ body'[P][1] = "nest" /\ body'[P][2] = v
      /\ body[P][2] = v
  <2>1. body[P] = <<"matmul", v>> /\ body'[P] = <<"nest", v>>
    BY <1>1, <1>3
  <2> QED BY <2>1
<1> HIDE DEF n
<1>5. ASSUME NEW w \in DOMAIN mats
      PROVE  \E q \in DOMAIN body' : body'[q] = <<"matmul", w>>
  <2>1. PICK q \in 1..n : body[q] = <<"matmul", w>>
    BY <1>4 DEF BodyOK
  <2>2. CASE q < P
    <3>1. q \in 1..(P - 1) /\ q \in 1..(n + 1)
      BY <1>4, <2>2
    <3>2. body'[q] = body[q]
      BY <1>8, <3>1
    <3> QED BY <1>4, <2>1, <3>1, <3>2
  <2>3. CASE q >= P
    <3>1. q + 1 \in (P + 1)..(n + 1) /\ (q + 1) - 1 = q
      BY <1>4, <2>3
    <3>2. body'[q + 1] = body[q]
      BY <1>8, <3>1
    <3> QED BY <1>4, <2>1, <3>1, <3>2
  <2> QED BY <1>4, <2>2, <2>3
<1>6. ASSUME NEW p \in DOMAIN body', NEW q \in DOMAIN body',
             body'[q][1] = "matmul", body'[q][2] < body'[p][2]
      PROVE  q < p
  <2>1. q # P
    BY <1>6, <1>9
  <2> DEFINE old(r) == IF r < P THEN r ELSE IF r = P THEN P ELSE r - 1
  <2>2. \A r \in 1..(n + 1) : /\ old(r) \in 1..n
                              /\ r # P => body'[r] = body[old(r)]
                              /\ body'[r][2] = body[old(r)][2]
    <3> TAKE r \in 1..(n + 1)
    <3>1. CASE r < P
      BY <1>4, <1>8, <3>1, SMTT(30)
    <3>2. CASE r = P
      BY <1>4, <1>9, <3>2, SMTT(30)
    <3>3. CASE r > P
      <4>1. r \in (P + 1)..(n + 1) /\ r - 1 \in 1..n /\ r # P /\ ~(r < P)
        BY <1>4, <3>3
      <4>2. body'[r] = body[r - 1]
        BY <1>8, <4>1
      <4> QED BY <4>1, <4>2
    <3> QED BY <1>4, <3>1, <3>2, <3>3
  <2>3. body[old(q)][1] = "matmul" /\ body[old(q)][2] < body[old(p)][2]
    BY <1>4, <1>6, <2>1, <2>2
  <2>4. old(q) < old(p)
    BY <1>4, <2>2, <2>3 DEF BodyOK
  <2> QED BY <1>4, <2>1, <2>4
<1>7. body' \in Seq(Kinds \X (DOMAIN mats'))
  BY <1>3 DEF T
<1> QED BY <1>5, <1>6, <1>7 DEF BodyOK

-----------------------------------------------------------------------------
\* Further steps behind the first ones.
LEMMA StepsConcat ==
  ASSUME NEW a \in Nat, NEW c \in Nat
  PROVE  Steps(a) \o [s \in 1..c |-> a + s - 1] = Steps(a + c)
<1> DEFINE u == [s \in 1..a |-> s - 1]
           w == [s \in 1..c |-> a + s - 1]
           r == u \o w
<1>1. u \in Seq(Int) /\ Len(u) = a /\ w \in Seq(Int) /\ Len(w) = c
  OBVIOUS
<1>2. /\ \A s \in 1..a : u[s] = s - 1
      /\ \A s \in 1..c : w[s] = a + s - 1
  OBVIOUS
<1> HIDE DEF u, w
<1>3. /\ r \in Seq(Int) /\ Len(r) = a + c
      /\ \A s \in 1..a : r[s] = u[s]
      /\ \A s \in 1..c : r[a + s] = w[s]
  <2>1. /\ r \in Seq(Int) /\ Len(r) = Len(u) + Len(w)
        /\ \A q \in 1..Len(u) : r[q] = u[q]
        /\ \A q \in 1..Len(w) : r[Len(u) + q] = w[q]
    <3>1. u \in Seq(Int) /\ w \in Seq(Int)
      BY <1>1
    <3> QED BY ONLY <3>1, Concatenation DEF r
  <2> HIDE DEF r
  <2> QED BY <1>1, <2>1
<1> HIDE DEF r
<1>4. ASSUME NEW s \in 1..(a + c) PROVE r[s] = s - 1
  <2>1. CASE s \in 1..a
    BY <1>2, <1>3, <2>1
  <2>2. CASE s \in (a + 1)..(a + c)
    <3>1. s - a \in 1..c /\ a + (s - a) = s
      BY <2>2
    <3>2. r[a + (s - a)] = w[s - a]
      BY <1>3, <3>1
    <3>3. w[s - a] = a + (s - a) - 1
      BY <1>2, <3>1
    <3> QED BY <3>1, <3>2, <3>3
  <2> QED BY <2>1, <2>2
<1>5. r = [s \in 1..(a + c) |-> r[s]]
  BY <1>3
<1>6. r = [s \in 1..(a + c) |-> s - 1]
  BY <1>4, <1>5
<1> QED BY <1>6 DEF r, u, w, Steps

\* How many loop points a tile has that starts at t in a loop up to e.
LEMMA SpanSize ==
  ASSUME NEW t \in Nat, NEW T \in Nat \ {0}, NEW e \in Nat, t <= e
  PROVE  Cardinality({x \in t..(t + T - 1) : x < e}) = IF t + T < e THEN T ELSE e - t
<1>1. CASE t + T < e
  <2>1. {x \in t..(t + T - 1) : x < e} = t..(t + T - 1)
    BY <1>1
  <2>2. Cardinality(t..(t + T - 1)) = T
    BY FS_Interval
  <2> QED BY <1>1, <2>1, <2>2
<1>2. CASE ~(t + T < e)
  <2>1. {x \in t..(t + T - 1) : x < e} = t..(e - 1)
    BY <1>2
  <2>2. Cardinality(t..(e - 1)) = e - t
    <3>1. t \in Int /\ e - 1 \in Int
      OBVIOUS
    <3>2. Cardinality(t..(e - 1)) = IF t > e - 1 THEN 0 ELSE (e - 1) - t + 1
      BY <3>1, FS_Interval
    <3> QED BY <3>2
  <2> QED BY <1>2, <2>1, <2>2
<1> QED BY <1>1, <1>2

\* The current op and what the run has left so far.
LEMMA CurrentOp ==
  ASSUME Inv, phase = "run", pos \in DOMAIN body
  PROVE  /\ pos \in 1..Len(body) /\ Len(body) \in Nat
         /\ Current \in DOMAIN mats
         /\ body[pos] = <<body[pos][1], Current>>
<1>1. body \in Seq(Kinds \X (DOMAIN mats))
  BY DEF Inv, BodyOK
<1>2. body[pos] \in Kinds \X (DOMAIN mats) /\ pos \in 1..Len(body) /\ Len(body) \in Nat
  BY <1>1
<1> QED BY <1>2 DEF Current

\* An op has left what a matmul computes, and the run goes on behind it.
LEMMA BindKeepsEnv ==
  ASSUME Inv, phase = "run", pos \in DOMAIN body,
         Bind(body[pos], Full(Current)), pos' = pos + 1, UNCHANGED <<body, mats>>
  PROVE  EnvOK'
<1> DEFINE o == body[pos]
<1>1. /\ EnvOK /\ pos \in 1..Len(body) /\ Len(body) \in Nat
      /\ Current = o[2]
  BY CurrentOp DEF Inv, Current
<1>2. env' = [q \in DOMAIN env \cup {o} |-> IF q = o THEN Full(o[2]) ELSE env[q]]
  BY <1>1 DEF Bind
<1>3. pos' \in 1..(Len(body') + 1) /\ pos' - 1 = pos
  BY <1>1
<1>4. 1..pos = 1..(pos - 1) \cup {pos}
  BY <1>1
<1>5. DOMAIN env' = {body[p] : p \in 1..pos}
  BY <1>1, <1>2, <1>4 DEF EnvOK
<1>6. ASSUME NEW p \in 1..pos PROVE env'[body[p]] = Full(body[p][2])
  <2>1. CASE body[p] = o
    BY <1>2, <1>5, <2>1
  <2>2. CASE body[p] # o
    <3>1. p \in 1..(pos - 1)
      BY <1>1, <2>2
    <3>2. body[p] \in DOMAIN env /\ env[body[p]] = Full(body[p][2])
      BY <1>1, <3>1 DEF EnvOK
    <3> QED BY <1>2, <2>2, <3>2
  <2> QED BY <2>1, <2>2
<1>7. \A v : Full(v)' = Full(v)
  BY DEF Full, Elements
<1> QED BY <1>3, <1>5, <1>6, <1>7 DEF EnvOK

\* The matmul a nest reads from has run.
LEMMA NestIsDominated ==
  ASSUME Inv, Running("nest")
  PROVE  Dominated(Current)
<1> DEFINE v == Current
<1> SUFFICES ASSUME mats[v].lhs # 0 PROVE <<"matmul", mats[v].lhs>> \in DOMAIN env
  BY DEF Dominated
<1>1. pos \in 1..Len(body) /\ Len(body) \in Nat /\ v \in DOMAIN mats
  BY CurrentOp DEF Running
<1>2. mats[v].lhs \in DOMAIN mats /\ mats[v].lhs < v
  BY <1>1, MatmulTypes DEF Inv
<1>3. PICK q \in DOMAIN body : body[q] = <<"matmul", mats[v].lhs>>
  BY <1>2 DEF Inv, BodyOK
<1>4. body[q][1] = "matmul" /\ body[q][2] = mats[v].lhs
  BY <1>3
<1>5. q < pos
  <2>1. pos \in DOMAIN body /\ body[pos][2] = v
    BY DEF Running, Current
  <2> QED BY <1>2, <1>4, <2>1 DEF Inv, BodyOK
<1>6. q \in 1..(pos - 1)
  <2>1. q \in 1..Len(body)
    BY <1>3 DEF Inv, BodyOK
  <2> QED BY <1>1, <1>5, <2>1
<1> QED BY <1>3, <1>6 DEF Inv, EnvOK

LEMMA EnterKeepsNest ==
  ASSUME Inv, EnterNest
  PROVE  NestOK'
<1> DEFINE v == Current
           k == mats[v].k
<1>1. Running("nest") /\ Dominated(v)
  BY NestIsDominated DEF EnterNest
<1>2. v \in DOMAIN mats /\ mats \in Functions
  BY <1>1, CurrentOp DEF Running, Inv
<1>3. mats[v].m \in Nat /\ k \in Nat /\ mats[v].n \in Nat
  BY <1>2, MatmulTypes
<1>4. /\ acc' = [x \in Elements(v) |-> <<>>] /\ tile' = <<0, 0, 0>>
      /\ UNCHANGED <<mats, body, phase, pos>>
  BY <1>1 DEF EnterNest
<1>5. \A x \in Elements(v) : Reached(x, <<0, 0, 0>>, k) = 0
  BY <1>3, TileAssumption DEF Elements, Reached
<1>6. Steps(0) = <<>>
  BY DEF Steps
<1>7. [x \in Elements(v) |-> <<>>] =
        [x \in Elements(v) |-> Steps(Reached(x, <<0, 0, 0>>, k))]
  BY <1>5, <1>6
<1>8. Running("nest")' /\ Current' = v /\ (\A w : Elements(w)' = Elements(w))
  BY <1>1, <1>4 DEF Running, Current, Elements
<1>9. tile' \in Nat \X Nat \X Nat /\ tile'[3] <= k
  BY <1>3, <1>4
<1> HIDE DEF v
<1> QED BY <1>4, <1>7, <1>8, <1>9 DEF NestOK

\* The loops go on from a tile: what its matmul added.
LEMMA NextTileReached ==
  ASSUME Inv, Running("nest"), acc # <<>>, tile[1] < mats[Current].m
  PROVE  LET k == mats[Current].k
             c == Cardinality(Span(3))
         IN  /\ NextTile \in Nat \X Nat \X Nat /\ NextTile[3] <= k
             /\ c \in Nat
             /\ \A x \in Elements(Current) :
                  IF x[1] \in Span(1) /\ x[2] \in Span(2)
                  THEN Reached(x, tile, k) = tile[3] /\ Reached(x, NextTile, k) = tile[3] + c
                  ELSE Reached(x, NextTile, k) = Reached(x, tile, k)
<1> DEFINE v == Current
           m == mats[v].m
           n == mats[v].n
           k == mats[v].k
           a == tile[1]
           b == tile[2]
           t == tile[3]
           A == kTileM
           C == kTileN
           c == Cardinality(Span(3))
           Here(x) == a <= x[1] /\ x[1] < a + A /\ b <= x[2] /\ x[2] < b + A
<1>1. v \in DOMAIN mats /\ mats \in Functions
  BY CurrentOp DEF Running, Inv
<1>2. m \in Nat /\ k \in Nat /\ n \in Nat
  BY <1>1, MatmulTypes
<1>3. A \in Nat \ {0} /\ C \in Nat \ {0}
  BY TileAssumption
<1>4. /\ a \in Nat /\ b \in Nat /\ t \in Nat /\ t <= k
      /\ tile = <<a, b, t>>
  BY DEF Inv, NestOK
<1>5. /\ Span(1) = {x \in a..(a + A - 1) : x < m}
      /\ Span(2) = {x \in b..(b + A - 1) : x < n}
      /\ Span(3) = {x \in t..(t + C - 1) : x < k}
      /\ MoreIn(2) <=> b + A < n
      /\ MoreIn(3) <=> t + C < k
  BY DEF Span, MoreIn, TileSizes, Extents
<1>6. c = IF t + C < k THEN C ELSE k - t
  <2>1. c = Cardinality({x \in t..(t + C - 1) : x < k})
    BY <1>5
  <2>2. t \in Nat /\ t <= k /\ k \in Nat /\ C \in Nat \ {0}
    BY <1>2, <1>3, <1>4
  <2> HIDE DEF v, m, n, k, a, b, t, A, C, c
  <2> QED BY <2>1, <2>2, SpanSize
<1>7. NextTile = IF t + C < k THEN <<a, b, t + C>>
                 ELSE IF b + A < n THEN <<a, b + A, 0>> ELSE <<a + A, 0, 0>>
  <2>1. CASE t + C < k
    <3>1. NextTile = [tile EXCEPT ![3] = @ + TileSizes[3]]
      BY <1>5, <2>1 DEF NextTile
    <3>2. [tile EXCEPT ![3] = @ + TileSizes[3]] = <<a, b, t + C>>
      BY <1>4 DEF TileSizes
    <3> QED BY <2>1, <3>1, <3>2
  <2>2. CASE ~(t + C < k) /\ b + A < n
    BY <1>5, <2>2 DEF NextTile, TileSizes
  <2>3. CASE ~(t + C < k) /\ ~(b + A < n)
    BY <1>5, <2>3 DEF NextTile, TileSizes
  <2> QED BY <2>1, <2>2, <2>3
<1>8. \A x \in Elements(v) : /\ x[1] \in Nat /\ x[1] < m /\ x[2] \in Nat /\ x[2] < n
                             /\ x[1] \in Span(1) /\ x[2] \in Span(2) <=> Here(x)
  <2> TAKE x \in Elements(v)
  <2>1. x[1] \in Nat /\ x[1] < m /\ x[2] \in Nat /\ x[2] < n
    BY <1>2 DEF Elements
  <2> HIDE DEF v, m, n, k, a, b, t, A, C
  <2> QED BY <1>2, <1>3, <1>4, <1>5, <2>1, SMTT(30)
<1> HIDE DEF v, m, n, k, a, b, t, A, C, c
<1>9. NextTile \in Nat \X Nat \X Nat /\ NextTile[3] <= k /\ c \in Nat
  BY <1>2, <1>3, <1>4, <1>6, <1>7
<1>10. ASSUME NEW x \in Elements(v)
       PROVE  IF Here(x)
              THEN Reached(x, tile, k) = t /\ Reached(x, NextTile, k) = t + c
              ELSE Reached(x, NextTile, k) = Reached(x, tile, k)
  <2>1. /\ x[1] \in Nat /\ x[1] < m /\ x[2] \in Nat /\ x[2] < n
    BY <1>8
  <2>2. Reached(x, tile, k) = IF x[1] < a \/ (x[1] < a + A /\ x[2] < b) THEN k
                              ELSE IF x[1] < a + A /\ x[2] < b + A THEN t
                              ELSE 0
    BY DEF Reached, a, b, t, A
  <2>6. /\ a \in Nat /\ b \in Nat /\ t \in Nat /\ t <= k
        /\ k \in Nat /\ n \in Nat /\ A \in Nat /\ A > 0
    BY <1>2, <1>3, <1>4
  <2>3. CASE t + C < k
    <3>1. NextTile[1] = a /\ NextTile[2] = b /\ NextTile[3] = t + C
      BY <1>7, <2>3
    <3>2. Reached(x, NextTile, k) =
            IF x[1] < a \/ (x[1] < a + A /\ x[2] < b) THEN k
            ELSE IF x[1] < a + A /\ x[2] < b + A THEN t + C
            ELSE 0
      BY <3>1 DEF Reached, A
    <3>3. c = C
      BY <1>6, <2>3
    <3> QED BY <2>1, <2>2, <2>3, <2>6, <3>2, <3>3
  <2>4. CASE ~(t + C < k) /\ b + A < n
    <3>1. NextTile[1] = a /\ NextTile[2] = b + A /\ NextTile[3] = 0
      BY <1>7, <2>4
    <3>2. Reached(x, NextTile, k) =
            IF x[1] < a \/ (x[1] < a + A /\ x[2] < b + A) THEN k
            ELSE IF x[1] < a + A /\ x[2] < b + A + A THEN 0
            ELSE 0
      BY <3>1 DEF Reached, A
    <3>3. c = k - t
      BY <1>6, <2>4
    <3> QED BY <2>1, <2>2, <2>4, <2>6, <3>2, <3>3, SMTT(30)
  <2>5. CASE ~(t + C < k) /\ ~(b + A < n)
    <3>1. NextTile[1] = a + A /\ NextTile[2] = 0 /\ NextTile[3] = 0
      BY <1>7, <2>5
    <3>2. Reached(x, NextTile, k) =
            IF x[1] < a + A \/ (x[1] < a + A + A /\ x[2] < 0) THEN k
            ELSE IF x[1] < a + A + A /\ x[2] < 0 + A THEN 0
            ELSE 0
      BY <3>1 DEF Reached, A
    <3>3. c = k - t
      BY <1>6, <2>5
    <3> QED BY <2>1, <2>2, <2>5, <2>6, <3>2, <3>3
  <2> QED BY <2>3, <2>4, <2>5
<1> QED BY <1>8, <1>9, <1>10 DEF v, k, t, c

LEMMA TileKeepsNest ==
  ASSUME Inv, RunTile
  PROVE  NestOK'
<1> DEFINE v == Current
           k == mats[v].k
           t == tile[3]
           c == Cardinality(Span(3))
           Here(x) == x[1] \in Span(1) /\ x[2] \in Span(2)
<1>1. /\ Running("nest") /\ acc # <<>> /\ tile[1] < mats[v].m
      /\ tile' = NextTile /\ UNCHANGED <<mats, body, phase, pos>>
  BY DEF RunTile
<1>2. /\ acc = [x \in Elements(v) |-> Steps(Reached(x, tile, k))]
      /\ t \in Nat
  BY <1>1 DEF Inv, NestOK
<1>3. acc' = [x \in Elements(v) |->
                IF Here(x) THEN acc[x] \o [s \in 1..c |-> t + s - 1] ELSE acc[x]]
  <2>1. DOMAIN acc = Elements(v)
    BY <1>2
  <2>2. acc' = [x \in DOMAIN acc |->
                  IF Here(x) THEN acc[x] \o [s \in 1..c |-> t + s - 1] ELSE acc[x]]
    BY DEF RunTile
  <2> QED BY <2>1, <2>2
<1>4. /\ NextTile \in Nat \X Nat \X Nat /\ NextTile[3] <= k /\ c \in Nat
      /\ \A x \in Elements(v) :
           IF Here(x)
           THEN Reached(x, tile, k) = t /\ Reached(x, NextTile, k) = t + c
           ELSE Reached(x, NextTile, k) = Reached(x, tile, k)
  BY <1>1, NextTileReached
<1>5. Running("nest")' /\ Current' = v /\ (\A w : Elements(w)' = Elements(w))
  BY <1>1 DEF Running, Current, Elements
<1> HIDE DEF v, k, t, c, Here
<1>6. ASSUME NEW x \in Elements(v)
      PROVE  (IF Here(x) THEN acc[x] \o [s \in 1..c |-> t + s - 1] ELSE acc[x]) =
               Steps(Reached(x, NextTile, k))
  <2>1. acc[x] = Steps(Reached(x, tile, k))
    BY <1>2
  <2>2. Steps(t) \o [s \in 1..c |-> t + s - 1] = Steps(t + c)
    BY <1>2, <1>4, StepsConcat
  <2>3. CASE Here(x)
    BY <1>4, <2>1, <2>2, <2>3
  <2>4. CASE ~Here(x)
    BY <1>4, <2>1, <2>4
  <2> QED BY <2>3, <2>4
<1>7. acc' = [x \in Elements(v) |-> Steps(Reached(x, NextTile, k))]
  BY <1>3, <1>6
<1>8. mats'[Current'].k = k
  BY <1>1, <1>5 DEF k
<1> QED BY <1>1, <1>4, <1>5, <1>7, <1>8 DEF NestOK

\* The nest is through: its tensor is what the matmul computes.
LEMMA NestEndsFull ==
  ASSUME Inv, LeaveNest
  PROVE  acc = Full(Current)
<1> DEFINE v == Current
           k == mats[v].k
<1>1. /\ Running("nest") /\ acc # <<>> /\ tile[1] >= mats[v].m
  BY DEF LeaveNest
<1>2. v \in DOMAIN mats /\ mats \in Functions
  BY <1>1, CurrentOp DEF Running, Inv
<1>3. mats[v].m \in Nat /\ k \in Nat /\ mats[v].n \in Nat
  BY <1>2, MatmulTypes
<1>4. /\ acc = [x \in Elements(v) |-> Steps(Reached(x, tile, k))]
      /\ tile[1] \in Nat
  BY <1>1 DEF Inv, NestOK
<1>5. \A x \in Elements(v) : Reached(x, tile, k) = k
  BY <1>1, <1>3, <1>4 DEF Elements, Reached
<1> QED BY <1>4, <1>5 DEF Full

-----------------------------------------------------------------------------
LEMMA InitInv == Init => Inv
<1> SUFFICES ASSUME Init PROVE Inv
  OBVIOUS
<1>1. /\ mats \in Functions /\ body = [v \in DOMAIN mats |-> <<"matmul", v>>]
      /\ targets = {} /\ phase = "collect" /\ pos = 1 /\ acc = <<>> /\ env = <<>>
  BY DEF Init
<1>2. DOMAIN mats = 1..Len(mats) /\ Len(mats) \in Nat
  BY <1>1, TileAssumption
<1>3. /\ body \in Seq(Kinds \X (DOMAIN mats))
      /\ Len(body) = Len(mats) /\ DOMAIN body = 1..Len(mats)
      /\ \A v \in DOMAIN mats : body[v] = <<"matmul", v>>
  <2>1. \A v \in 1..Len(mats) : <<"matmul", v>> \in Kinds \X (DOMAIN mats)
    BY <1>2 DEF Kinds
  <2>2. body = [v \in 1..Len(mats) |-> <<"matmul", v>>]
    BY <1>1, <1>2
  <2> QED BY <1>2, <2>1, <2>2
<1>4. \A v \in DOMAIN mats : body[v][2] = v
  BY <1>3
<1>5. BodyOK
  BY <1>2, <1>3, <1>4 DEF BodyOK
<1>6. EnvOK
  BY <1>1, <1>2, <1>3 DEF EnvOK
<1> QED BY <1>1, <1>5, <1>6 DEF Inv, NestOK

LEMMA NextInv == Inv /\ [Next]_vars => Inv'
<1> SUFFICES ASSUME Inv, [Next]_vars PROVE Inv'
  OBVIOUS
<1>1. ASSUME UNCHANGED <<mats, body, pos, env>> PROVE EnvOK'
  <2>1. \A v : Full(v)' = Full(v)
    BY <1>1 DEF Full, Elements
  <2> QED BY <1>1, <2>1 DEF Inv, EnvOK
<1>2. ASSUME UNCHANGED <<mats, body>> PROVE BodyOK'
  BY <1>2 DEF Inv, BodyOK
<1>3. ASSUME UNCHANGED <<mats, body, phase, pos, tile, acc>> PROVE NestOK'
  <2>1. \A v : Elements(v)' = Elements(v)
    BY <1>3 DEF Elements
  <2> QED BY <1>3, <2>1 DEF Inv, NestOK, Running, Current
<1>4. CASE Collect
  <2>1. Targets \subseteq DOMAIN mats
    BY DEF Targets
  <2>2. NestOK'
    BY <1>4 DEF Collect, Inv, NestOK
  <2> QED BY <1>1, <1>2, <1>4, <2>1, <2>2 DEF Collect, Inv
<1>5. CASE Tile
  <2>1. PICK v \in targets :
          /\ body' = InsertBefore(body, PlaceOf(<<"matmul", v>>), <<"nest", v>>)
          /\ targets' = targets \ {v}
    BY <1>5 DEF Tile
  <2>2. /\ phase = "tile" /\ UNCHANGED <<mats, phase, pos, tile, acc, env>>
        /\ acc = <<>> /\ pos = 1 /\ v \in DOMAIN mats /\ mats \in Functions
    BY <1>5, <2>1 DEF Tile, Inv
  <2>3. BodyOK'
    BY <2>1, <2>2, InsertKeepsBody DEF Inv
  <2>4. EnvOK'
    <3>1. Len(body') \in Nat
      BY <2>3 DEF BodyOK
    <3>2. DOMAIN env = {}
      BY <2>2 DEF Inv, EnvOK
    <3> QED BY <2>2, <3>1, <3>2 DEF EnvOK
  <2> QED BY <2>1, <2>2, <2>3, <2>4 DEF Inv, NestOK
<1>6. CASE EndPass
  <2>1. NestOK'
    BY <1>6 DEF EndPass, Inv, NestOK
  <2> QED BY <1>1, <1>2, <1>6, <2>1 DEF EndPass, Inv
<1>7. CASE RunMatmul
  <2>1. /\ phase = "run" /\ pos \in DOMAIN body /\ body[pos][1] = "matmul"
        /\ pos' = pos + 1 /\ UNCHANGED <<mats, body, targets, phase, tile, acc>>
    BY <1>7 DEF RunMatmul, Running
  <2>2. Bind(body[pos], Full(Current))
    BY <1>7 DEF RunMatmul, Full, Steps
  <2>3. EnvOK'
    BY <2>1, <2>2, BindKeepsEnv
  <2>4. acc = <<>>
    BY <2>1 DEF Inv, NestOK, Running
  <2> QED BY <1>2, <2>1, <2>3, <2>4 DEF Inv, NestOK
<1>8. CASE EnterNest
  <2>1. phase = "run" /\ UNCHANGED <<mats, body, targets, phase, pos, env>>
    BY <1>8 DEF EnterNest, Running
  <2> QED BY <1>1, <1>2, <1>8, <2>1, EnterKeepsNest DEF Inv
<1>9. CASE RunTile
  <2>1. phase = "run" /\ UNCHANGED <<mats, body, targets, phase, pos, env>>
    BY <1>9 DEF RunTile, Running
  <2> QED BY <1>1, <1>2, <1>9, <2>1, TileKeepsNest DEF Inv
<1>10. CASE LeaveNest
  <2>1. /\ phase = "run" /\ pos \in DOMAIN body /\ Bind(body[pos], acc)
        /\ acc' = <<>> /\ pos' = pos + 1
        /\ UNCHANGED <<mats, body, targets, phase, tile>>
    BY <1>10 DEF LeaveNest, Running
  <2>2. EnvOK'
    BY <1>10, <2>1, NestEndsFull, BindKeepsEnv
  <2> QED BY <1>2, <2>1, <2>2 DEF Inv, NestOK
<1>11. CASE Return
  <2>1. /\ phase = "run" /\ pos > Len(body) /\ phase' = "done"
        /\ UNCHANGED <<mats, body, targets, pos, tile, acc, env>>
    BY <1>11 DEF Return
  <2>2. acc = <<>>
    <3>1. pos \notin DOMAIN body
      BY <2>1 DEF Inv, BodyOK, EnvOK
    <3> QED BY <3>1 DEF Inv, NestOK, Running
  <2> QED BY <1>1, <1>2, <2>1, <2>2 DEF Inv, NestOK
<1>12. CASE UNCHANGED vars
  BY <1>1, <1>2, <1>3, <1>12 DEF vars, Inv
<1> QED BY <1>4, <1>5, <1>6, <1>7, <1>8, <1>9, <1>10, <1>11, <1>12 DEF Next

LEMMA InvComputes == Inv => NestsComputeMatmul
<1> SUFFICES ASSUME Inv, phase = "done", NEW p \in DOMAIN body, body[p][1] = "nest"
             PROVE  env[body[p]] = env[<<"matmul", body[p][2]>>]
  BY DEF NestsComputeMatmul
<1>1. /\ body \in Seq(Kinds \X (DOMAIN mats)) /\ pos > Len(body)
      /\ EnvOK
  BY DEF Inv, BodyOK
<1>2. body[p] \in Kinds \X (DOMAIN mats) /\ DOMAIN body = 1..Len(body)
      /\ Len(body) \in Nat
  BY <1>1
<1>3. \A q \in DOMAIN body : q \in 1..(pos - 1)
  BY <1>1, <1>2 DEF EnvOK
<1>4. PICK q \in DOMAIN body : body[q] = <<"matmul", body[p][2]>>
  BY <1>2 DEF Inv, BodyOK
<1>5. env[body[p]] = Full(body[p][2]) /\ env[body[q]] = Full(body[q][2])
  BY <1>1, <1>3 DEF EnvOK
<1>6. body[q][2] = body[p][2]
  BY <1>4
<1> QED BY <1>4, <1>5, <1>6

(***************************************************************************)
(* When the function ends every nest of tile loops has computed what the   *)
(* matmul it stands in front of has, for all extents, tile sizes and       *)
(* chains of matmuls: each product is added once and in order in tiles     *)
(* that do not fit, and no nest reads a result that is not there yet.      *)
(***************************************************************************)
THEOREM NestsAreMatmuls == Spec => []NestsComputeMatmul
  BY InitInv, NextInv, InvComputes, PTL DEF Spec

-----------------------------------------------------------------------------
(***************************************************************************)
(* Constant folding, of a function of the pass's choice.                   *)
(***************************************************************************)
CONSTANTS NaN, Positions, FoldedFunctions
VARIABLES function, ops, folding

Folds == INSTANCE ConstantFolds WITH
           Programs <- FoldedFunctions, source <- function, phase <- folding

\* An op is what the source has, or a constant of its size, or was a batch norm;
\* and the pass ends when there is nothing left to fold.
FoldInv ==
  /\ function \in FoldedFunctions
  /\ DOMAIN ops = DOMAIN function.ops
  /\ \A v \in DOMAIN ops :
       \/ ops[v] = function.ops[v]
       \/ /\ ops[v].kind = "constant" /\ ops[v].elem = "f32"
          /\ ops[v].size = function.ops[v].size
       \/ function.ops[v].kind = "batch_norm"
  /\ folding = "done" => Folds!Work = {}

\* The source itself.
LEMMA InitFoldInv == Folds!Init => FoldInv
  BY DEF Folds!Init, FoldInv

\* A folded constant, splat or list.
LEMMA DenseIs ==
  ASSUME NEW n \in Nat, NEW elems, elems = [i \in 1..n |-> elems[i]]
  PROVE  LET d == Folds!Dense("f32", elems)
         IN  d.kind = "constant" /\ d.elem = "f32" /\ d.size = n
<1>1. elems \in Seq({elems[i] : i \in 1..n})
  OBVIOUS
<1>2. Len(elems) = n
  BY <1>1
<1> QED BY <1>2 DEF Folds!Dense

\* An op that is folded had the kind of a foldable op in the source, and its size.
LEMMA FoldsOne ==
  ASSUME \A p \in FoldedFunctions : Folds!Verified(p), FoldInv,
         NEW v \in DOMAIN ops, ops[v].kind \in {"generic", "add", "multiply"},
         folding' = folding, function' = function, folding = "fold",
         NEW elems, elems = [i \in 1..ops[v].size |-> elems[i]],
         ops' = [ops EXCEPT ![v] = Folds!Dense("f32", elems)]
  PROVE  FoldInv'
<1> DEFINE d == Folds!Dense("f32", elems)
<1>1. function.ops[v].kind # "batch_norm" =>
        d.kind = "constant" /\ d.elem = "f32" /\ d.size = function.ops[v].size
  <2> SUFFICES ASSUME function.ops[v].kind # "batch_norm"
               PROVE  d.kind = "constant" /\ d.elem = "f32" /\ d.size = function.ops[v].size
    OBVIOUS
  <2>1. ops[v] = function.ops[v]
    BY DEF FoldInv
  <2>2. Folds!Verified(function) /\ v \in DOMAIN function.ops
    BY DEF FoldInv
  <2>3. ops[v].size \in Nat /\ ops[v].size = function.ops[v].size
    BY <2>1, <2>2 DEF Folds!Verified
  <2> QED BY <2>3, DenseIs
<1> HIDE DEF d
<1>2. DOMAIN ops' = DOMAIN ops /\ ops'[v] = d
      /\ \A u \in DOMAIN ops : u # v => ops'[u] = ops[u]
  BY DEF d
<1> QED BY <1>1, <1>2 DEF FoldInv

\* What is left to fold depends on the ops alone.
LEMMA SameWork == UNCHANGED <<function, ops>> => Folds!Work' = Folds!Work
<1> SUFFICES ASSUME UNCHANGED <<function, ops>> PROVE Folds!Work' = Folds!Work
  OBVIOUS
<1>1. Folds!Generics' = Folds!Generics
  BY DEF Folds!Generics, Folds!Kind
<1>2. Folds!FoldableGenerics' = Folds!FoldableGenerics
  BY <1>1 DEF Folds!FoldableGenerics, Folds!Unreadable
<1>3. Folds!ConstantPairs' = Folds!ConstantPairs
  BY DEF Folds!ConstantPairs, Folds!Kind
<1>6. Folds!FpConstants' = Folds!FpConstants
  BY DEF Folds!FpConstants, Folds!Kind
<1>7. Folds!Normed' = Folds!Normed
  BY <1>6 DEF Folds!Normed, Folds!Kind
<1>8. \A v : Folds!NotFloat(v)' <=> Folds!NotFloat(v)
  BY <1>6 DEF Folds!NotFloat
<1>4. Folds!ConvBNs' = Folds!ConvBNs
  BY <1>6, <1>7, <1>8 DEF Folds!ConvBNs
<1>9. {v \in Folds!Normed : Folds!NotFloat(v)}' = {v \in Folds!Normed : Folds!NotFloat(v)}
  BY <1>7, <1>8
<1>5. {v \in Folds!Generics : Folds!Unreadable(v)}' = {v \in Folds!Generics : Folds!Unreadable(v)}
  BY <1>1 DEF Folds!Unreadable
<1> QED BY <1>2, <1>3, <1>4, <1>5, <1>9 DEF Folds!Work

\* Only computable ops, and batch norms, are replaced.
LEMMA NextFoldInv ==
  ASSUME \A p \in FoldedFunctions : Folds!Verified(p), FoldInv, [Folds!Next]_(Folds!vars)
  PROVE  FoldInv'
<1>1. CASE Folds!FoldConstantElementwiseGeneric
  <2>1. PICK v \in Folds!FoldableGenerics :
          ops' = [ops EXCEPT ![v] = Folds!Dense("f32",
                   [n \in 1..ops[v].size |->
                      Folds!Computed(ops[v].compute, Folds!At(ops[ops[v].ins[1]], n),
                                     Folds!At(ops[ops[v].ins[2]], n))])]
    BY <1>1 DEF Folds!FoldConstantElementwiseGeneric
  <2>2. v \in DOMAIN ops /\ ops[v].kind = "generic"
    BY DEF Folds!FoldableGenerics, Folds!Generics, Folds!Kind
  <2>3. folding' = folding /\ function' = function /\ folding = "fold"
    BY <1>1 DEF Folds!FoldConstantElementwiseGeneric
  <2> DEFINE elems == [n \in 1..ops[v].size |-> Folds!Computed(ops[v].compute, Folds!At(ops[ops[v].ins[1]], n),
                                        Folds!At(ops[ops[v].ins[2]], n))]
  <2>4. /\ elems = [n \in 1..ops[v].size |-> elems[n]]
        /\ ops' = [ops EXCEPT ![v] = Folds!Dense("f32", elems)]
    BY <2>1
  <2> HIDE DEF elems
  <2> QED BY <2>2, <2>3, <2>4, FoldsOne
<1>2. CASE Folds!foldBinaryConstants
  <2>1. PICK v \in Folds!ConstantPairs :
          ops' = [ops EXCEPT ![v] = Folds!Dense("f32",
                   [n \in 1..ops[v].size |->
                      Folds!Apply(ops[v].kind, Folds!At(ops[ops[v].ins[1]], n),
                                  Folds!At(ops[ops[v].ins[2]], n))])]
    BY <1>2 DEF Folds!foldBinaryConstants, Folds!Kind
  <2>2. v \in DOMAIN ops /\ ops[v].kind \in {"add", "multiply"}
    BY DEF Folds!ConstantPairs, Folds!Kind
  <2>3. folding' = folding /\ function' = function /\ folding = "fold"
    BY <1>2 DEF Folds!foldBinaryConstants
  <2> DEFINE elems == [n \in 1..ops[v].size |-> Folds!Apply(ops[v].kind, Folds!At(ops[ops[v].ins[1]], n),
                                     Folds!At(ops[ops[v].ins[2]], n))]
  <2>4. /\ elems = [n \in 1..ops[v].size |-> elems[n]]
        /\ ops' = [ops EXCEPT ![v] = Folds!Dense("f32", elems)]
    BY <2>1
  <2> HIDE DEF elems
  <2> QED BY <2>2, <2>3, <2>4, FoldsOne
<1>3. CASE Folds!ConvBNFusion
  <2>1. PICK v \in Folds!ConvBNs : \E d : ops' = [ops EXCEPT ![v] = d]
    BY <1>3 DEF Folds!ConvBNFusion
  <2>2. v \in DOMAIN ops /\ ops[v].kind = "batch_norm"
    BY DEF Folds!ConvBNs, Folds!Normed, Folds!Kind
  <2>3. function.ops[v].kind = "batch_norm"
    BY <2>2 DEF FoldInv
  <2>4. folding' = folding /\ function' = function /\ folding = "fold"
    BY <1>3 DEF Folds!ConvBNFusion
  <2>5. DOMAIN ops' = DOMAIN ops /\ \A u \in DOMAIN ops : u # v => ops'[u] = ops[u]
    BY <2>1
  <2> QED BY <2>3, <2>4, <2>5 DEF FoldInv
<1>4. CASE Folds!AssertElementType
  BY <1>4 DEF Folds!AssertElementType, FoldInv
<1>7. CASE Folds!AssertFloat
  BY <1>7 DEF Folds!AssertFloat, FoldInv
<1>5. CASE Folds!EndPass
  <2>1. UNCHANGED <<function, ops>> /\ Folds!Work = {}
    BY <1>5 DEF Folds!EndPass
  <2> QED BY <2>1, SameWork DEF FoldInv
<1>6. CASE UNCHANGED Folds!vars
  <2>1. UNCHANGED <<function, ops, folding>>
    BY <1>6 DEF Folds!vars
  <2> QED BY <2>1, SameWork DEF FoldInv
<1> QED BY <1>1, <1>2, <1>3, <1>4, <1>5, <1>6, <1>7 DEF Folds!Next

\* known is what its definition says: the greatest set of values each of which
\* follows from others in it solves the equation.
LEMMA KnownUnfolds ==
  ASSUME Folds!Verified(function), NEW v \in Folds!Known
  PROVE  /\ v \in DOMAIN function.ops
         /\ Folds!Computable(function.ops[v])
         /\ \A n \in DOMAIN Folds!Inputs(function.ops[v]) :
              Folds!Inputs(function.ops[v])[n] \in Folds!Known
<1> DEFINE D == DOMAIN function.ops
           In(u) == Folds!Inputs(function.ops[u])
           Can(u) == Folds!Computable(function.ops[u])
           Body(S) == {u \in D : Can(u) /\ \A n \in DOMAIN In(u) : In(u)[n] \in S}
           L == UNION {S \in SUBSET D : S \subseteq Body(S)}
<1>1. \A u \in D : Can(u) => \A n \in DOMAIN In(u) : In(u)[n] \in D
  <2> SUFFICES ASSUME NEW u \in D, Can(u), NEW n \in DOMAIN In(u) PROVE In(u)[n] \in D
    OBVIOUS
  <2>1. function.ops[u].kind # "constant" /\ In(u) = function.ops[u].ins
    BY DEF Folds!Inputs
  <2>2. function.ops[u].kind # "arg"
    BY <2>1 DEF Folds!Computable
  <2>3. function.ops[u].ins \in Seq(1..(u - 1))
    BY <2>1, <2>2 DEF Folds!Verified
  <2>4. D = 1..Len(function.ops) /\ Len(function.ops) \in Nat
    BY DEF Folds!Verified
  <2> QED BY <2>1, <2>3, <2>4, SMTT(30)
<1> HIDE DEF D, In, Can
<1>2. \A S, U \in SUBSET D : S \subseteq U => Body(S) \subseteq Body(U)
  OBVIOUS
<1>3. L \in SUBSET D /\ L \subseteq Body(L)
  OBVIOUS
<1>4. Body(L) \subseteq L
  <2>1. Body(L) \in SUBSET D /\ Body(L) \subseteq Body(Body(L))
    BY <1>2, <1>3
  <2> QED BY <2>1
<1> DEFINE f == [u \in D |-> u \in L]
<1>5. ASSUME NEW u \in D PROVE f[u] = (Can(u) /\ \A n \in DOMAIN In(u) : f[In(u)[n]])
  <2>1. Can(u) => \A n \in DOMAIN In(u) : f[In(u)[n]] <=> In(u)[n] \in L
    BY <1>1
  <2>2. u \in L <=> u \in Body(L)
    BY <1>3, <1>4
  <2>3. f[u] = (u \in L)
    OBVIOUS
  <2> HIDE DEF f, L
  <2> QED BY <2>1, <2>2, <2>3
<1>6. f = [u \in D |-> Can(u) /\ \A n \in DOMAIN In(u) : f[In(u)[n]]]
  <2>1. f = [u \in D |-> f[u]]
    OBVIOUS
  <2> HIDE DEF f
  <2> QED BY <1>5, <2>1, Zenon
<1> HIDE DEF f
<1>7. Folds!known = [u \in D |-> Can(u) /\ \A n \in DOMAIN In(u) : Folds!known[In(u)[n]]]
  BY <1>6, Zenon DEF Folds!known, D, In, Can
<1>8. v \in D /\ Folds!known[v]
  BY DEF Folds!Known, D
<1>9. Folds!known[v] = (Can(v) /\ \A n \in DOMAIN In(v) : Folds!known[In(v)[n]])
  BY <1>7, <1>8, Zenon
<1>10. Can(v) /\ \A n \in DOMAIN In(v) : Folds!known[In(v)[n]]
  BY <1>8, <1>9, Zenon
<1> QED BY <1>1, <1>8, <1>10 DEF Folds!Known, D, In, Can

\* When nothing is left to fold, an op whose inputs are constants is not one the
\* pass can compute.
LEMMA KnownIsConstant ==
  ASSUME Folds!Verified(function), FoldInv, Folds!Work = {},
         NEW v \in Folds!Known,
         \A n \in DOMAIN Folds!Inputs(function.ops[v]) :
           ops[Folds!Inputs(function.ops[v])[n]].kind = "constant"
  PROVE  ops[v].kind = "constant"
<1> DEFINE op == function.ops[v]
<1> SUFFICES ASSUME ops[v].kind # "constant" PROVE FALSE
  OBVIOUS
<1>1. /\ v \in DOMAIN ops /\ Folds!Computable(op)
      /\ \A n \in DOMAIN Folds!Inputs(op) : Folds!Inputs(op)[n] \in Folds!Known
  BY KnownUnfolds DEF FoldInv
<1>2. op.kind \in {"constant", "add", "multiply", "generic"}
  BY <1>1 DEF Folds!Computable
<1>3. ops[v] = op
  BY <1>1, <1>2 DEF FoldInv
<1>4. /\ op.kind \in {"add", "multiply", "generic"} /\ Folds!Inputs(op) = op.ins
      /\ op.ins \in Seq(1..(v - 1))
      /\ op.kind \in {"add", "multiply"} => Len(op.ins) = 2
      /\ op.kind = "generic" => Len(op.ins) = 2
  BY <1>1, <1>2, <1>3 DEF Folds!Inputs, Folds!Verified, FoldInv, Folds!Computable,
       Folds!IsElementwise
<1>5. DOMAIN op.ins = 1..2
  BY <1>4
<1>6. \A n \in 1..2 : /\ op.ins[n] \in Folds!Known /\ op.ins[n] \in DOMAIN ops
                      /\ ops[op.ins[n]].kind = "constant"
  BY <1>1, <1>4, <1>5, KnownUnfolds DEF FoldInv, Folds!Known
<1>7. \A n \in 1..2 : /\ ops[op.ins[n]].elem = "f32"
                      /\ ops[op.ins[n]].size = function.ops[op.ins[n]].size
  <2> SUFFICES ASSUME NEW n \in 1..2
               PROVE  /\ ops[op.ins[n]].elem = "f32"
                      /\ ops[op.ins[n]].size = function.ops[op.ins[n]].size
    OBVIOUS
  <2>1. Folds!Computable(function.ops[op.ins[n]])
    BY <1>6, KnownUnfolds
  <2>2. function.ops[op.ins[n]].kind \in {"constant", "add", "multiply", "generic"}
    BY <2>1 DEF Folds!Computable
  <2>3. ops[op.ins[n]] = function.ops[op.ins[n]] => ops[op.ins[n]].elem = "f32"
    BY <1>6, <2>1 DEF Folds!Computable
  <2> QED BY <1>6, <2>2, <2>3 DEF FoldInv
<1>8. CASE op.kind = "generic"
  <2>1. function.pass = "custom-linalg-opt" /\ Folds!IsElementwise(op) /\ op.compute # "other"
    BY <1>1, <1>8 DEF Folds!Computable
  <2>2. v \in Folds!Generics
    BY <1>1, <1>3, <1>6, <1>8, <2>1 DEF Folds!Generics, Folds!Kind
  <2>3. Folds!Supported(op)
    BY <1>1, <1>8, <2>1 DEF Folds!Supported, Folds!Verified, FoldInv
  <2>4. v \in Folds!FoldableGenerics \cup {u \in Folds!Generics : Folds!Unreadable(u)}
    BY <1>3, <2>2, <2>3 DEF Folds!FoldableGenerics
  <2>5. Folds!Work = Folds!FoldableGenerics \cup {u \in Folds!Generics : Folds!Unreadable(u)}
    BY <2>1 DEF Folds!Work
  <2> QED BY <2>4, <2>5
<1>9. CASE op.kind \in {"add", "multiply"}
  <2>1. function.pass = "stablehlo-constant-fold" /\ op.elem = "f32"
    BY <1>1, <1>9 DEF Folds!Computable
  <2>2. \A n \in 1..2 : function.ops[op.ins[n]].size = op.size
    BY <1>1, <1>9 DEF Folds!Verified, FoldInv
  <2>3. v \in Folds!ConstantPairs
    <3>1. /\ v \in DOMAIN ops /\ ops[v].kind \in {"add", "multiply"}
          /\ ops[v].elem = "f32"
      BY <1>1, <1>3, <1>9, <2>1
    <3>2. ASSUME NEW n \in 1..2
          PROVE  /\ ops[ops[v].ins[n]].kind = "constant"
                 /\ ops[ops[v].ins[n]].elem = "f32"
                 /\ ops[ops[v].ins[n]].size = ops[v].size
      <4>1. /\ ops[op.ins[n]].kind = "constant" /\ ops[op.ins[n]].elem = "f32"
            /\ ops[op.ins[n]].size = op.size
        BY <1>6, <1>7, <2>2, <3>2
      <4> HIDE DEF op
      <4> QED BY <1>3, <4>1
    <3> HIDE DEF op
    <3> QED BY <3>1, <3>2 DEF Folds!ConstantPairs, Folds!Kind
  <2>4. Folds!Work = Folds!ConstantPairs
    BY <2>1 DEF Folds!Work
  <2> QED BY <2>3, <2>4
<1> QED BY <1>4, <1>8, <1>9

\* The first value that follows from constants and is none would be folded.
LEMMA FoldInvFolds ==
  ASSUME \A p \in FoldedFunctions : Folds!Verified(p), FoldInv
  PROVE  Folds!ChainsAreFolded
<1> DEFINE Odd == {v \in Folds!Known : ops[v].kind # "constant"}
<1> SUFFICES ASSUME folding = "done" PROVE Odd = {}
  BY DEF Folds!ChainsAreFolded, Folds!Kind
<1> SUFFICES ASSUME Odd # {} PROVE FALSE
  OBVIOUS
<1>1. Folds!Verified(function) /\ Folds!Work = {}
  BY DEF FoldInv
<1>2. Odd \subseteq Nat
  <2>1. DOMAIN function.ops \subseteq Nat
    BY <1>1 DEF Folds!Verified
  <2> QED BY <2>1 DEF Folds!Known
<1> DEFINE R == OpToRel(<, Nat)
<1>3. IsWellFoundedOn(R, Nat)
  BY NatLessThanWellFounded, Zenon
<1>4. \A x, y \in Nat : x < y => <<x, y>> \in R
  BY Zenon DEF OpToRel
<1> HIDE DEF R, Odd
<1>5. PICK v \in Odd : \A u \in Odd : ~(<<u, v>> \in R)
  BY <1>2, <1>3, WFMin, Zenon
<1>6. v \in Folds!Known /\ ops[v].kind # "constant"
  BY DEF Odd
<1>7. ASSUME NEW n \in DOMAIN Folds!Inputs(function.ops[v])
      PROVE  ops[Folds!Inputs(function.ops[v])[n]].kind = "constant"
  <2> DEFINE u == Folds!Inputs(function.ops[v])[n]
  <2>1. u \in Folds!Known /\ v \in DOMAIN function.ops
    BY <1>1, <1>6, <1>7, KnownUnfolds
  <2>2. function.ops[v].kind \notin {"constant", "arg"}
    BY <1>1, <1>6, <1>7, KnownUnfolds DEF Folds!Computable, Folds!Inputs
  <2>3. function.ops[v].ins \in Seq(1..(v - 1))
    BY <1>1, <2>1, <2>2 DEF Folds!Verified
  <2>6. Folds!Inputs(function.ops[v]) = function.ops[v].ins
    BY <2>2 DEF Folds!Inputs
  <2>7. v \in Nat /\ u \in 1..(v - 1)
    BY <1>2, <1>5, <1>7, <2>3, <2>6
  <2>4. u \in Nat /\ u < v
    BY <2>7
  <2>5. u \notin Odd
    BY <1>4, <1>5, <2>4, <2>7
  <2> HIDE DEF u
  <2>8. ops[u].kind = "constant"
    BY <2>1, <2>5 DEF Odd
  <2> QED BY <2>8 DEF u
<1> QED BY <1>1, <1>6, <1>7, KnownIsConstant

(***************************************************************************)
(* For functions of every length: when a folding pass ends, every value    *)
(* that follows from f32 constants by ops the pass computes is a constant, *)
(* through any chain of constants the pass has made itself.                *)
(***************************************************************************)
THEOREM ChainsFoldToTheirEnd ==
  ASSUME \A p \in FoldedFunctions : Folds!Verified(p)
  PROVE  Folds!Spec => []Folds!ChainsAreFolded
<1>1. FoldInv /\ [Folds!Next]_(Folds!vars) => FoldInv'
  BY NextFoldInv
<1>2. FoldInv => Folds!ChainsAreFolded
  BY FoldInvFolds
<1> QED BY <1>1, <1>2, InitFoldInv, PTL DEF Folds!Spec
=============================================================================
