-------------------------- MODULE FusionStageProofs --------------------------
(***************************************************************************)
(* For every verified program: no rewrite of the fusion stage leaves a use *)
(* of an op that is gone, and the marks for softmax and flash attention    *)
(* stay on the subgraphs they name. Every rewrite replaces one op: what is *)
(* inductive is shown once for any replacement of a kind, and each pattern *)
(* is shown to be of it.                                                   *)
(***************************************************************************)
EXTENDS FusionStage, WellFoundedInduction, FiniteSetTheorems, TLAPS

ArgsOf(g, v) == {g[v].args[i] : i \in DOMAIN g[v].args}

\* Every node is a whole record with the operands its op takes.
NodesOK(g) ==
  \A v \in DOMAIN g :
    /\ g[v] = Node(g[v].op, g[v].args, g[v].attr, g[v].shape, g[v].marks)
    /\ Arity(g[v])

Closed(g, r) ==
  /\ \A v \in DOMAIN g : g[v].args \in Seq(DOMAIN g)
  /\ r \in Seq(DOMAIN g)

\* Numbers are bounded: there is always a fresh one.
Numbered(g) == DOMAIN g \subseteq Nat \ {0} /\ \E n \in Nat : \A v \in DOMAIN g : v <= n

\* An order in which operands come before their uses.
Ranks(g) ==
  {rank \in [DOMAIN g -> Nat] :
     \A v \in DOMAIN g : \A u \in ArgsOf(g, v) : rank[u] < rank[v]}

Softmax == "softmax_canonicalized"
Attends == "scaled_dot_product_attention"
Flash == "flash_tile"

Kept == {Softmax, Attends, Flash}

(***************************************************************************)
(* The denominator of a marked softmax is a broadcast, never to the shape  *)
(* it has already, of a reduction of the numerator.                        *)
(***************************************************************************)
SoftmaxOK(g) ==
  \A d \in DOMAIN g : Softmax \in g[d].marks =>
    /\ g[d].op = "divide"
    /\ LET b == g[d].args[2]
           s == g[b].args[1]
       IN  /\ g[b].op = "broadcast" /\ g[s].op = "reduce"
           /\ g[s].args[1] = g[d].args[1]
           /\ g[s].shape # g[b].shape

AttentionOK(g) ==
  \A v \in DOMAIN g :
    /\ Flash \in g[v].marks => Attends \in g[v].marks
    /\ Attends \in g[v].marks =>
         /\ g[v].op = "dot_general"
         /\ g[g[v].args[1]].op = "divide" /\ Softmax \in g[g[v].args[1]].marks
         /\ \E s \in DOMAIN g : g[s].op = "dot_general" /\ s < v

GraphOK(g, r) ==
  /\ NodesOK(g) /\ Closed(g, r) /\ Numbered(g) /\ Ranks(g) # {}
  /\ ShapesFit(g) /\ SoftmaxOK(g) /\ AttentionOK(g)

\* No op has one of the marks that the stage keeps true.
Early(g) == \A v \in DOMAIN g : g[v].marks \cap Kept = {}

(***************************************************************************)
(* A set of ops each of which is returned or used by an op of the set. The *)
(* greedy driver never erases one.                                         *)
(***************************************************************************)
Supported(g, r, L) ==
  /\ L \subseteq DOMAIN g
  /\ \A v \in L : (\E i \in DOMAIN r : r[i] = v) \/ \E u \in L : v \in ArgsOf(g, u)

Dots(g) == {v \in DOMAIN g : g[v].op = "dot_general"}

DotsLive(g, r) == \E L : Supported(g, r, L) /\ Dots(g) \subseteq L

\* What the divide d divides by, under the broadcast.
Total(g, d) == g[g[d].args[2]].args[1]

\* No edit from g to h gives a marked divide another denominator.
SameTotals(g, h) ==
  \A d \in DOMAIN h : Softmax \in h[d].marks =>
    /\ d \in DOMAIN g /\ Softmax \in g[d].marks
    /\ Total(h, d) = Total(g, d) /\ h[Total(g, d)].attr = g[Total(g, d)].attr

\* What an edit from the graph g to the graph h preserves.
Keeps(g, r, h, t) ==
  /\ GraphOK(h, t) /\ SameTotals(g, h)
  /\ Early(g) => Early(h)
  /\ DotsLive(g, r) => DotsLive(h, t)

-----------------------------------------------------------------------------
\* The operands of an op and what they rest on.
Below(g, v) == {u \in DOMAIN g : \A rank \in Ranks(g) : rank[u] < rank[v]}

LEMMA ElementOfSequence ==
  ASSUME NEW T, NEW s \in Seq(T), NEW i \in DOMAIN s
  PROVE  s[i] \in T /\ i \in 1..Len(s) /\ Len(s) \in Nat
OBVIOUS

LEMMA ArgBelow ==
  ASSUME NEW g, NEW r, GraphOK(g, r), NEW v \in DOMAIN g, NEW i \in DOMAIN g[v].args
  PROVE  g[v].args[i] \in Below(g, v) /\ g[v].args[i] \in DOMAIN g
<1>1. g[v].args[i] \in ArgsOf(g, v)
  BY DEF ArgsOf
<1>2. g[v].args[i] \in DOMAIN g
  BY ElementOfSequence DEF GraphOK, Closed
<1> QED BY <1>1, <1>2 DEF Below, Ranks

LEMMA BelowTransitive ==
  ASSUME NEW g, NEW r, GraphOK(g, r), NEW v \in DOMAIN g,
         NEW u \in Below(g, v), NEW w \in Below(g, u)
  PROVE  w \in Below(g, v)
<1> SUFFICES ASSUME NEW rank \in Ranks(g) PROVE rank[w] < rank[v]
  BY DEF Below
<1>1. rank[w] < rank[u] /\ rank[u] < rank[v]
  BY DEF Below
<1>2. rank[w] \in Nat /\ rank[u] \in Nat /\ rank[v] \in Nat
  BY DEF Below, Ranks
<1> QED BY <1>1, <1>2

LEMMA NotBelowItself ==
  ASSUME NEW g, NEW r, GraphOK(g, r), NEW v \in DOMAIN g, NEW u \in Below(g, v)
  PROVE  u # v /\ u \in DOMAIN g /\ v \notin Below(g, u)
<1>1. PICK rank \in Ranks(g) : TRUE
  BY DEF GraphOK
<1>2. rank[u] < rank[v] /\ rank[u] \in Nat /\ rank[v] \in Nat
  BY <1>1 DEF Below, Ranks
<1>3. v \in Below(g, u) => rank[v] < rank[u]
  BY <1>1 DEF Below
<1> QED BY <1>2, <1>3 DEF Below

\* q is s with new in the place of old.
Renamed(q, s, S, old, new) ==
  /\ q \in Seq((S \ {old}) \cup {new})
  /\ Len(q) = Len(s) /\ DOMAIN q = DOMAIN s
  /\ \A i \in DOMAIN s : q[i] = IF s[i] = old THEN new ELSE s[i]
  /\ s = <<>> => q = <<>>

LEMMA RenameProperties ==
  ASSUME NEW S, NEW s \in Seq(S), NEW old, NEW new
  PROVE  Renamed(Rename(s, old, new), s, S, old, new)
<1> DEFINE q == Rename(s, old, new)
<1>1. q = [i \in 1..Len(s) |-> IF s[i] = old THEN new ELSE s[i]] /\ Len(s) \in Nat
      /\ DOMAIN s = 1..Len(s)
  BY DEF Rename
<1>2. \A i \in 1..Len(s) : (IF s[i] = old THEN new ELSE s[i]) \in (S \ {old}) \cup {new}
  BY ElementOfSequence
<1>3. q \in Seq((S \ {old}) \cup {new}) /\ Len(q) = Len(s) /\ DOMAIN q = DOMAIN s
  BY <1>1, <1>2
<1>4. s = <<>> => q = <<>>
  <2> HIDE DEF q
  <2> QED BY <1>3
<1>5. \A i \in DOMAIN s : q[i] = IF s[i] = old THEN new ELSE s[i]
  BY DEF Rename
<1> QED BY <1>3, <1>4, <1>5 DEF Renamed

\* A nonempty bounded set of numbers has a greatest.
LEMMA Greatest ==
  ASSUME NEW S, S \subseteq Nat, S # {}, NEW n \in Nat, \A v \in S : v <= n
  PROVE  \E m \in S : \A v \in S : v <= m
<1> DEFINE R == OpToRel(<, Nat)
           T == {k \in Nat : \E v \in S : v + k = n}
<1>1. IsWellFoundedOn(R, Nat)
  BY NatLessThanWellFounded, Zenon
<1>2. \A x, y \in Nat : x < y => <<x, y>> \in R
  BY Zenon DEF OpToRel
<1> HIDE DEF R
<1>3. T \subseteq Nat /\ T # {}
  <2>1. PICK v \in S : TRUE
    OBVIOUS
  <2>2. n - v \in Nat /\ v + (n - v) = n
    BY <2>1
  <2> QED BY <2>1, <2>2
<1> HIDE DEF T
<1>4. PICK k \in T : \A j \in T : ~(<<j, k>> \in R)
  BY <1>1, <1>3, WFMin, Zenon
<1>5. PICK m \in S : m + k = n
  BY <1>4 DEF T
<1>6. ASSUME NEW v \in S, ~(v <= m) PROVE FALSE
  <2>1. n - v \in Nat /\ v + (n - v) = n /\ k \in Nat /\ m \in Nat /\ v \in Nat
    BY <1>3, <1>4
  <2>2. n - v \in T /\ n - v < k
    BY <1>5, <1>6, <2>1 DEF T
  <2> QED BY <1>2, <1>4, <2>1, <2>2
<1> QED BY <1>6

-----------------------------------------------------------------------------
(***************************************************************************)
(* A rewrite: created are the ops numbered from top + 1, and new, the last *)
(* of them or an op that was there, takes the place of old.                *)
(***************************************************************************)
Fixed == {"divide", "reduce", "dot_general"}

Edited(g, r, h, t, old, new, created, top) ==
  /\ DOMAIN h = (DOMAIN g \ {old}) \cup {top + i : i \in 1..Len(created)}
  /\ \A v \in DOMAIN g \ {old} :
       h[v] = Node(g[v].op, Rename(g[v].args, old, new), g[v].attr, g[v].shape,
                   g[v].marks)
  /\ \A i \in 1..Len(created) : h[top + i] = created[i]
  /\ t = Rename(r, old, new)

\* The i-th op created rests on what old rests on and on those before it.
Creatable(g, old, top, i, n) ==
  /\ n = Node(n.op, n.args, n.attr, n.shape, n.marks)
  /\ Arity(n) /\ n.op \notin Fixed /\ n.marks \cap Kept = {}
  /\ n.args \in Seq(Below(g, old) \cup (top + 1)..(top + i - 1))

\* n may stand for the op o.
StandsFor(n, o) == n.shape = o.shape /\ (n.op = "broadcast" => o.op = "broadcast")

\* A broadcast that a rewrite replaces is not a softmax's denominator.
NoDenominator(g, old) ==
  g[old].op = "broadcast" =>
    \/ g[g[old].args[1]].op # "reduce"
    \/ g[g[old].args[1]].shape = g[old].shape

Replacement(g, old, new, created, top) ==
  /\ old \in DOMAIN g /\ g[old].op \notin Fixed /\ NoDenominator(g, old)
  /\ top \in Nat /\ \A v \in DOMAIN g : v <= top
  /\ Len(created) \in 0..5
  /\ \A i \in 1..Len(created) : Creatable(g, old, top, i, created[i])
  /\ IF Len(created) = 0
     THEN new \in Below(g, old) /\ StandsFor(g[new], g[old])
     ELSE /\ new = top + Len(created)
          /\ StandsFor(created[Len(created)], g[old])

\* A replacement of the op in the graph g to the graph h.
Replaces(g, r, h, t, old, new, created, top) ==
  /\ GraphOK(g, r)
  /\ Replacement(g, old, new, created, top)
  /\ Edited(g, r, h, t, old, new, created, top)

\* Every op of h is one of g with its operands renamed, or a new one.
LEMMA EditedOps ==
  ASSUME NEW g, NEW r, NEW h, NEW t, NEW old, NEW new, NEW created, NEW top,
         Replaces(g, r, h, t, old, new, created, top)
  PROVE  /\ \A v \in DOMAIN h : \/ v \in DOMAIN g \ {old}
                                \/ \E i \in 1..Len(created) : v = top + i
         /\ \A i \in 1..Len(created) : top + i \in DOMAIN h /\ top + i \notin DOMAIN g
         /\ \A v \in DOMAIN g \ {old} : v \in DOMAIN h
  BY DEF Replaces, Edited, Replacement, GraphOK, Numbered

SameOp(n, m) ==
  /\ n = Node(n.op, n.args, n.attr, n.shape, n.marks)
  /\ n.op = m.op /\ n.attr = m.attr /\ n.shape = m.shape /\ n.marks = m.marks

LEMMA OldOp ==
  ASSUME NEW g, NEW r, NEW h, NEW t, NEW old, NEW new, NEW created, NEW top,
         Replaces(g, r, h, t, old, new, created, top),
         NEW v \in DOMAIN g \ {old}
  PROVE  /\ v \in DOMAIN h
         /\ SameOp(h[v], g[v])
         /\ Renamed(h[v].args, g[v].args, DOMAIN g, old, new)
<1> DEFINE args == Rename(g[v].args, old, new)
<1>1. g[v].args \in Seq(DOMAIN g)
  BY DEF Replaces, GraphOK, Closed
<1>2. h[v] = Node(g[v].op, args, g[v].attr, g[v].shape, g[v].marks)
  BY DEF Replaces, Edited
<1>3. Renamed(args, g[v].args, DOMAIN g, old, new)
  BY <1>1, RenameProperties
<1> HIDE DEF args
<1>4. /\ h[v].op = g[v].op /\ h[v].args = args /\ h[v].attr = g[v].attr
      /\ h[v].shape = g[v].shape /\ h[v].marks = g[v].marks
  BY <1>2 DEF Node
<1>5. v \in DOMAIN h
  BY EditedOps
<1> QED BY <1>2, <1>3, <1>4, <1>5 DEF SameOp

LEMMA NewOp ==
  ASSUME NEW g, NEW r, NEW h, NEW t, NEW old, NEW new, NEW created, NEW top,
         Replaces(g, r, h, t, old, new, created, top)
  PROVE  /\ new \in DOMAIN h /\ new # old
         /\ h[new].shape = g[old].shape
         /\ h[new].op = "broadcast" => g[old].op = "broadcast"
<1>1. CASE Len(created) = 0
  <2>1. new \in Below(g, old) /\ StandsFor(g[new], g[old]) /\ GraphOK(g, r)
        /\ old \in DOMAIN g
    BY <1>1 DEF Replaces, Replacement
  <2>2. new \in DOMAIN g \ {old}
    BY <2>1, NotBelowItself
  <2>3. h[new].op = g[new].op /\ h[new].shape = g[new].shape /\ new \in DOMAIN h
    BY <2>2, OldOp DEF SameOp
  <2> QED BY <2>1, <2>2, <2>3 DEF StandsFor
<1>2. CASE Len(created) # 0
  <2>1. /\ new = top + Len(created) /\ Len(created) \in 1..Len(created)
        /\ StandsFor(created[Len(created)], g[old])
        /\ h[new] = created[Len(created)] /\ old \in DOMAIN g
    BY <1>2 DEF Replaces, Replacement, Edited
  <2> QED BY <2>1, EditedOps DEF StandsFor
<1> QED BY <1>1, <1>2

\* The ops created use ops that are still there, in their order.
LEMMA CreatedOp ==
  ASSUME NEW g, NEW r, NEW h, NEW t, NEW old, NEW new, NEW created, NEW top,
         Replaces(g, r, h, t, old, new, created, top),
         NEW i \in 1..Len(created)
  PROVE  /\ h[top + i] = created[i] /\ top + i \in DOMAIN h
         /\ Creatable(g, old, top, i, created[i])
         /\ \A j \in DOMAIN created[i].args :
              \/ created[i].args[j] \in Below(g, old)
              \/ \E k \in 1..(i - 1) : created[i].args[j] = top + k
         /\ created[i].args \in Seq(DOMAIN h)
<1>1. h[top + i] = created[i] /\ top + i \in DOMAIN h
      /\ Creatable(g, old, top, i, created[i])
  BY EditedOps DEF Replaces, Edited, Replacement
<1>2. created[i].args \in Seq(Below(g, old) \cup (top + 1)..(top + i - 1))
  BY <1>1 DEF Creatable
<1>3. top \in Nat /\ Len(created) \in Nat /\ i \in Nat
  BY DEF Replaces, Replacement
<1>4. ASSUME NEW a \in (top + 1)..(top + i - 1)
      PROVE  \E k \in 1..(i - 1) : a = top + k
  <2>1. a - top \in 1..(i - 1) /\ a = top + (a - top)
    BY <1>3
  <2> QED BY <2>1
<1>5. ASSUME NEW j \in DOMAIN created[i].args
      PROVE  \/ created[i].args[j] \in Below(g, old)
             \/ \E k \in 1..(i - 1) : created[i].args[j] = top + k
  <2>1. created[i].args[j] \in Below(g, old) \cup (top + 1)..(top + i - 1)
    BY <1>2, ElementOfSequence
  <2> QED BY <1>4, <2>1
<1>6. ASSUME NEW j \in DOMAIN created[i].args PROVE created[i].args[j] \in DOMAIN h
  <2>1. CASE created[i].args[j] \in Below(g, old)
    <3>1. GraphOK(g, r) /\ old \in DOMAIN g
      BY DEF Replaces, Replacement
    <3>2. created[i].args[j] \in DOMAIN g \ {old}
      BY <2>1, <3>1, NotBelowItself
    <3> QED BY <3>2, EditedOps
  <2>2. CASE \E k \in 1..(i - 1) : created[i].args[j] = top + k
    <3>1. PICK k \in 1..(i - 1) : created[i].args[j] = top + k
      BY <2>2
    <3>2. k \in 1..Len(created)
      BY <1>3
    <3> QED BY <3>1, <3>2, EditedOps
  <2> QED BY <1>5, <2>1, <2>2
<1>7. created[i].args \in Seq(DOMAIN h)
  <2> DEFINE s == created[i].args
  <2>1. s = [j \in 1..Len(s) |-> s[j]] /\ Len(s) \in Nat /\ DOMAIN s = 1..Len(s)
    BY <1>2
  <2>2. \A j \in 1..Len(s) : s[j] \in DOMAIN h
    BY <1>6, <2>1
  <2> HIDE DEF s
  <2>3. s \in Seq(DOMAIN h)
    BY <2>1, <2>2
  <2> QED BY <2>3 DEF s
<1> QED BY <1>1, <1>5, <1>7

-----------------------------------------------------------------------------
(***************************************************************************)
(* What a replacement keeps, part by part.                                 *)
(***************************************************************************)
LEMMA ReplaceNodes ==
  ASSUME NEW g, NEW r, NEW h, NEW t, NEW old, NEW new, NEW created, NEW top,
         Replaces(g, r, h, t, old, new, created, top)
  PROVE  NodesOK(h)
<1> SUFFICES ASSUME NEW v \in DOMAIN h
             PROVE  /\ h[v] = Node(h[v].op, h[v].args, h[v].attr, h[v].shape, h[v].marks)
                    /\ Arity(h[v])
  BY DEF NodesOK
<1>1. CASE v \in DOMAIN g \ {old}
  <2>1. SameOp(h[v], g[v]) /\ Renamed(h[v].args, g[v].args, DOMAIN g, old, new)
    BY <1>1, OldOp
  <2>2. Arity(g[v])
    BY <1>1 DEF Replaces, GraphOK, NodesOK
  <2>3. Len(h[v].args) = Len(g[v].args) /\ (g[v].args = <<>> => h[v].args = <<>>)
    BY <2>1 DEF Renamed
  <2> QED BY <2>1, <2>2, <2>3 DEF Arity, SameOp
<1>2. CASE \E i \in 1..Len(created) : v = top + i
  <2>1. PICK i \in 1..Len(created) : v = top + i
    BY <1>2
  <2>2. h[v] = created[i] /\ Creatable(g, old, top, i, created[i])
    BY <2>1, CreatedOp
  <2> QED BY <2>2 DEF Creatable
<1> QED BY <1>1, <1>2, EditedOps

LEMMA ReplaceClosed ==
  ASSUME NEW g, NEW r, NEW h, NEW t, NEW old, NEW new, NEW created, NEW top,
         Replaces(g, r, h, t, old, new, created, top)
  PROVE  Closed(h, t) /\ Renamed(t, r, DOMAIN g, old, new)
<1>1. (DOMAIN g \ {old}) \cup {new} \subseteq DOMAIN h
  BY EditedOps, NewOp
<1>2. ASSUME NEW s, s \in Seq((DOMAIN g \ {old}) \cup {new}) PROVE s \in Seq(DOMAIN h)
  BY <1>1, <1>2
<1>3. Renamed(t, r, DOMAIN g, old, new)
  <2>1. r \in Seq(DOMAIN g) /\ t = Rename(r, old, new)
    BY DEF Replaces, GraphOK, Closed, Edited
  <2> QED BY <2>1, RenameProperties
<1>4. ASSUME NEW v \in DOMAIN h PROVE h[v].args \in Seq(DOMAIN h)
  <2>1. CASE v \in DOMAIN g \ {old}
    <3>1. Renamed(h[v].args, g[v].args, DOMAIN g, old, new)
      BY <2>1, OldOp
    <3> QED BY <1>2, <3>1 DEF Renamed
  <2>2. CASE \E i \in 1..Len(created) : v = top + i
    <3>1. PICK i \in 1..Len(created) : v = top + i
      BY <2>2
    <3>2. h[v] = created[i] /\ created[i].args \in Seq(DOMAIN h)
      BY <3>1, CreatedOp
    <3> QED BY <3>2
  <2> QED BY <2>1, <2>2, EditedOps
<1>5. t \in Seq(DOMAIN h)
  BY <1>2, <1>3 DEF Renamed
<1> QED BY <1>3, <1>4, <1>5 DEF Closed

LEMMA ReplaceNumbered ==
  ASSUME NEW g, NEW r, NEW h, NEW t, NEW old, NEW new, NEW created, NEW top,
         Replaces(g, r, h, t, old, new, created, top)
  PROVE  Numbered(h)
<1>1. top \in Nat /\ Len(created) \in Nat /\ DOMAIN g \subseteq Nat
      /\ \A v \in DOMAIN g : v <= top
  BY DEF Replaces, Replacement, GraphOK, Numbered
<1>2. \A v \in DOMAIN h : v \in Nat /\ v <= top + Len(created)
  BY <1>1, EditedOps
<1>3. top + Len(created) \in Nat
  BY <1>1
<1> QED BY <1>2, <1>3 DEF Numbered

\* The ops created fit between what old rests on and what uses old.
LEMMA ReplaceRanks ==
  ASSUME NEW g, NEW r, NEW h, NEW t, NEW old, NEW new, NEW created, NEW top,
         Replaces(g, r, h, t, old, new, created, top)
  PROVE  Ranks(h) # {}
<1>1. PICK rank \in Ranks(g) : TRUE
  BY DEF Replaces, GraphOK
<1>2. /\ old \in DOMAIN g /\ Len(created) \in 0..5 /\ top \in Nat
      /\ \A v \in DOMAIN g : rank[v] \in Nat
      /\ \A v \in DOMAIN g : \A u \in ArgsOf(g, v) : rank[u] < rank[v]
      /\ \A u \in Below(g, old) : u \in DOMAIN g \ {old} /\ rank[u] < rank[old]
  <2>1. old \in DOMAIN g /\ GraphOK(g, r)
    BY DEF Replaces, Replacement
  <2>2. \A u \in Below(g, old) : u \in DOMAIN g \ {old}
    BY <2>1, NotBelowItself
  <2>3. \A u \in Below(g, old) : rank[u] < rank[old]
    BY <1>1 DEF Below
  <2> QED BY <1>1, <2>1, <2>2, <2>3 DEF Ranks, Replaces, Replacement
<1> DEFINE place(v) == IF v \in DOMAIN g THEN 8 * rank[v] ELSE 8 * rank[old] + (v - top)
           fit == [v \in DOMAIN h |-> place(v)]
<1>3. \A v \in DOMAIN g : place(v) = 8 * rank[v]
  OBVIOUS
<1>4. \A i \in 1..Len(created) : place(top + i) = 8 * rank[old] + i
  <2> SUFFICES ASSUME NEW i \in 1..Len(created)
               PROVE  place(top + i) = 8 * rank[old] + i
    OBVIOUS
  <2>1. top + i \notin DOMAIN g /\ (top + i) - top = i
    BY <1>2, EditedOps
  <2> QED BY <2>1
<1>5. \A v \in DOMAIN h : fit[v] = place(v)
  OBVIOUS
<1> HIDE DEF place
<1>6. fit \in [DOMAIN h -> Nat]
  <2>1. ASSUME NEW v \in DOMAIN h PROVE place(v) \in Nat
    BY <1>2, <1>3, <1>4, EditedOps
  <2> QED BY <2>1
<1>7. /\ new \in DOMAIN h
      /\ \A v \in DOMAIN g : rank[old] < rank[v] => place(new) < place(v)
  <2>1. CASE Len(created) = 0
    <3>1. new \in Below(g, old)
      BY <2>1 DEF Replaces, Replacement
    <3> QED BY <1>2, <1>3, <3>1, NewOp
  <2>2. CASE Len(created) # 0
    <3>1. new = top + Len(created) /\ Len(created) \in 1..Len(created)
      BY <1>2, <2>2 DEF Replaces, Replacement
    <3>2. place(new) = 8 * rank[old] + Len(created)
      BY <1>4, <3>1
    <3>3. ASSUME NEW v \in DOMAIN g, rank[old] < rank[v] PROVE place(new) < place(v)
      <4>1. rank[old] \in Nat /\ rank[v] \in Nat /\ place(v) = 8 * rank[v]
        BY <1>2, <1>3
      <4>2. Len(created) \in 0..5
        BY <1>2
      <4>3. \A a, b \in Nat, c \in 0..5 : a < b => 8 * a + c < 8 * b
        OBVIOUS
      <4>4. 8 * rank[old] + Len(created) < 8 * rank[v]
        BY <3>3, <4>1, <4>2, <4>3
      <4> QED BY <3>2, <4>1, <4>4
    <3> QED BY <3>3, NewOp
  <2> QED BY <2>1, <2>2
<1>8. ASSUME NEW v \in DOMAIN h, NEW u \in ArgsOf(h, v) PROVE place(u) < place(v)
  <2>1. PICK j \in DOMAIN h[v].args : u = h[v].args[j]
    BY DEF ArgsOf
  <2>2. CASE v \in DOMAIN g \ {old}
    <3>1. /\ DOMAIN h[v].args = DOMAIN g[v].args
          /\ u = IF g[v].args[j] = old THEN new ELSE g[v].args[j]
      <4>1. Renamed(h[v].args, g[v].args, DOMAIN g, old, new)
        BY <2>2, OldOp
      <4> QED BY <2>1, <4>1 DEF Renamed
    <3>2. g[v].args[j] \in ArgsOf(g, v)
      BY <2>1, <3>1 DEF ArgsOf
    <3>3. rank[g[v].args[j]] < rank[v]
      BY <1>2, <2>2, <3>2
    <3>4. g[v].args[j] \in DOMAIN g
      BY <2>1, <2>2, <3>1, ArgBelow DEF Replaces
    <3>5. CASE g[v].args[j] = old
      BY <1>7, <2>2, <3>1, <3>3, <3>5
    <3>6. CASE g[v].args[j] # old
      BY <1>2, <1>3, <2>2, <3>1, <3>3, <3>4, <3>6
    <3> QED BY <3>5, <3>6
  <2>3. CASE \E i \in 1..Len(created) : v = top + i
    <3>1. PICK i \in 1..Len(created) : v = top + i
      BY <2>3
    <3>2. h[v] = created[i]
      BY <3>1, CreatedOp
    <3>3. u \in Below(g, old) \/ \E k \in 1..(i - 1) : u = top + k
      BY <2>1, <3>2, CreatedOp
    <3>4. place(v) = 8 * rank[old] + i
      BY <1>4, <3>1
    <3>5. CASE u \in Below(g, old)
      BY <1>2, <1>3, <3>4, <3>5
    <3>6. CASE \E k \in 1..(i - 1) : u = top + k
      <4>1. PICK k \in 1..(i - 1) : u = top + k
        BY <3>6
      <4>2. k \in 1..Len(created) /\ k < i
        BY <1>2
      <4>3. place(u) = 8 * rank[old] + k
        BY <1>4, <4>1, <4>2
      <4> QED BY <1>2, <3>4, <4>2, <4>3
    <3> QED BY <3>3, <3>5, <3>6
  <2> QED BY <2>2, <2>3, EditedOps
<1>9. ASSUME NEW v \in DOMAIN h, NEW u \in ArgsOf(h, v) PROVE fit[u] < fit[v]
  <2>1. u \in DOMAIN h
    <3>1. PICK j \in DOMAIN h[v].args : u = h[v].args[j]
      BY DEF ArgsOf
    <3>2. h[v].args \in Seq(DOMAIN h)
      BY ReplaceClosed DEF Closed
    <3> QED BY <3>1, <3>2, ElementOfSequence
  <2> HIDE DEF fit
  <2> QED BY <1>5, <1>8, <2>1
<1> HIDE DEF fit
<1>10. fit \in Ranks(h)
  BY <1>6, <1>9 DEF Ranks
<1> QED BY <1>10

UnaryOps == {"broadcast", "transpose", "exponential", "negate", "reduce"}
BinaryOps == {"add", "subtract", "multiply", "divide", "maximum", "dot_general",
              "convolution", "batch_norm"}

\* Ops have the operands their kind takes, and those are in the graph.
LEMMA UnaryOperand ==
  ASSUME NEW g, NEW r, GraphOK(g, r), NEW v \in DOMAIN g, g[v].op \in UnaryOps
  PROVE  DOMAIN g[v].args = {1} /\ g[v].args[1] \in DOMAIN g
<1>1. Len(g[v].args) = 1 /\ g[v].args \in Seq(DOMAIN g)
  BY DEF GraphOK, NodesOK, Closed, Arity, UnaryOps
<1>2. DOMAIN g[v].args = 1..1
  BY <1>1
<1> QED BY <1>1, <1>2, ElementOfSequence

LEMMA BinaryOperands ==
  ASSUME NEW g, NEW r, GraphOK(g, r), NEW v \in DOMAIN g, g[v].op \in BinaryOps
  PROVE  /\ DOMAIN g[v].args = {1, 2}
         /\ g[v].args[1] \in DOMAIN g /\ g[v].args[2] \in DOMAIN g
<1>1. Len(g[v].args) = 2 /\ g[v].args \in Seq(DOMAIN g)
  BY DEF GraphOK, NodesOK, Closed, Arity, BinaryOps
<1>2. DOMAIN g[v].args = 1..2
  BY <1>1
<1> QED BY <1>1, <1>2, ElementOfSequence

\* An operand after the replacement against the one before it.
LEMMA CarriedOperand ==
  ASSUME NEW g, NEW r, NEW h, NEW t, NEW old, NEW new, NEW created, NEW top,
         Replaces(g, r, h, t, old, new, created, top),
         NEW v \in DOMAIN g \ {old}, NEW i \in DOMAIN g[v].args
  PROVE  /\ h[h[v].args[i]].shape = g[g[v].args[i]].shape
         /\ h[h[v].args[i]].op = "broadcast" => g[g[v].args[i]].op = "broadcast"
         /\ g[v].args[i] # old => /\ h[v].args[i] = g[v].args[i]
                                  /\ g[v].args[i] \in DOMAIN g \ {old}
                                  /\ SameOp(h[h[v].args[i]], g[g[v].args[i]])
<1> DEFINE a == g[v].args[i]
           b == h[v].args[i]
<1>1. b = IF a = old THEN new ELSE a
  <2>1. Renamed(h[v].args, g[v].args, DOMAIN g, old, new)
    BY OldOp
  <2> QED BY <2>1 DEF Renamed
<1>2. a \in DOMAIN g
  BY ArgBelow DEF Replaces
<1> HIDE DEF a, b
<1>3. CASE a = old
  <2>1. b = new
    BY <1>1, <1>3
  <2>2. h[b].shape = g[a].shape /\ (h[b].op = "broadcast" => g[a].op = "broadcast")
    BY <1>3, <2>1, NewOp
  <2> QED BY <1>3, <2>2 DEF a, b
<1>4. CASE a # old
  <2>1. b = a /\ a \in DOMAIN g \ {old}
    BY <1>1, <1>2, <1>4
  <2>2. SameOp(h[b], g[a])
    BY <2>1, OldOp
  <2> QED BY <1>4, <2>1, <2>2 DEF SameOp, a, b
<1> QED BY <1>3, <1>4

LEMMA ReplaceShapes ==
  ASSUME NEW g, NEW r, NEW h, NEW t, NEW old, NEW new, NEW created, NEW top,
         Replaces(g, r, h, t, old, new, created, top)
  PROVE  ShapesFit(h)
<1> SUFFICES ASSUME NEW v \in DOMAIN h, h[v].op \in {"divide", "reduce"}
             PROVE  /\ h[v].op = "divide" /\ h[h[v].args[2]].op = "broadcast" =>
                         h[h[v].args[2]].shape = h[h[v].args[1]].shape
                    /\ h[v].op = "reduce" => h[v].shape # h[h[v].args[1]].shape
  BY DEF ShapesFit
<1>1. v \in DOMAIN g \ {old}
  <2>1. ASSUME NEW i \in 1..Len(created), v = top + i PROVE FALSE
    <3>1. h[v] = created[i] /\ Creatable(g, old, top, i, created[i])
      BY <2>1, CreatedOp
    <3> QED BY <3>1 DEF Creatable, Fixed
  <2> QED BY <2>1, EditedOps
<1>2. h[v].op = g[v].op /\ h[v].shape = g[v].shape
  BY <1>1, OldOp DEF SameOp
<1>3. ShapesFit(g) /\ GraphOK(g, r)
  BY DEF Replaces, GraphOK
<1>4. CASE h[v].op = "divide"
  <2>1. 1 \in DOMAIN g[v].args /\ 2 \in DOMAIN g[v].args
    <3>1. v \in DOMAIN g /\ g[v].op \in BinaryOps
      BY <1>1, <1>2, <1>4 DEF BinaryOps
    <3> QED BY <1>3, <3>1, BinaryOperands
  <2>2. /\ h[h[v].args[2]].op = "broadcast" => g[g[v].args[2]].op = "broadcast"
        /\ h[h[v].args[2]].shape = g[g[v].args[2]].shape
        /\ h[h[v].args[1]].shape = g[g[v].args[1]].shape
    BY <1>1, <2>1, CarriedOperand
  <2> QED BY <1>1, <1>2, <1>3, <1>4, <2>2 DEF ShapesFit
<1>5. CASE h[v].op = "reduce"
  <2>1. 1 \in DOMAIN g[v].args
    <3>1. v \in DOMAIN g /\ g[v].op \in UnaryOps
      BY <1>1, <1>2, <1>5 DEF UnaryOps
    <3> QED BY <1>3, <3>1, UnaryOperand
  <2>2. h[h[v].args[1]].shape = g[g[v].args[1]].shape
    BY <1>1, <2>1, CarriedOperand
  <2> QED BY <1>1, <1>2, <1>3, <1>5, <2>2 DEF ShapesFit
<1> QED BY <1>4, <1>5

\* Marks are those of ops that stay.
LEMMA ReplaceMarks ==
  ASSUME NEW g, NEW r, NEW h, NEW t, NEW old, NEW new, NEW created, NEW top,
         Replaces(g, r, h, t, old, new, created, top),
         NEW v \in DOMAIN h, h[v].marks \cap Kept # {}
  PROVE  v \in DOMAIN g \ {old} /\ h[v].marks = g[v].marks
<1>1. ASSUME NEW i \in 1..Len(created), v = top + i PROVE FALSE
  <2>1. h[v] = created[i] /\ Creatable(g, old, top, i, created[i])
    BY <1>1, CreatedOp
  <2> QED BY <2>1 DEF Creatable
<1>2. v \in DOMAIN g \ {old}
  BY <1>1, EditedOps
<1> QED BY <1>2, OldOp DEF SameOp

LEMMA ReplaceSoftmax ==
  ASSUME NEW g, NEW r, NEW h, NEW t, NEW old, NEW new, NEW created, NEW top,
         Replaces(g, r, h, t, old, new, created, top)
  PROVE  SoftmaxOK(h) /\ SameTotals(g, h)
<1> SUFFICES ASSUME NEW d \in DOMAIN h, Softmax \in h[d].marks
             PROVE  /\ h[d].op = "divide"
                    /\ LET b == h[d].args[2]
                           s == h[b].args[1]
                       IN  /\ h[b].op = "broadcast" /\ h[s].op = "reduce"
                           /\ h[s].args[1] = h[d].args[1]
                           /\ h[s].shape # h[b].shape
                    /\ d \in DOMAIN g /\ Softmax \in g[d].marks
                    /\ Total(h, d) = Total(g, d)
                    /\ h[Total(g, d)].attr = g[Total(g, d)].attr
  BY DEF SoftmaxOK, SameTotals
<1> DEFINE b == g[d].args[2]
           s == g[b].args[1]
<1>1. d \in DOMAIN g \ {old} /\ h[d].marks = g[d].marks
  BY ReplaceMarks DEF Kept
<1>2. /\ GraphOK(g, r) /\ old \in DOMAIN g
      /\ g[old].op \notin Fixed /\ NoDenominator(g, old)
  BY DEF Replaces, Replacement
<1>3. /\ g[d].op = "divide" /\ g[b].op = "broadcast" /\ g[s].op = "reduce"
      /\ g[s].args[1] = g[d].args[1] /\ g[s].shape # g[b].shape
  BY <1>1, <1>2 DEF GraphOK, SoftmaxOK
<1>4. DOMAIN g[d].args = {1, 2} /\ b \in DOMAIN g
  BY <1>1, <1>2, <1>3, BinaryOperands DEF BinaryOps
<1>5. b # old
  BY <1>2, <1>3 DEF NoDenominator
<1>6. /\ h[d].op = "divide" /\ h[d].args[2] = b /\ h[b].op = "broadcast"
      /\ h[b].shape = g[b].shape
  <2>1. h[d].op = g[d].op
    BY <1>1, OldOp DEF SameOp
  <2>2. h[d].args[2] = b /\ SameOp(h[h[d].args[2]], g[b])
    BY <1>1, <1>4, <1>5, CarriedOperand
  <2> QED BY <1>3, <2>1, <2>2 DEF SameOp
<1>7. DOMAIN g[b].args = {1} /\ s \in DOMAIN g
  BY <1>2, <1>3, <1>4, UnaryOperand DEF UnaryOps
<1>8. s # old
  BY <1>2, <1>3 DEF Fixed
<1>9. /\ h[b].args[1] = s /\ h[s].op = "reduce" /\ h[s].shape = g[s].shape
      /\ h[s].attr = g[s].attr
  <2>1. h[b].args[1] = s /\ SameOp(h[h[b].args[1]], g[s])
    BY <1>4, <1>5, <1>7, <1>8, CarriedOperand
  <2> QED BY <1>3, <2>1 DEF SameOp
<1>10. DOMAIN g[s].args = {1}
  BY <1>2, <1>3, <1>7, UnaryOperand DEF UnaryOps
<1>11. h[s].args[1] = h[d].args[1]
  <2>1. Renamed(h[s].args, g[s].args, DOMAIN g, old, new)
    BY <1>7, <1>8, OldOp
  <2>2. Renamed(h[d].args, g[d].args, DOMAIN g, old, new)
    BY <1>1, OldOp
  <2>3. h[s].args[1] = IF g[s].args[1] = old THEN new ELSE g[s].args[1]
    BY <1>10, <2>1 DEF Renamed
  <2>4. h[d].args[1] = IF g[d].args[1] = old THEN new ELSE g[d].args[1]
    BY <1>4, <2>2 DEF Renamed
  <2> QED BY <1>3, <2>3, <2>4
<1>12. Total(g, d) = s /\ Total(h, d) = s
  BY <1>6, <1>9 DEF Total
<1> HIDE DEF b, s
<1> QED BY <1>1, <1>3, <1>6, <1>9, <1>11, <1>12

LEMMA ReplaceAttention ==
  ASSUME NEW g, NEW r, NEW h, NEW t, NEW old, NEW new, NEW created, NEW top,
         Replaces(g, r, h, t, old, new, created, top)
  PROVE  AttentionOK(h)
<1>1. GraphOK(g, r) /\ AttentionOK(g) /\ g[old].op \notin Fixed
  BY DEF Replaces, Replacement, GraphOK
<1>2. ASSUME NEW v \in DOMAIN h, Flash \in h[v].marks PROVE Attends \in h[v].marks
  <2>1. v \in DOMAIN g \ {old} /\ h[v].marks = g[v].marks
    BY <1>2, ReplaceMarks DEF Kept
  <2> QED BY <1>1, <1>2, <2>1 DEF AttentionOK
<1>3. ASSUME NEW v \in DOMAIN h, Attends \in h[v].marks
      PROVE  /\ h[v].op = "dot_general"
             /\ h[h[v].args[1]].op = "divide" /\ Softmax \in h[h[v].args[1]].marks
             /\ \E s \in DOMAIN h : h[s].op = "dot_general" /\ s < v
  <2> DEFINE d == g[v].args[1]
  <2>1. v \in DOMAIN g \ {old} /\ h[v].marks = g[v].marks
    BY <1>3, ReplaceMarks DEF Kept
  <2>2. /\ g[v].op = "dot_general" /\ g[d].op = "divide" /\ Softmax \in g[d].marks
        /\ \E s \in DOMAIN g : g[s].op = "dot_general" /\ s < v
    BY <1>1, <1>3, <2>1 DEF AttentionOK
  <2>3. h[v].op = "dot_general"
    BY <2>1, <2>2, OldOp DEF SameOp
  <2>4. 1 \in DOMAIN g[v].args /\ d # old
    BY <1>1, <2>1, <2>2, BinaryOperands DEF BinaryOps, Fixed
  <2>5. SameOp(h[h[v].args[1]], g[d])
    BY <2>1, <2>4, CarriedOperand
  <2>6. PICK s \in DOMAIN g : g[s].op = "dot_general" /\ s < v
    BY <2>2
  <2>7. s \in DOMAIN h /\ h[s].op = "dot_general"
    <3>1. s \in DOMAIN g \ {old}
      BY <1>1, <2>6 DEF Fixed
    <3>2. s \in DOMAIN h /\ SameOp(h[s], g[s])
      BY <3>1, OldOp
    <3> QED BY <2>6, <3>2 DEF SameOp
  <2> HIDE DEF d
  <2> QED BY <2>2, <2>3, <2>5, <2>6, <2>7 DEF SameOp
<1> QED BY <1>2, <1>3 DEF AttentionOK

LEMMA ReplaceGraph ==
  ASSUME NEW g, NEW r, NEW h, NEW t, NEW old, NEW new, NEW created, NEW top,
         Replaces(g, r, h, t, old, new, created, top)
  PROVE  GraphOK(h, t) /\ SameTotals(g, h) /\ (Early(g) => Early(h))
<1>1. GraphOK(h, t) /\ SameTotals(g, h)
  BY ReplaceNodes, ReplaceClosed, ReplaceNumbered, ReplaceRanks, ReplaceShapes,
     ReplaceSoftmax, ReplaceAttention DEF GraphOK
<1>2. ASSUME Early(g), NEW v \in DOMAIN h, h[v].marks \cap Kept # {} PROVE FALSE
  <2>1. v \in DOMAIN g /\ h[v].marks = g[v].marks
    BY <1>2, ReplaceMarks
  <2> QED BY <1>2, <2>1 DEF Early
<1> QED BY <1>1, <1>2 DEF Early

-----------------------------------------------------------------------------
(***************************************************************************)
(* Which ops a replacement may leave without a use: those in D, none of    *)
(* which is a matmul. What they use is used by the ops created.            *)
(***************************************************************************)
UsedBy(created, v) ==
  \E i \in 1..Len(created) : \E j \in DOMAIN created[i].args : created[i].args[j] = v

Drops(g, old, new, created, top, D) ==
  /\ old \in D
  /\ \A d \in D : d \in DOMAIN g /\ g[d].op # "dot_general"
  /\ \A d \in D : d = old \/ d \in Below(g, old)
  /\ \A d \in D : \A v \in ArgsOf(g, d) : v \in D \/ v = new \/ UsedBy(created, v)
  /\ \A i \in 1..Len(created) : i = Len(created) \/ UsedBy(created, top + i)

LEMMA CarriedArg ==
  ASSUME NEW g, NEW r, NEW h, NEW t, NEW old, NEW new, NEW created, NEW top,
         Replaces(g, r, h, t, old, new, created, top),
         NEW u \in DOMAIN g \ {old}, NEW v \in ArgsOf(g, u)
  PROVE  (IF v = old THEN new ELSE v) \in ArgsOf(h, u)
<1>1. Renamed(h[u].args, g[u].args, DOMAIN g, old, new)
  BY OldOp
<1>2. PICK i \in DOMAIN g[u].args : v = g[u].args[i]
  BY DEF ArgsOf
<1>3. i \in DOMAIN h[u].args /\ h[u].args[i] = IF v = old THEN new ELSE v
  BY <1>1, <1>2 DEF Renamed
<1> QED BY <1>3 DEF ArgsOf

\* A set of ops that support each other gives way to one of the new graph's.
GivesWay(h, t, L, M, D, old, created, top) ==
  /\ Supported(h, t, M) /\ L \ D \subseteq M
  /\ (old \in L => \A i \in 1..Len(created) : top + i \in M)

LEMMA ReplaceSupport ==
  ASSUME NEW g, NEW r, NEW h, NEW t, NEW old, NEW new, NEW created, NEW top,
         Replaces(g, r, h, t, old, new, created, top),
         NEW D, Drops(g, old, new, created, top, D),
         NEW L, Supported(g, r, L)
  PROVE  \E M : GivesWay(h, t, L, M, D, old, created, top)
<1>2. L \subseteq DOMAIN g
  BY DEF Supported
<1>3. GraphOK(g, r) /\ old \in DOMAIN g /\ g[old].op \notin Fixed
      /\ Len(created) \in Nat
  BY DEF Replaces, Replacement
<1>4. ASSUME NEW i \in DOMAIN r
      PROVE  i \in DOMAIN t /\ t[i] = IF r[i] = old THEN new ELSE r[i]
  <2>1. Renamed(t, r, DOMAIN g, old, new)
    BY ReplaceClosed
  <2> QED BY <2>1 DEF Renamed
<1>6. CASE old \notin L
  <2>1. Supported(h, t, L)
    <3> SUFFICES ASSUME NEW v \in L
                 PROVE  (\E i \in DOMAIN t : t[i] = v) \/ \E u \in L : v \in ArgsOf(h, u)
      BY <1>2, <1>6, EditedOps DEF Supported
    <3>1. v # old
      BY <1>6
    <3>2. (\E i \in DOMAIN r : r[i] = v) \/ \E u \in L : v \in ArgsOf(g, u)
      BY DEF Supported
    <3>3. CASE \E i \in DOMAIN r : r[i] = v
      BY <1>4, <3>1, <3>3
    <3>4. CASE \E u \in L : v \in ArgsOf(g, u)
      <4>1. PICK u \in L : v \in ArgsOf(g, u)
        BY <3>4
      <4>2. u \in DOMAIN g \ {old}
        BY <1>2, <1>6
      <4>3. v \in ArgsOf(h, u)
        BY <3>1, <4>1, <4>2, CarriedArg
      <4> QED BY <4>3
    <3> QED BY <3>2, <3>3, <3>4
  <2> QED BY <1>2, <1>6, <2>1 DEF GivesWay
<1>7. CASE old \in L
  <2> DEFINE M == (L \ D) \cup {top + i : i \in 1..Len(created)} \cup {new}
  <2>1. M \subseteq DOMAIN h
    BY <1>2, EditedOps, NewOp DEF Drops
  <2>2. ASSUME NEW v, UsedBy(created, v) PROVE \E u \in M : v \in ArgsOf(h, u)
    <3>1. PICK i \in 1..Len(created) : \E j \in DOMAIN created[i].args : created[i].args[j] = v
      BY <2>2 DEF UsedBy
    <3>2. h[top + i] = created[i]
      BY CreatedOp
    <3>3. v \in ArgsOf(h, top + i)
      BY <3>1, <3>2 DEF ArgsOf
    <3> QED BY <3>3
  <2>3. (\E i \in DOMAIN t : t[i] = new) \/ \E u \in M : new \in ArgsOf(h, u)
    <3>1. (\E i \in DOMAIN r : r[i] = old) \/ \E u \in L : old \in ArgsOf(g, u)
      BY <1>7 DEF Supported
    <3>2. CASE \E i \in DOMAIN r : r[i] = old
      BY <1>4, <3>2
    <3>3. CASE \E u \in L : old \in ArgsOf(g, u)
      <4>1. PICK u \in L : old \in ArgsOf(g, u)
        BY <3>3
      <4>2. u \in DOMAIN g /\ old \in Below(g, u)
        BY <1>2, <1>3, <4>1, ArgBelow DEF ArgsOf
      <4>3. u # old /\ u \notin Below(g, old)
        BY <1>3, <4>2, NotBelowItself
      <4>4. u \in L \ D
        BY <4>3 DEF Drops
      <4>5. new \in ArgsOf(h, u)
        BY <4>1, <4>2, <4>3, CarriedArg
      <4> QED BY <4>4, <4>5
    <3> QED BY <3>1, <3>2, <3>3
  <2>4. ASSUME NEW v \in L \ D
        PROVE  (\E i \in DOMAIN t : t[i] = v) \/ \E u \in M : v \in ArgsOf(h, u)
    <3>1. v # old
      BY DEF Drops
    <3>2. (\E i \in DOMAIN r : r[i] = v) \/ \E u \in L : v \in ArgsOf(g, u)
      BY DEF Supported
    <3>3. CASE \E i \in DOMAIN r : r[i] = v
      BY <1>4, <3>1, <3>3
    <3>4. CASE \E u \in L : v \in ArgsOf(g, u)
      <4>1. PICK u \in L : v \in ArgsOf(g, u)
        BY <3>4
      <4>2. CASE u \in D
        <5>1. v = new \/ UsedBy(created, v)
          BY <4>1, <4>2 DEF Drops
        <5> HIDE DEF M
        <5> QED BY <2>2, <2>3, <5>1
      <4>3. CASE u \notin D
        <5>1. u \in DOMAIN g \ {old} /\ u \in M
          BY <1>2, <4>3 DEF Drops
        <5>2. v \in ArgsOf(h, u)
          BY <3>1, <4>1, <5>1, CarriedArg
        <5> QED BY <5>1, <5>2
      <4> QED BY <4>2, <4>3
    <3> QED BY <3>2, <3>3, <3>4
  <2>5. ASSUME NEW i \in 1..Len(created)
        PROVE  \/ \E j \in DOMAIN t : t[j] = top + i
               \/ \E u \in M : top + i \in ArgsOf(h, u)
    <3>1. CASE i = Len(created)
      <4>1. top + i = new
        BY <3>1 DEF Replaces, Replacement
      <4> HIDE DEF M
      <4> QED BY <2>3, <4>1
    <3>2. CASE UsedBy(created, top + i)
      <4> HIDE DEF M
      <4> QED BY <2>2, <3>2
    <3> QED BY <3>1, <3>2 DEF Drops
  <2>6. \A v \in M : v \in L \ D \/ v = new \/ \E i \in 1..Len(created) : v = top + i
    OBVIOUS
  <2>7. L \ D \subseteq M /\ \A i \in 1..Len(created) : top + i \in M
    OBVIOUS
  <2> HIDE DEF M
  <2>8. Supported(h, t, M)
    BY <2>1, <2>3, <2>4, <2>5, <2>6 DEF Supported
  <2> QED BY <2>7, <2>8 DEF GivesWay
<1> QED BY <1>6, <1>7

LEMMA ReplaceLive ==
  ASSUME NEW g, NEW r, NEW h, NEW t, NEW old, NEW new, NEW created, NEW top,
         Replaces(g, r, h, t, old, new, created, top),
         NEW D, Drops(g, old, new, created, top, D),
         DotsLive(g, r)
  PROVE  DotsLive(h, t)
<1>1. PICK L : Supported(g, r, L) /\ Dots(g) \subseteq L
  BY DEF DotsLive
<1>2. PICK M : GivesWay(h, t, L, M, D, old, created, top)
  BY <1>1, ReplaceSupport
<1>3. Len(created) \in Nat
  BY DEF Replaces, Replacement
<1>4. \A v \in Dots(h) : v \in Dots(g) /\ v # old
  <2> SUFFICES ASSUME NEW v \in Dots(h) PROVE v \in Dots(g) /\ v # old
    OBVIOUS
  <2>1. ASSUME NEW i \in 1..Len(created), v = top + i PROVE FALSE
    <3>1. h[v] = created[i] /\ Creatable(g, old, top, i, created[i])
      BY <2>1, CreatedOp
    <3> QED BY <3>1 DEF Creatable, Fixed, Dots
  <2>2. v \in DOMAIN g \ {old}
    BY <2>1, EditedOps DEF Dots
  <2>3. h[v].op = g[v].op
    BY <2>2, OldOp DEF SameOp
  <2> QED BY <2>2, <2>3 DEF Dots
<1>5. Dots(h) \subseteq M
  <2> SUFFICES ASSUME NEW v \in Dots(h) PROVE v \in L \ D
    BY <1>2 DEF GivesWay
  <2>1. v \in Dots(g) /\ v \in L
    BY <1>1, <1>4
  <2> QED BY <2>1 DEF Drops, Dots
<1> QED BY <1>2, <1>5 DEF DotsLive, GivesWay

LEMMA ReplaceKeeps ==
  ASSUME NEW g, NEW r, NEW h, NEW t, NEW old, NEW new, NEW created, NEW top,
         Replaces(g, r, h, t, old, new, created, top),
         NEW D, Drops(g, old, new, created, top, D)
  PROVE  Keeps(g, r, h, t)
BY ReplaceGraph, ReplaceLive DEF Keeps

-----------------------------------------------------------------------------
(***************************************************************************)
(* Erasing an op that nothing uses.                                        *)
(***************************************************************************)
Unused(g, r, v) ==
  /\ \A n \in DOMAIN g : v \notin ArgsOf(g, n)
  /\ \A i \in DOMAIN r : r[i] # v

LEMMA NoUses ==
  ASSUME NEW g, NEW r, NEW v, Uses(g, r, v) = {}
  PROVE  Unused(g, r, v)
<1> DEFINE usesAt(n) == {<<n, i>> : i \in {j \in DOMAIN g[n].args : g[n].args[j] = v}}
           returned == {<<0, i>> : i \in {j \in DOMAIN r : r[j] = v}}
<1>0. Uses(g, r, v) = (UNION {usesAt(n) : n \in DOMAIN g}) \cup returned
  BY DEF Uses
<1>1. ASSUME NEW n \in DOMAIN g, v \in ArgsOf(g, n) PROVE FALSE
  <2>1. PICK i \in DOMAIN g[n].args : g[n].args[i] = v
    BY <1>1 DEF ArgsOf
  <2>2. <<n, i>> \in usesAt(n)
    BY <2>1
  <2> HIDE DEF usesAt, returned
  <2> QED BY <1>0, <2>2
<1>2. ASSUME NEW i \in DOMAIN r, r[i] = v PROVE FALSE
  <2>1. <<0, i>> \in returned
    BY <1>2
  <2> HIDE DEF usesAt, returned
  <2>2. returned \subseteq Uses(g, r, v)
    BY <1>0, Zenon
  <2> QED BY <2>1, <2>2, Zenon
<1> HIDE DEF usesAt, returned
<1> QED BY <1>1, <1>2 DEF Unused

LEMMA UnusedHasNoUses ==
  ASSUME NEW g, NEW r, NEW v, Unused(g, r, v)
  PROVE  Uses(g, r, v) = {}
<1> DEFINE usesAt(n) == {<<n, i>> : i \in {j \in DOMAIN g[n].args : g[n].args[j] = v}}
           returned == {<<0, i>> : i \in {j \in DOMAIN r : r[j] = v}}
<1>1. Uses(g, r, v) = (UNION {usesAt(n) : n \in DOMAIN g}) \cup returned
  BY DEF Uses
<1>2. \A n \in DOMAIN g : usesAt(n) = {}
  BY DEF Unused, ArgsOf
<1>3. returned = {}
  BY DEF Unused
<1> HIDE DEF usesAt, returned
<1>4. UNION {usesAt(n) : n \in DOMAIN g} = {}
  BY <1>2
<1> QED BY <1>1, <1>3, <1>4

\* The uses of a value can be counted.
LEMMA UsesFinite ==
  ASSUME NEW g, NEW r, GraphOK(g, r), NEW v
  PROVE  IsFiniteSet(Uses(g, r, v))
<1> DEFINE usesAt(n) == {<<n, i>> : i \in {j \in DOMAIN g[n].args : g[n].args[j] = v}}
           returned == {<<0, i>> : i \in {j \in DOMAIN r : r[j] = v}}
           F == [n \in DOMAIN g |-> usesAt(n)]
           T == {usesAt(n) : n \in DOMAIN g}
<1>1. Uses(g, r, v) = (UNION T) \cup returned
  BY DEF Uses
<1>2. ASSUME NEW n, NEW m \in Nat PROVE IsFiniteSet({n} \X (1..m))
  <2>1. IsFiniteSet({n})
    BY FS_Singleton
  <2>2. IsFiniteSet(1..m)
    BY FS_Interval
  <2> QED BY <2>1, <2>2, FS_Product
<1>3. ASSUME NEW n \in DOMAIN g PROVE IsFiniteSet(usesAt(n))
  <2>1. DOMAIN g[n].args = 1..Len(g[n].args) /\ Len(g[n].args) \in Nat
    BY DEF GraphOK, Closed
  <2>2. usesAt(n) \in SUBSET ({n} \X (1..Len(g[n].args)))
    BY <2>1
  <2> HIDE DEF usesAt
  <2> QED BY <1>2, <2>1, <2>2, FS_Subset
<1>4. IsFiniteSet(returned)
  <2>1. DOMAIN r = 1..Len(r) /\ Len(r) \in Nat
    BY DEF GraphOK, Closed
  <2>2. returned \in SUBSET ({0} \X (1..Len(r)))
    BY <2>1
  <2> HIDE DEF returned
  <2> QED BY <1>2, <2>1, <2>2, FS_Subset
<1>5. IsFiniteSet(DOMAIN g)
  <2>1. PICK n \in Nat : \A u \in DOMAIN g : u <= n
    BY DEF GraphOK, Numbered
  <2>2. DOMAIN g \in SUBSET Nat
    BY DEF GraphOK, Numbered
  <2> QED BY <2>1, <2>2, FS_BoundedSetOfNaturals
<1> HIDE DEF usesAt, returned
<1>6. F \in Surjection(DOMAIN g, T)
  BY DEF Surjection
<1>7. IsFiniteSet(T)
  <2> HIDE DEF F, T
  <2> QED BY <1>5, <1>6, FS_Surjection
<1>8. \A S \in T : IsFiniteSet(S)
  BY <1>3
<1> HIDE DEF T
<1> QED BY <1>1, <1>4, <1>7, <1>8, FS_UNION, FS_Union

\* An op with one use is the operand of one op.
LEMMA SoleUse ==
  ASSUME NEW g, NEW r, GraphOK(g, r), NEW u, Cardinality(Uses(g, r, u)) = 1,
         NEW v \in DOMAIN g, u \in ArgsOf(g, v)
  PROVE  /\ \A n \in DOMAIN g : u \in ArgsOf(g, n) => n = v
         /\ \A i \in DOMAIN r : r[i] # u
<1> DEFINE usesAt(n) == {<<n, i>> : i \in {j \in DOMAIN g[n].args : g[n].args[j] = u}}
           returned == {<<0, i>> : i \in {j \in DOMAIN r : r[j] = u}}
<1>1. Uses(g, r, u) = (UNION {usesAt(n) : n \in DOMAIN g}) \cup returned
  BY DEF Uses
<1>2. PICK x : Uses(g, r, u) = {x}
  BY UsesFinite, FS_Singleton
<1>3. ASSUME NEW n \in DOMAIN g, u \in ArgsOf(g, n)
      PROVE  \E i : x = <<n, i>>
  <2>1. PICK i \in DOMAIN g[n].args : g[n].args[i] = u
    BY <1>3 DEF ArgsOf
  <2>2. <<n, i>> \in usesAt(n)
    BY <2>1
  <2> HIDE DEF usesAt, returned
  <2>3. <<n, i>> \in Uses(g, r, u)
    BY <1>1, <2>2
  <2> QED BY <1>2, <2>3
<1>4. PICK i : x = <<v, i>>
  BY <1>3
<1>5. ASSUME NEW n \in DOMAIN g, u \in ArgsOf(g, n) PROVE n = v
  BY <1>3, <1>4, <1>5
<1>6. ASSUME NEW j \in DOMAIN r, r[j] = u PROVE FALSE
  <2>1. <<0, j>> \in returned
    BY <1>6
  <2> HIDE DEF usesAt, returned
  <2>2. returned \subseteq Uses(g, r, u)
    BY <1>1, Zenon
  <2>3. x = <<0, j>>
    BY <1>2, <2>1, <2>2
  <2>4. v \in Nat \ {0}
    BY DEF GraphOK, Numbered
  <2> QED BY <1>4, <2>3, <2>4
<1> HIDE DEF usesAt, returned
<1> QED BY <1>5, <1>6

\* What a divide by a broadcast divides by is an op of the graph.
LEMMA DividesWithin ==
  ASSUME NEW g, NEW r, GraphOK(g, r), NEW d \in DOMAIN g, g[d].op = "divide",
         g[g[d].args[2]].op = "broadcast"
  PROVE  /\ 2 \in DOMAIN g[d].args /\ g[d].args[2] \in DOMAIN g
         /\ 1 \in DOMAIN g[g[d].args[2]].args /\ Total(g, d) \in DOMAIN g
<1>1. 2 \in DOMAIN g[d].args
  BY BinaryOperands, SMTT(30) DEF BinaryOps
<1>2. g[d].args[2] \in DOMAIN g
  BY <1>1, ArgBelow
<1>3. 1 \in DOMAIN g[g[d].args[2]].args
  BY <1>2, UnaryOperand DEF UnaryOps
<1>4. Total(g, d) \in DOMAIN g
  BY <1>2, <1>3, ArgBelow DEF Total
<1> QED BY <1>1, <1>2, <1>3, <1>4

LEMMA EraseKeeps ==
  ASSUME NEW g, NEW r, GraphOK(g, r), NEW x, Unused(g, r, x),
         NEW h, h = [v \in DOMAIN g \ {x} |-> g[v]],
         x \notin Dots(g) \/ DotsLive(g, r) \/ Early(g)
  PROVE  Keeps(g, r, h, r)
<1>1. DOMAIN h = DOMAIN g \ {x} /\ \A v \in DOMAIN h : h[v] = g[v]
  OBVIOUS
<1>2. NodesOK(h)
  BY <1>1 DEF GraphOK, NodesOK
<1>3. ASSUME NEW s, s \in Seq(DOMAIN g), \A i \in DOMAIN s : s[i] # x
      PROVE  s \in Seq(DOMAIN h)
  <2>1. s = [i \in 1..Len(s) |-> s[i]] /\ Len(s) \in Nat /\ DOMAIN s = 1..Len(s)
    BY <1>3
  <2>2. \A i \in 1..Len(s) : s[i] \in DOMAIN h
    BY <1>1, <1>3, <2>1, ElementOfSequence
  <2>3. [i \in 1..Len(s) |-> s[i]] \in Seq(DOMAIN h)
    BY <2>1, <2>2
  <2> QED BY <2>1, <2>3
<1>4. Closed(h, r)
  <2>1. ASSUME NEW v \in DOMAIN h PROVE h[v].args \in Seq(DOMAIN h)
    <3>1. g[v].args \in Seq(DOMAIN g) /\ \A i \in DOMAIN g[v].args : g[v].args[i] # x
      BY <1>1 DEF GraphOK, Closed, Unused, ArgsOf
    <3> QED BY <1>1, <1>3, <3>1
  <2>2. r \in Seq(DOMAIN h)
    BY <1>3 DEF GraphOK, Closed, Unused
  <2> QED BY <2>1, <2>2 DEF Closed
<1>5. Numbered(h)
  BY <1>1 DEF GraphOK, Numbered
<1>6. \A v \in DOMAIN h : ArgsOf(h, v) = ArgsOf(g, v) /\ ArgsOf(g, v) \subseteq DOMAIN h
  <2> SUFFICES ASSUME NEW v \in DOMAIN h
               PROVE  ArgsOf(h, v) = ArgsOf(g, v) /\ ArgsOf(g, v) \subseteq DOMAIN h
    OBVIOUS
  <2>1. ArgsOf(h, v) = ArgsOf(g, v)
    BY <1>1 DEF ArgsOf
  <2>2. \A i \in DOMAIN h[v].args : h[v].args[i] \in DOMAIN h
    BY <1>4, ElementOfSequence DEF Closed
  <2> QED BY <2>1, <2>2 DEF ArgsOf
<1>7. Ranks(h) # {}
  <2>1. PICK rank \in Ranks(g) : TRUE
    BY DEF GraphOK
  <2> DEFINE rest == [v \in DOMAIN h |-> rank[v]]
  <2>2. rest \in [DOMAIN h -> Nat]
    BY <1>1, <2>1 DEF Ranks
  <2>3. ASSUME NEW v \in DOMAIN h, NEW u \in ArgsOf(h, v) PROVE rest[u] < rest[v]
    BY <1>1, <1>6, <2>1 DEF Ranks
  <2> HIDE DEF rest
  <2>4. rest \in Ranks(h)
    BY <2>2, <2>3 DEF Ranks
  <2> QED BY <2>4
<1>8. \A v \in DOMAIN h : \A i \in DOMAIN g[v].args :
        g[v].args[i] \in DOMAIN h /\ h[g[v].args[i]] = g[g[v].args[i]]
  BY <1>1, <1>6 DEF ArgsOf
<1>9. ShapesFit(h)
  <2> SUFFICES ASSUME NEW v \in DOMAIN h, h[v].op \in {"divide", "reduce"}
               PROVE  /\ h[v].op = "divide" /\ h[h[v].args[2]].op = "broadcast" =>
                           h[h[v].args[2]].shape = h[h[v].args[1]].shape
                      /\ h[v].op = "reduce" => h[v].shape # h[h[v].args[1]].shape
    BY DEF ShapesFit
  <2>1. h[v] = g[v] /\ v \in DOMAIN g
    BY <1>1
  <2>2. CASE h[v].op = "divide"
    <3>1. 1 \in DOMAIN g[v].args /\ 2 \in DOMAIN g[v].args
      BY <2>1, <2>2, BinaryOperands DEF BinaryOps
    <3> QED BY <1>8, <2>1, <2>2, <3>1 DEF GraphOK, ShapesFit
  <2>3. CASE h[v].op = "reduce"
    <3>1. 1 \in DOMAIN g[v].args
      BY <2>1, <2>3, UnaryOperand DEF UnaryOps
    <3> QED BY <1>8, <2>1, <2>3, <3>1 DEF GraphOK, ShapesFit
  <2> QED BY <2>2, <2>3
<1>10. SoftmaxOK(h)
  <2> SUFFICES ASSUME NEW d \in DOMAIN h, Softmax \in h[d].marks
               PROVE  /\ h[d].op = "divide"
                      /\ LET b == h[d].args[2]
                             s == h[b].args[1]
                         IN  /\ h[b].op = "broadcast" /\ h[s].op = "reduce"
                             /\ h[s].args[1] = h[d].args[1]
                             /\ h[s].shape # h[b].shape
    BY DEF SoftmaxOK
  <2> DEFINE b == g[d].args[2]
             s == g[b].args[1]
  <2>1. h[d] = g[d] /\ d \in DOMAIN g
    BY <1>1
  <2>2. /\ g[d].op = "divide" /\ g[b].op = "broadcast" /\ g[s].op = "reduce"
        /\ g[s].args[1] = g[d].args[1] /\ g[s].shape # g[b].shape
    BY <2>1 DEF GraphOK, SoftmaxOK
  <2>3. 2 \in DOMAIN g[d].args
    BY <2>1, <2>2, BinaryOperands, SMTT(30) DEF BinaryOps
  <2>4. b \in DOMAIN h /\ h[b] = g[b] /\ b \in DOMAIN g
    BY <1>1, <1>8, <2>3
  <2>5. 1 \in DOMAIN g[b].args
    BY <2>2, <2>4, UnaryOperand DEF UnaryOps
  <2>6. h[s] = g[s]
    BY <1>8, <2>4, <2>5
  <2> QED BY <2>1, <2>2, <2>4, <2>6
<1>11. AttentionOK(h)
  <2>1. ASSUME NEW v \in DOMAIN h, Attends \in h[v].marks
        PROVE  /\ h[v].op = "dot_general"
               /\ h[h[v].args[1]].op = "divide" /\ Softmax \in h[h[v].args[1]].marks
               /\ \E s \in DOMAIN h : h[s].op = "dot_general" /\ s < v
    <3> DEFINE d == g[v].args[1]
    <3>1. h[v] = g[v] /\ v \in DOMAIN g
      BY <1>1
    <3>2. /\ g[v].op = "dot_general" /\ g[d].op = "divide" /\ Softmax \in g[d].marks
          /\ \E s \in DOMAIN g : g[s].op = "dot_general" /\ s < v
      BY <2>1, <3>1 DEF GraphOK, AttentionOK
    <3>3. 1 \in DOMAIN g[v].args
      BY <3>1, <3>2, BinaryOperands DEF BinaryOps
    <3>4. h[d] = g[d]
      BY <1>8, <3>3
    <3>5. x \notin Dots(g)
      <4>1. CASE DotsLive(g, r)
        <5>1. PICK L : Supported(g, r, L) /\ Dots(g) \subseteq L
          BY <4>1 DEF DotsLive
        <5> QED BY <5>1 DEF Supported, Unused
      <4>2. CASE Early(g)
        BY <2>1, <3>1, <4>2 DEF Early, Kept
      <4> QED BY <4>1, <4>2
    <3>6. PICK s \in DOMAIN g : g[s].op = "dot_general" /\ s < v
      BY <3>2
    <3>7. s \in DOMAIN h /\ h[s] = g[s]
      BY <1>1, <3>5, <3>6 DEF Dots
    <3> QED BY <3>1, <3>2, <3>4, <3>6, <3>7
  <2>2. \A v \in DOMAIN h : Flash \in h[v].marks => Attends \in h[v].marks
    BY <1>1 DEF GraphOK, AttentionOK
  <2> QED BY <2>1, <2>2 DEF AttentionOK
<1>12. Early(g) => Early(h)
  BY <1>1 DEF Early
<1>13. DotsLive(g, r) => DotsLive(h, r)
  <2> SUFFICES ASSUME NEW L, Supported(g, r, L), Dots(g) \subseteq L
               PROVE  Supported(h, r, L) /\ Dots(h) \subseteq L
    BY DEF DotsLive
  <2>1. x \notin L
    BY DEF Supported, Unused
  <2>2. L \subseteq DOMAIN h
    BY <1>1, <2>1 DEF Supported
  <2>3. \A v \in L : (\E i \in DOMAIN r : r[i] = v) \/ \E u \in L : v \in ArgsOf(h, u)
    BY <1>6, <2>2 DEF Supported
  <2>4. Supported(h, r, L)
    BY <2>2, <2>3 DEF Supported
  <2> QED BY <1>1, <2>4 DEF Dots
<1>14. GraphOK(h, r)
  BY <1>2, <1>4, <1>5, <1>7, <1>9, <1>10, <1>11 DEF GraphOK
<1>15. SameTotals(g, h)
  <2> SUFFICES ASSUME NEW d \in DOMAIN h, Softmax \in h[d].marks
               PROVE  /\ d \in DOMAIN g /\ Softmax \in g[d].marks
                      /\ Total(h, d) = Total(g, d)
                      /\ h[Total(g, d)].attr = g[Total(g, d)].attr
    BY DEF SameTotals
  <2>1. h[d].op = "divide" /\ h[h[d].args[2]].op = "broadcast"
    BY <1>10 DEF SoftmaxOK
  <2>2. h[d].args[2] \in DOMAIN h /\ Total(h, d) \in DOMAIN h
    BY <1>14, <2>1, DividesWithin
  <2>3. Total(h, d) = Total(g, d)
    BY <1>1, <2>2 DEF Total
  <2> QED BY <1>1, <2>2, <2>3
<1> QED BY <1>12, <1>13, <1>14, <1>15 DEF Keeps

-----------------------------------------------------------------------------
(***************************************************************************)
(* An annotation.                                                          *)
(***************************************************************************)
MarkFits(g, v, m) ==
  /\ m = Softmax =>
       /\ g[v].op = "divide"
       /\ LET b == g[v].args[2]
              s == g[b].args[1]
          IN  /\ g[b].op = "broadcast" /\ g[s].op = "reduce"
              /\ g[s].args[1] = g[v].args[1]
              /\ g[s].shape # g[b].shape
  /\ m = Attends =>
       /\ g[v].op = "dot_general"
       /\ g[g[v].args[1]].op = "divide" /\ Softmax \in g[g[v].args[1]].marks
       /\ \E s \in DOMAIN g : g[s].op = "dot_general" /\ s < v
  /\ m = Flash => Attends \in g[v].marks

\* h is g with the mark m on v.
Remarked(g, h, v, m) ==
  /\ DOMAIN h = DOMAIN g
  /\ \A u \in DOMAIN g : h[u].marks = g[u].marks \cup IF u = v THEN {m} ELSE {}
  /\ \A u \in DOMAIN g :
       /\ h[u] = Node(h[u].op, h[u].args, h[u].attr, h[u].shape, h[u].marks)
       /\ h[u].op = g[u].op /\ h[u].args = g[u].args
       /\ h[u].attr = g[u].attr /\ h[u].shape = g[u].shape

LEMMA MarkNodes ==
  ASSUME NEW g, NEW r, GraphOK(g, r), NEW v \in DOMAIN g, NEW m,
         NEW h, h = [g EXCEPT ![v].marks = @ \cup {m}]
  PROVE  Remarked(g, h, v, m)
<1>1. DOMAIN h = DOMAIN g
  OBVIOUS
<1>2. ASSUME NEW u \in DOMAIN g
      PROVE  /\ h[u] = Node(g[u].op, g[u].args, g[u].attr, g[u].shape, h[u].marks)
             /\ h[u].marks = g[u].marks \cup IF u = v THEN {m} ELSE {}
  <2>1. g[u] = Node(g[u].op, g[u].args, g[u].attr, g[u].shape, g[u].marks)
    BY DEF GraphOK, NodesOK
  <2>2. h[u] = IF u = v THEN [g[u] EXCEPT !.marks = @ \cup {m}] ELSE g[u]
    OBVIOUS
  <2>3. CASE u = v
    BY <2>1, <2>2, <2>3 DEF Node
  <2>4. CASE u # v
    BY <2>1, <2>2, <2>4
  <2> QED BY <2>3, <2>4
<1>3. ASSUME NEW u \in DOMAIN g
      PROVE  /\ h[u] = Node(h[u].op, h[u].args, h[u].attr, h[u].shape, h[u].marks)
             /\ h[u].op = g[u].op /\ h[u].args = g[u].args
             /\ h[u].attr = g[u].attr /\ h[u].shape = g[u].shape
  <2> DEFINE n == h[u]
             k == h[u].marks
  <2>1. n = Node(g[u].op, g[u].args, g[u].attr, g[u].shape, k)
    BY <1>2
  <2> HIDE DEF n, k
  <2>2. /\ n.op = g[u].op /\ n.args = g[u].args /\ n.attr = g[u].attr
        /\ n.shape = g[u].shape /\ n.marks = k
    BY <2>1 DEF Node
  <2>3. n = Node(n.op, n.args, n.attr, n.shape, n.marks)
    BY <2>1, <2>2
  <2> QED BY <2>2, <2>3 DEF n
<1> QED BY <1>1, <1>2, <1>3 DEF Remarked

LEMMA MarkKeeps ==
  ASSUME NEW g, NEW r, GraphOK(g, r), NEW v \in DOMAIN g, NEW m,
         NEW h, h = [g EXCEPT ![v].marks = @ \cup {m}],
         MarkFits(g, v, m)
  PROVE  /\ GraphOK(h, r)
         /\ DotsLive(g, r) => DotsLive(h, r)
<1>0. Remarked(g, h, v, m)
  BY MarkNodes
<1>1. \A u \in DOMAIN g : h[u].marks = g[u].marks \cup IF u = v THEN {m} ELSE {}
  BY <1>0 DEF Remarked
<1>2. /\ DOMAIN h = DOMAIN g
      /\ \A u \in DOMAIN g :
           h[u].op = g[u].op /\ h[u].args = g[u].args /\ h[u].shape = g[u].shape
  BY <1>0 DEF Remarked
<1>3. NodesOK(h)
  <2> SUFFICES ASSUME NEW u \in DOMAIN h
               PROVE  /\ h[u] = Node(h[u].op, h[u].args, h[u].attr, h[u].shape, h[u].marks)
                      /\ Arity(h[u])
    BY DEF NodesOK
  <2>1. u \in DOMAIN g /\ h[u].op = g[u].op /\ h[u].args = g[u].args
    BY <1>2
  <2>2. Arity(g[u])
    BY <2>1 DEF GraphOK, NodesOK
  <2>3. Arity(h[u])
    BY <2>1, <2>2 DEF Arity
  <2>4. h[u] = Node(h[u].op, h[u].args, h[u].attr, h[u].shape, h[u].marks)
    BY <1>0, <2>1 DEF Remarked
  <2> QED BY <2>3, <2>4
<1>4. Closed(h, r) /\ Numbered(h)
  BY <1>2 DEF GraphOK, Closed, Numbered
<1>5. \A u \in DOMAIN g : ArgsOf(h, u) = ArgsOf(g, u)
  BY <1>2 DEF ArgsOf
<1>6. Ranks(h) # {}
  <2>1. PICK rank \in Ranks(g) : TRUE
    BY DEF GraphOK
  <2>2. rank \in Ranks(h)
    BY <1>2, <1>5, <2>1 DEF Ranks
  <2> QED BY <2>2
<1>7. \A u \in DOMAIN g : \A i \in DOMAIN g[u].args : g[u].args[i] \in DOMAIN g
  BY ArgBelow
<1>8. ShapesFit(h)
  <2> SUFFICES ASSUME NEW u \in DOMAIN h, h[u].op \in {"divide", "reduce"}
               PROVE  /\ h[u].op = "divide" /\ h[h[u].args[2]].op = "broadcast" =>
                           h[h[u].args[2]].shape = h[h[u].args[1]].shape
                      /\ h[u].op = "reduce" => h[u].shape # h[h[u].args[1]].shape
    BY DEF ShapesFit
  <2>1. u \in DOMAIN g
    BY <1>2
  <2>2. CASE h[u].op = "divide"
    <3>1. g[u].args[1] \in DOMAIN g /\ g[u].args[2] \in DOMAIN g
      <4>1. g[u].op \in BinaryOps
        BY <1>2, <2>1, <2>2 DEF BinaryOps
      <4> QED BY <2>1, <4>1, BinaryOperands
    <3> QED BY <1>2, <2>1, <2>2, <3>1 DEF GraphOK, ShapesFit
  <2>3. CASE h[u].op = "reduce"
    <3>1. g[u].args[1] \in DOMAIN g
      <4>1. g[u].op \in UnaryOps
        BY <1>2, <2>1, <2>3 DEF UnaryOps
      <4> QED BY <2>1, <4>1, UnaryOperand
    <3> QED BY <1>2, <2>1, <2>3, <3>1 DEF GraphOK, ShapesFit
  <2> QED BY <2>2, <2>3
<1>9. SoftmaxOK(h)
  <2> SUFFICES ASSUME NEW d \in DOMAIN h, Softmax \in h[d].marks
               PROVE  /\ h[d].op = "divide"
                      /\ LET b == h[d].args[2]
                             s == h[b].args[1]
                         IN  /\ h[b].op = "broadcast" /\ h[s].op = "reduce"
                             /\ h[s].args[1] = h[d].args[1]
                             /\ h[s].shape # h[b].shape
    BY DEF SoftmaxOK
  <2> DEFINE b == g[d].args[2]
             s == g[b].args[1]
  <2>1. d \in DOMAIN g
    BY <1>2
  <2>2. /\ g[d].op = "divide" /\ g[b].op = "broadcast" /\ g[s].op = "reduce"
        /\ g[s].args[1] = g[d].args[1] /\ g[s].shape # g[b].shape
    <3>1. CASE Softmax \in g[d].marks
      BY <2>1, <3>1 DEF GraphOK, SoftmaxOK
    <3>2. CASE Softmax \notin g[d].marks
      <4>1. d = v /\ m = Softmax
        BY <1>1, <2>1, <3>2
      <4> QED BY <4>1 DEF MarkFits
    <3> QED BY <3>1, <3>2
  <2>3. b \in DOMAIN g
    BY <2>1, <2>2, BinaryOperands DEF BinaryOps
  <2>4. s \in DOMAIN g
    BY <2>2, <2>3, UnaryOperand DEF UnaryOps
  <2>5. h[d].args[2] = b /\ h[b].args[1] = s /\ h[d].args[1] = g[d].args[1]
    BY <1>2, <2>1, <2>3
  <2> HIDE DEF b, s
  <2> QED BY <1>2, <2>1, <2>2, <2>3, <2>4, <2>5, SMTT(30)
<1>10. AttentionOK(h)
  <2>1. ASSUME NEW u \in DOMAIN h, Attends \in h[u].marks
        PROVE  /\ h[u].op = "dot_general"
               /\ h[h[u].args[1]].op = "divide" /\ Softmax \in h[h[u].args[1]].marks
               /\ \E s \in DOMAIN h : h[s].op = "dot_general" /\ s < u
    <3> DEFINE d == g[u].args[1]
    <3>1. u \in DOMAIN g
      BY <1>2
    <3>2. /\ g[u].op = "dot_general" /\ g[d].op = "divide" /\ Softmax \in g[d].marks
          /\ \E s \in DOMAIN g : g[s].op = "dot_general" /\ s < u
      <4>1. CASE Attends \in g[u].marks
        BY <3>1, <4>1 DEF GraphOK, AttentionOK
      <4>2. CASE Attends \notin g[u].marks
        <5>1. u = v /\ m = Attends
          BY <1>1, <2>1, <3>1, <4>2
        <5> QED BY <5>1 DEF MarkFits
      <4> QED BY <4>1, <4>2
    <3>3. d \in DOMAIN g
      BY <3>1, <3>2, BinaryOperands DEF BinaryOps
    <3>4. h[u].args[1] = d /\ Softmax \in h[d].marks
      BY <1>1, <1>2, <3>1, <3>2, <3>3
    <3> HIDE DEF d
    <3> QED BY <1>2, <3>1, <3>2, <3>3, <3>4
  <2>2. ASSUME NEW u \in DOMAIN h, Flash \in h[u].marks PROVE Attends \in h[u].marks
    <3>1. u \in DOMAIN g
      BY <1>2
    <3>2. Attends \in g[u].marks
      <4>1. CASE Flash \in g[u].marks
        BY <3>1, <4>1 DEF GraphOK, AttentionOK
      <4>2. CASE Flash \notin g[u].marks
        <5>1. u = v /\ m = Flash
          BY <1>1, <2>2, <3>1, <4>2
        <5> QED BY <5>1 DEF MarkFits
      <4> QED BY <4>1, <4>2
    <3> QED BY <1>1, <3>1, <3>2
  <2> QED BY <2>1, <2>2 DEF AttentionOK
<1>11. DotsLive(g, r) => DotsLive(h, r)
  <2> SUFFICES ASSUME NEW L, Supported(g, r, L), Dots(g) \subseteq L
               PROVE  Supported(h, r, L) /\ Dots(h) \subseteq L
    BY DEF DotsLive
  <2>1. Supported(h, r, L)
    BY <1>2, <1>5 DEF Supported
  <2>2. Dots(h) = Dots(g)
    BY <1>2 DEF Dots
  <2> QED BY <2>1, <2>2
<1> QED BY <1>3, <1>4, <1>6, <1>8, <1>9, <1>10, <1>11 DEF GraphOK

LEMMA MarkTotals ==
  ASSUME NEW g, NEW r, GraphOK(g, r), NEW v \in DOMAIN g, NEW m, NEW h,
         Remarked(g, h, v, m), m # Softmax
  PROVE  SameTotals(g, h)
<1> SUFFICES ASSUME NEW d \in DOMAIN h, Softmax \in h[d].marks
             PROVE  /\ d \in DOMAIN g /\ Softmax \in g[d].marks
                    /\ Total(h, d) = Total(g, d)
                    /\ h[Total(g, d)].attr = g[Total(g, d)].attr
  BY DEF SameTotals
<1>1. /\ DOMAIN h = DOMAIN g
      /\ \A u \in DOMAIN g : h[u].args = g[u].args /\ h[u].attr = g[u].attr
      /\ h[d].marks = g[d].marks \cup IF d = v THEN {m} ELSE {}
  BY DEF Remarked
<1>2. Softmax \in g[d].marks
  BY <1>1
<1>3. g[d].op = "divide" /\ g[g[d].args[2]].op = "broadcast"
  BY <1>1, <1>2 DEF GraphOK, SoftmaxOK
<1>4. g[d].args[2] \in DOMAIN g /\ Total(g, d) \in DOMAIN g
  BY <1>1, <1>3, DividesWithin
<1> QED BY <1>1, <1>2, <1>4 DEF Total

LEMMA MarkEarly ==
  ASSUME NEW g, NEW h, NEW v, NEW m, Remarked(g, h, v, m), m \notin Kept, Early(g)
  PROVE  Early(h)
<1>2. ASSUME NEW u \in DOMAIN h PROVE h[u].marks \cap Kept = {}
  <2>1. u \in DOMAIN g /\ h[u].marks = g[u].marks \cup IF u = v THEN {m} ELSE {}
    BY DEF Remarked
  <2> QED BY <2>1 DEF Early
<1> QED BY <1>2 DEF Early

-----------------------------------------------------------------------------
(***************************************************************************)
(* The rewriter's edits are replacements.                                  *)
(***************************************************************************)
LEMMA TopFresh ==
  ASSUME GraphOK(graph, ret), NEW old \in DOMAIN graph
  PROVE  /\ Fresh(0) \in Nat /\ \A v \in DOMAIN graph : v <= Fresh(0)
         /\ \A i \in Nat : Fresh(i) = Fresh(0) + i
<1> DEFINE top == CHOOSE m \in DOMAIN graph : \A n \in DOMAIN graph : n <= m
<1>1. DOMAIN graph \subseteq Nat
  BY DEF GraphOK, Numbered
<1>2. PICK n \in Nat : \A v \in DOMAIN graph : v <= n
  BY DEF GraphOK, Numbered
<1>3. \E m \in DOMAIN graph : \A v \in DOMAIN graph : v <= m
  BY <1>1, <1>2, Greatest
<1>4. top \in DOMAIN graph /\ \A v \in DOMAIN graph : v <= top
  BY <1>3
<1>5. \A i : Fresh(i) = i + top
  BY DEF Fresh
<1> HIDE DEF top
<1> QED BY <1>1, <1>4, <1>5

LEMMA NoOldInNew ==
  ASSUME GraphOK(graph, ret), NEW old \in DOMAIN graph, NEW new, NEW i \in Nat,
         NEW n, Creatable(graph, old, Fresh(0), i, n)
  PROVE  [n EXCEPT !.args = Rename(@, old, new)] = n
<1> DEFINE s == n.args
           T == Below(graph, old) \cup (Fresh(0) + 1)..(Fresh(0) + i - 1)
<1>1. s \in Seq(T)
  BY DEF Creatable
<1>2. old \notin T
  <2>1. old \notin Below(graph, old)
    BY NotBelowItself
  <2>2. old <= Fresh(0) /\ Fresh(0) \in Nat /\ old \in Nat
    BY TopFresh DEF GraphOK, Numbered
  <2> QED BY <2>1, <2>2
<1> HIDE DEF T
<1>3. s = [j \in DOMAIN s |-> s[j]] /\ \A j \in DOMAIN s : s[j] # old
  BY <1>1, <1>2, ElementOfSequence
<1> HIDE DEF s
<1>4. Rename(s, old, new) = s
  BY <1>3 DEF Rename
<1>5. n = Node(n.op, s, n.attr, n.shape, n.marks)
  BY DEF Creatable, s
<1>6. Rename(n.args, old, new) = n.args
  BY <1>4 DEF s
<1> QED BY <1>5, <1>6 DEF Node, s

LEMMA ReplaceOpReplaces ==
  ASSUME GraphOK(graph, ret), NEW old, NEW created,
         DOMAIN created = 1..Len(created),
         Replacement(graph, old, Fresh(Len(created)), created, Fresh(0))
  PROVE  Replaces(graph, ret, ReplaceOp(old, created).g, ReplaceOp(old, created).r,
                  old, Fresh(Len(created)), created, Fresh(0))
<1> DEFINE new == Fresh(Len(created))
           top == Fresh(0)
           all == [n \in DOMAIN graph \cup {Fresh(i) : i \in DOMAIN created} |->
                     IF n \in DOMAIN graph THEN graph[n] ELSE created[n - Fresh(0)]]
           h == [n \in DOMAIN all \ {old} |->
                   [all[n] EXCEPT !.args = Rename(@, old, new)]]
<1>1. ReplaceOp(old, created).g = h /\ ReplaceOp(old, created).r = Rename(ret, old, new)
  BY DEF ReplaceOp
<1>2. /\ old \in DOMAIN graph /\ top \in Nat /\ Len(created) \in Nat
      /\ DOMAIN graph \subseteq Nat /\ \A v \in DOMAIN graph : v <= top
      /\ \A i \in 1..Len(created) : Creatable(graph, old, top, i, created[i])
  BY DEF Replacement, GraphOK, Numbered
<1>3. \A i \in Nat : Fresh(i) = top + i
  BY <1>2, TopFresh
<1> HIDE DEF top, new
<1>4. DOMAIN all = DOMAIN graph \cup {top + i : i \in 1..Len(created)}
  BY <1>3
<1>5. ASSUME NEW i \in 1..Len(created)
      PROVE  top + i \notin DOMAIN graph /\ (top + i) - top = i /\ top + i # old
  BY <1>2
<1>6. \A i \in 1..Len(created) : all[top + i] = created[i]
  <2> SUFFICES ASSUME NEW i \in 1..Len(created) PROVE all[top + i] = created[i]
    OBVIOUS
  <2>1. top + i \in DOMAIN all
    BY <1>4
  <2>2. all[top + i] = created[(top + i) - top]
    BY <1>5, <2>1 DEF top
  <2> HIDE DEF all
  <2> QED BY <1>5, <2>2
<1>7. \A v \in DOMAIN graph : all[v] = graph[v]
  OBVIOUS
<1> HIDE DEF all
<1>8. DOMAIN h = (DOMAIN graph \ {old}) \cup {top + i : i \in 1..Len(created)}
  BY <1>4, <1>5
<1>9. \A v \in DOMAIN h : h[v] = [all[v] EXCEPT !.args = Rename(@, old, new)]
  OBVIOUS
<1> HIDE DEF h
<1>10. ASSUME NEW v \in DOMAIN graph \ {old}
       PROVE  h[v] = Node(graph[v].op, Rename(graph[v].args, old, new), graph[v].attr,
                          graph[v].shape, graph[v].marks)
  <2>1. v \in DOMAIN h /\ all[v] = graph[v]
    BY <1>7, <1>8
  <2>2. h[v] = [graph[v] EXCEPT !.args = Rename(@, old, new)]
    BY <1>9, <2>1
  <2>3. graph[v] = Node(graph[v].op, graph[v].args, graph[v].attr, graph[v].shape,
                        graph[v].marks)
    BY DEF GraphOK, NodesOK
  <2> QED BY <2>2, <2>3 DEF Node
<1>11. ASSUME NEW i \in 1..Len(created) PROVE h[top + i] = created[i]
  <2>1. top + i \in DOMAIN h
    BY <1>8
  <2>2. h[top + i] = [created[i] EXCEPT !.args = Rename(@, old, new)]
    BY <1>6, <1>9, <2>1
  <2>3. Creatable(graph, old, Fresh(0), i, created[i]) /\ i \in Nat
    BY <1>2 DEF top
  <2>4. [created[i] EXCEPT !.args = Rename(@, old, new)] = created[i]
    BY <1>2, <2>3, NoOldInNew
  <2> QED BY <2>2, <2>4
<1>12. Edited(graph, ret, h, Rename(ret, old, new), old, new, created, top)
  BY <1>8, <1>10, <1>11 DEF Edited
<1> QED BY <1>1, <1>12 DEF Replaces, top, new

LEMMA ReplaceByReplaces ==
  ASSUME GraphOK(graph, ret), NEW old, NEW new,
         Replacement(graph, old, new, <<>>, Fresh(0))
  PROVE  Replaces(graph, ret, ReplaceBy(old, new).g, ReplaceBy(old, new).r,
                  old, new, <<>>, Fresh(0))
<1> DEFINE h == [n \in DOMAIN graph \ {old} |->
                   [graph[n] EXCEPT !.args = Rename(@, old, new)]]
<1>1. ReplaceBy(old, new).g = h /\ ReplaceBy(old, new).r = Rename(ret, old, new)
  BY DEF ReplaceBy
<1>2. 1..Len(<<>>) = {}
  OBVIOUS
<1>3. DOMAIN h = (DOMAIN graph \ {old}) \cup {Fresh(0) + i : i \in 1..Len(<<>>)}
  BY <1>2
<1>4. ASSUME NEW v \in DOMAIN graph \ {old}
      PROVE  h[v] = Node(graph[v].op, Rename(graph[v].args, old, new), graph[v].attr,
                         graph[v].shape, graph[v].marks)
  <2>1. graph[v] = Node(graph[v].op, graph[v].args, graph[v].attr, graph[v].shape,
                        graph[v].marks)
    BY DEF GraphOK, NodesOK
  <2>2. h[v] = [graph[v] EXCEPT !.args = Rename(@, old, new)]
    OBVIOUS
  <2> QED BY <2>1, <2>2 DEF Node
<1> HIDE DEF h
<1>5. Edited(graph, ret, h, Rename(ret, old, new), old, new, <<>>, Fresh(0))
  BY <1>2, <1>3, <1>4 DEF Edited
<1> QED BY <1>1, <1>5 DEF Replaces

LEMMA SameTotalsTransitive ==
  ASSUME NEW g, NEW h, NEW k, SameTotals(g, h), SameTotals(h, k)
  PROVE  SameTotals(g, k)
<1> SUFFICES ASSUME NEW d \in DOMAIN k, Softmax \in k[d].marks
             PROVE  /\ d \in DOMAIN g /\ Softmax \in g[d].marks
                    /\ Total(k, d) = Total(g, d)
                    /\ k[Total(g, d)].attr = g[Total(g, d)].attr
  BY DEF SameTotals
<1>1. /\ d \in DOMAIN h /\ Softmax \in h[d].marks
      /\ Total(k, d) = Total(h, d) /\ k[Total(h, d)].attr = h[Total(h, d)].attr
  BY DEF SameTotals
<1>2. /\ d \in DOMAIN g /\ Softmax \in g[d].marks
      /\ Total(h, d) = Total(g, d) /\ h[Total(g, d)].attr = g[Total(g, d)].attr
  BY <1>1 DEF SameTotals
<1> QED BY <1>1, <1>2

\* Erasing what is left without a use after a rewrite.
LEMMA EraseIfUnusedKeeps ==
  ASSUME NEW g, NEW r, NEW e, Keeps(g, r, e.g, e.r), NEW x, x \notin Dots(e.g),
         e = [g |-> e.g, r |-> e.r]
  PROVE  Keeps(g, r, EraseIfUnused(e, x).g, EraseIfUnused(e, x).r)
<1>1. CASE Uses(e.g, e.r, x) = {}
  <2> DEFINE h == [n \in DOMAIN e.g \ {x} |-> e.g[n]]
  <2>1. EraseIfUnused(e, x).g = h /\ EraseIfUnused(e, x).r = e.r
    BY <1>1 DEF EraseIfUnused, EraseOp
  <2>2. Unused(e.g, e.r, x) /\ GraphOK(e.g, e.r)
    BY <1>1, NoUses DEF Keeps
  <2>3. Keeps(e.g, e.r, h, e.r)
    BY <2>2, EraseKeeps
  <2> HIDE DEF h
  <2>4. SameTotals(g, h)
    BY <2>3, SameTotalsTransitive DEF Keeps
  <2> QED BY <2>1, <2>3, <2>4 DEF Keeps
<1>2. CASE Uses(e.g, e.r, x) # {}
  BY <1>2 DEF EraseIfUnused
<1> QED BY <1>1, <1>2

-----------------------------------------------------------------------------
(***************************************************************************)
(* Before any softmax is marked: no edit of the first passes makes a       *)
(* divide by a broadcast reduction that was not there, because none of     *)
(* them puts a broadcast or a reduction in the place of another op.        *)
(***************************************************************************)
Divides(g, d) ==
  /\ g[d].op = "divide" /\ g[g[d].args[2]].op = "broadcast"
  /\ g[Total(g, d)].op = "reduce"

OldTotals(g, h) ==
  \A d \in DOMAIN h : Divides(h, d) =>
    /\ d \in DOMAIN g /\ Divides(g, d)
    /\ Total(h, d) = Total(g, d) /\ h[Total(g, d)].attr = g[Total(g, d)].attr

LEMMA OldTotalsTransitive ==
  ASSUME NEW g, NEW h, NEW k, OldTotals(g, h), OldTotals(h, k)
  PROVE  OldTotals(g, k)
<1> SUFFICES ASSUME NEW d \in DOMAIN k, Divides(k, d)
             PROVE  /\ d \in DOMAIN g /\ Divides(g, d)
                    /\ Total(k, d) = Total(g, d)
                    /\ k[Total(g, d)].attr = g[Total(g, d)].attr
  BY DEF OldTotals
<1>1. /\ d \in DOMAIN h /\ Divides(h, d)
      /\ Total(k, d) = Total(h, d) /\ k[Total(h, d)].attr = h[Total(h, d)].attr
  BY DEF OldTotals
<1>2. /\ d \in DOMAIN g /\ Divides(g, d)
      /\ Total(h, d) = Total(g, d) /\ h[Total(g, d)].attr = g[Total(g, d)].attr
  BY <1>1 DEF OldTotals
<1> QED BY <1>1, <1>2

LEMMA ReplaceTotals ==
  ASSUME NEW g, NEW r, NEW h, NEW t, NEW old, NEW new, NEW created, NEW top,
         Replaces(g, r, h, t, old, new, created, top),
         h[new].op \notin {"broadcast", "reduce"}
  PROVE  OldTotals(g, h)
<1> SUFFICES ASSUME NEW d \in DOMAIN h, Divides(h, d)
             PROVE  /\ d \in DOMAIN g /\ Divides(g, d)
                    /\ Total(h, d) = Total(g, d)
                    /\ h[Total(g, d)].attr = g[Total(g, d)].attr
  BY DEF OldTotals
<1> DEFINE b == g[d].args[2]
           s == g[b].args[1]
<1>1. /\ h[d].op = "divide" /\ h[h[d].args[2]].op = "broadcast"
      /\ h[h[h[d].args[2]].args[1]].op = "reduce"
  BY DEF Divides, Total
<1>2. GraphOK(g, r)
  BY DEF Replaces
<1>3. d \in DOMAIN g \ {old}
  <2>1. ASSUME NEW i \in 1..Len(created), d = top + i PROVE FALSE
    <3>1. h[d] = created[i] /\ Creatable(g, old, top, i, created[i])
      BY <2>1, CreatedOp
    <3> QED BY <1>1, <3>1 DEF Creatable, Fixed
  <2> QED BY <2>1, EditedOps
<1>4. g[d].op = "divide"
  BY <1>1, <1>3, OldOp DEF SameOp
<1>5. DOMAIN g[d].args = {1, 2} /\ b \in DOMAIN g
  BY <1>2, <1>3, <1>4, BinaryOperands DEF BinaryOps
<1>6. b # old /\ h[d].args[2] = b
  <2>1. Renamed(h[d].args, g[d].args, DOMAIN g, old, new)
    BY <1>3, OldOp
  <2>2. h[d].args[2] = IF b = old THEN new ELSE b
    BY <1>5, <2>1 DEF Renamed
  <2> QED BY <1>1, <2>2
<1>7. h[b].op = "broadcast" /\ g[b].op = "broadcast"
  <2>1. SameOp(h[b], g[b])
    BY <1>5, <1>6, OldOp
  <2> QED BY <1>1, <1>6, <2>1 DEF SameOp
<1>8. DOMAIN g[b].args = {1} /\ s \in DOMAIN g
  BY <1>2, <1>5, <1>7, UnaryOperand DEF UnaryOps
<1>9. s # old /\ h[b].args[1] = s
  <2>1. Renamed(h[b].args, g[b].args, DOMAIN g, old, new)
    BY <1>5, <1>6, OldOp
  <2>2. h[b].args[1] = IF s = old THEN new ELSE s
    BY <1>8, <2>1 DEF Renamed
  <2>3. h[h[b].args[1]].op = "reduce"
    BY <1>1, <1>6
  <2> QED BY <2>2, <2>3
<1>10. h[s].op = "reduce" /\ g[s].op = "reduce" /\ h[s].attr = g[s].attr
  <2>1. SameOp(h[s], g[s])
    BY <1>8, <1>9, OldOp
  <2> QED BY <1>1, <1>6, <1>9, <2>1 DEF SameOp
<1>11. Total(g, d) = s /\ Total(h, d) = s
  BY <1>6, <1>9 DEF Total
<1>12. Divides(g, d)
  BY <1>4, <1>7, <1>10, <1>11 DEF Divides
<1> HIDE DEF b, s
<1> QED BY <1>3, <1>10, <1>11, <1>12

LEMMA EraseTotals ==
  ASSUME NEW g, NEW r, NEW x, NEW h, GraphOK(h, r),
         h = [v \in DOMAIN g \ {x} |-> g[v]]
  PROVE  OldTotals(g, h)
<1> SUFFICES ASSUME NEW d \in DOMAIN h, Divides(h, d)
             PROVE  /\ d \in DOMAIN g /\ Divides(g, d)
                    /\ Total(h, d) = Total(g, d)
                    /\ h[Total(g, d)].attr = g[Total(g, d)].attr
  BY DEF OldTotals
<1>1. \A v \in DOMAIN h : v \in DOMAIN g /\ h[v] = g[v]
  OBVIOUS
<1>2. h[d].op = "divide" /\ h[h[d].args[2]].op = "broadcast"
  BY DEF Divides
<1>3. h[d].args[2] \in DOMAIN h /\ Total(h, d) \in DOMAIN h
  BY <1>2, DividesWithin
<1>4. /\ h[d] = g[d] /\ d \in DOMAIN g
      /\ h[h[d].args[2]] = g[h[d].args[2]] /\ h[Total(h, d)] = g[Total(h, d)]
  BY <1>1, <1>3
<1>5. Total(h, d) = Total(g, d)
  BY <1>4 DEF Total
<1> QED BY <1>4, <1>5 DEF Divides

LEMMA EraseIfUnusedTotals ==
  ASSUME NEW g, NEW e, GraphOK(e.g, e.r), OldTotals(g, e.g), NEW x,
         e = [g |-> e.g, r |-> e.r], x \notin Dots(e.g)
  PROVE  OldTotals(g, EraseIfUnused(e, x).g)
<1>1. CASE Uses(e.g, e.r, x) = {}
  <2> DEFINE h == [n \in DOMAIN e.g \ {x} |-> e.g[n]]
  <2>1. EraseIfUnused(e, x).g = h
    BY <1>1 DEF EraseIfUnused, EraseOp
  <2>2. Unused(e.g, e.r, x)
    BY <1>1, NoUses
  <2>3. GraphOK(h, e.r)
    BY <2>2, EraseKeeps DEF Keeps
  <2>4. OldTotals(e.g, h)
    BY <2>3, EraseTotals
  <2> HIDE DEF h
  <2> QED BY <2>1, <2>4, OldTotalsTransitive
<1>2. CASE Uses(e.g, e.r, x) # {}
  BY <1>2 DEF EraseIfUnused
<1> QED BY <1>1, <1>2

LEMMA RemarkedTotals ==
  ASSUME NEW g, NEW r, GraphOK(g, r), NEW v, NEW m, NEW h, GraphOK(h, r),
         Remarked(g, h, v, m)
  PROVE  OldTotals(g, h)
<1> SUFFICES ASSUME NEW d \in DOMAIN h, Divides(h, d)
             PROVE  /\ d \in DOMAIN g /\ Divides(g, d)
                    /\ Total(h, d) = Total(g, d)
                    /\ h[Total(g, d)].attr = g[Total(g, d)].attr
  BY DEF OldTotals
<1>1. /\ DOMAIN h = DOMAIN g
      /\ \A u \in DOMAIN g : /\ h[u].args = g[u].args /\ h[u].attr = g[u].attr
                             /\ h[u].op = g[u].op
  BY DEF Remarked
<1>2. h[d].op = "divide" /\ h[h[d].args[2]].op = "broadcast"
  BY DEF Divides
<1>3. h[d].args[2] \in DOMAIN h /\ Total(h, d) \in DOMAIN h
  BY <1>2, DividesWithin
<1>4. Total(h, d) = Total(g, d)
  BY <1>1, <1>3 DEF Total
<1> QED BY <1>1, <1>3, <1>4 DEF Divides

\* A node whose operands are there rests on what the op it stands for rests on.
LEMMA Creating ==
  ASSUME NEW g, NEW old, NEW top \in Nat, NEW i \in Nat,
         NEW name, NEW args, NEW attr, NEW shape, NEW marks,
         Arity(Node(name, args, attr, shape, marks)),
         name \notin Fixed, marks \cap Kept = {},
         args \in Seq(Below(g, old) \cup (top + 1)..(top + i - 1))
  PROVE  Creatable(g, old, top, i, Node(name, args, attr, shape, marks))
BY DEF Creatable, Node

-----------------------------------------------------------------------------
(***************************************************************************)
(* What the graphs compute. The denotation of a graph without cycles is    *)
(* the one solution of its equations; a replacement changes no value but   *)
(* through the op that is replaced.                                        *)
(***************************************************************************)
\* Every operand exists, and comes before its use in some order.
Sound(g, r) == Closed(g, r) /\ Ranks(g) # {}

LEMMA Least ==
  ASSUME NEW S, S # {}, NEW rank, \A v \in S : rank[v] \in Nat
  PROVE  \E m \in S : \A v \in S : rank[m] <= rank[v]
<1> DEFINE R == OpToRel(<, Nat)
           T == {rank[v] : v \in S}
<1>1. IsWellFoundedOn(R, Nat)
  BY NatLessThanWellFounded, Zenon
<1>2. \A x, y \in Nat : x < y => <<x, y>> \in R
  BY Zenon DEF OpToRel
<1> HIDE DEF R
<1>3. T \subseteq Nat /\ T # {}
  OBVIOUS
<1> HIDE DEF T
<1>4. PICK k \in T : \A j \in T : ~(<<j, k>> \in R)
  BY <1>1, <1>3, WFMin, Zenon
<1>5. PICK m \in S : rank[m] = k
  BY <1>4 DEF T
<1>6. ASSUME NEW v \in S, ~(rank[m] <= rank[v]) PROVE FALSE
  <2>1. rank[v] \in T /\ rank[v] \in Nat /\ k \in Nat
    BY <1>3, <1>4 DEF T
  <2>2. rank[v] < k
    BY <1>5, <1>6, <2>1
  <2> QED BY <1>2, <1>4, <2>1, <2>2
<1> QED BY <1>6

\* What v computes from the values f of its operands.
MeaningIn(g, f, v) ==
  Meaning(g[v], [i \in DOMAIN g[v].args |-> f[g[v].args[i]]],
          [i \in DOMAIN g[v].args |-> g[g[v].args[i]].shape])

LEMMA DenotationIs ==
  ASSUME NEW g, NEW f, f = [v \in DOMAIN g |-> MeaningIn(g, f, v)]
  PROVE  Denotation(g) = [v \in DOMAIN g |-> MeaningIn(g, Denotation(g), v)]
<1> DEFINE P(value) == value = [v \in DOMAIN g |-> Meaning(g[v], [i \in DOMAIN g[v].args |-> value[g[v].args[i]]],
          [i \in DOMAIN g[v].args |-> g[g[v].args[i]].shape])]
<1>1. P(f)
  BY DEF MeaningIn
<1>2. P(CHOOSE value : P(value))
  <2> HIDE DEF P
  <2> QED BY <1>1
<1>3. Denotation(g) = CHOOSE value : P(value)
  BY DEF Denotation
<1> QED BY <1>2, <1>3 DEF MeaningIn

\* f is what the ops of a rank below n compute.
ValuesBelow(g, rank, n, f) ==
  /\ DOMAIN f = {v \in DOMAIN g : rank[v] < n}
  /\ \A v \in DOMAIN f : f[v] = MeaningIn(g, f, v)

LEMMA SameMeaning ==
  ASSUME NEW g, NEW v, NEW e, NEW f,
         \A i \in DOMAIN g[v].args : e[g[v].args[i]] = f[g[v].args[i]]
  PROVE  MeaningIn(g, e, v) = MeaningIn(g, f, v)
<1>1. [i \in DOMAIN g[v].args |-> e[g[v].args[i]]]
        = [i \in DOMAIN g[v].args |-> f[g[v].args[i]]]
  OBVIOUS
<1> QED BY <1>1 DEF MeaningIn

LEMMA RankedArg ==
  ASSUME NEW g, NEW r, Sound(g, r), NEW rank \in Ranks(g), NEW v \in DOMAIN g,
         NEW i \in DOMAIN g[v].args
  PROVE  /\ g[v].args[i] \in DOMAIN g
         /\ rank[g[v].args[i]] < rank[v]
         /\ rank[g[v].args[i]] \in Nat /\ rank[v] \in Nat
<1>1. g[v].args[i] \in DOMAIN g
  BY ElementOfSequence DEF Sound, Closed
<1>2. g[v].args[i] \in ArgsOf(g, v)
  BY DEF ArgsOf
<1> QED BY <1>1, <1>2 DEF Ranks

LEMMA ValuesAgree ==
  ASSUME NEW g, NEW r, Sound(g, r), NEW rank \in Ranks(g), NEW n \in Nat, NEW k \in Nat,
         NEW e, ValuesBelow(g, rank, n, e), NEW f, ValuesBelow(g, rank, k, f)
  PROVE  \A v \in DOMAIN e \cap DOMAIN f : e[v] = f[v]
<1> DEFINE S == {v \in DOMAIN e \cap DOMAIN f : e[v] # f[v]}
<1> SUFFICES ASSUME S # {} PROVE FALSE
  OBVIOUS
<1>1. \A v \in S : v \in DOMAIN g /\ rank[v] \in Nat
  BY DEF ValuesBelow, Ranks
<1>2. PICK v \in S : \A u \in S : rank[v] <= rank[u]
  <2> HIDE DEF S
  <2> QED BY <1>1, Least
<1>3. v \in DOMAIN g /\ rank[v] < n /\ rank[v] < k /\ rank[v] \in Nat
  BY <1>1 DEF ValuesBelow
<1>4. ASSUME NEW i \in DOMAIN g[v].args
      PROVE  e[g[v].args[i]] = f[g[v].args[i]]
  <2> DEFINE u == g[v].args[i]
  <2>1. u \in DOMAIN g /\ rank[u] < rank[v] /\ rank[u] \in Nat
    BY <1>3, RankedArg
  <2> HIDE DEF u
  <2>2. rank[u] < n /\ rank[u] < k /\ ~(rank[v] <= rank[u])
    BY <1>3, <2>1
  <2>3. u \in DOMAIN e /\ u \in DOMAIN f
    BY <2>1, <2>2 DEF ValuesBelow
  <2>4. u \notin S
    BY <1>2, <2>2
  <2>5. e[u] = f[u]
    BY <2>3, <2>4
  <2> QED BY <2>5 DEF u
<1>5. MeaningIn(g, e, v) = MeaningIn(g, f, v)
  BY <1>4, SameMeaning
<1>6. e[v] = MeaningIn(g, e, v) /\ f[v] = MeaningIn(g, f, v)
  BY DEF ValuesBelow
<1> QED BY <1>5, <1>6

LEMMA ValuesExist ==
  ASSUME NEW g, NEW r, Sound(g, r), NEW rank \in Ranks(g), NEW n \in Nat
  PROVE  \E f : ValuesBelow(g, rank, n, f)
<1> DEFINE S == {k \in Nat : ~ \E f : ValuesBelow(g, rank, k, f)}
           id == [k \in Nat |-> k]
<1> SUFFICES ASSUME S # {} PROVE FALSE
  OBVIOUS
<1>1. PICK k \in S : \A j \in S : k <= j
  <2>1. \A j \in S : id[j] \in Nat
    OBVIOUS
  <2>2. \E m \in S : \A j \in S : id[m] <= id[j]
    <3> HIDE DEF S, id
    <3> QED BY <2>1, Least
  <2> QED BY <2>2
<1>2. \A v \in DOMAIN g : rank[v] \in Nat
  BY DEF Ranks
<1>3. CASE k = 0
  <2>1. {v \in DOMAIN g : rank[v] < 0} = {}
    BY <1>2
  <2>2. ValuesBelow(g, rank, 0, [v \in {} |-> v])
    BY <2>1 DEF ValuesBelow
  <2> QED BY <1>3, <2>2
<1>4. CASE k # 0
  <2>1. k - 1 \in Nat /\ k \in Nat /\ ~(k <= k - 1)
    BY <1>4
  <2>2. k - 1 \notin S
    BY <1>1, <2>1
  <2>3. PICK e : ValuesBelow(g, rank, k - 1, e)
    BY <2>1, <2>2
  <2> DEFINE f == [v \in {v \in DOMAIN g : rank[v] < k} |-> MeaningIn(g, e, v)]
  <2>4. DOMAIN f = {v \in DOMAIN g : rank[v] < k}
    OBVIOUS
  <2>5. \A v \in DOMAIN f : f[v] = MeaningIn(g, e, v)
    OBVIOUS
  <2> HIDE DEF f
  <2>6. ASSUME NEW v \in DOMAIN e PROVE v \in DOMAIN f /\ f[v] = e[v]
    <3>1. v \in DOMAIN g /\ rank[v] < k - 1 /\ rank[v] \in Nat
      BY <1>2, <2>3 DEF ValuesBelow
    <3>2. v \in DOMAIN f
      BY <2>1, <2>4, <3>1
    <3> QED BY <2>3, <2>5, <3>2 DEF ValuesBelow
  <2>7. ASSUME NEW v \in DOMAIN f PROVE f[v] = MeaningIn(g, f, v)
    <3>1. v \in DOMAIN g /\ rank[v] < k
      BY <2>4
    <3>2. ASSUME NEW i \in DOMAIN g[v].args PROVE e[g[v].args[i]] = f[g[v].args[i]]
      <4> DEFINE u == g[v].args[i]
      <4>1. u \in DOMAIN g /\ rank[u] < rank[v] /\ rank[u] \in Nat /\ rank[v] \in Nat
        BY <3>1, RankedArg
      <4> HIDE DEF u
      <4>2. rank[u] < k - 1
        BY <2>1, <3>1, <4>1
      <4>3. u \in DOMAIN e
        BY <2>3, <4>1, <4>2 DEF ValuesBelow
      <4> QED BY <2>6, <4>3 DEF u
    <3>3. MeaningIn(g, e, v) = MeaningIn(g, f, v)
      BY <3>2, SameMeaning
    <3> QED BY <2>5, <3>3
  <2>8. ValuesBelow(g, rank, k, f)
    BY <2>4, <2>7 DEF ValuesBelow
  <2> QED BY <2>8
<1> QED BY <1>3, <1>4

\* The denotation of a graph without cycles satisfies its equations.
LEMMA DenotationHolds ==
  ASSUME NEW g, NEW r, Sound(g, r), NEW v \in DOMAIN g
  PROVE  Denotation(g)[v] = MeaningIn(g, Denotation(g), v)
<1>1. PICK rank \in Ranks(g) : TRUE
  BY DEF Sound
<1> DEFINE below(n) == CHOOSE f : ValuesBelow(g, rank, n, f)
           f == [u \in DOMAIN g |-> below(rank[u] + 1)[u]]
<1>2. \A n \in Nat : ValuesBelow(g, rank, n, below(n))
  BY ValuesExist
<1>3. \A u \in DOMAIN g : rank[u] \in Nat
  BY <1>1 DEF Ranks
<1>4. ASSUME NEW u \in DOMAIN g PROVE f[u] = MeaningIn(g, f, u)
  <2> DEFINE e == below(rank[u] + 1)
  <2>1. rank[u] + 1 \in Nat /\ rank[u] < rank[u] + 1
    BY <1>3
  <2>2. ValuesBelow(g, rank, rank[u] + 1, e)
    BY <1>2, <2>1
  <2>3. u \in DOMAIN e /\ f[u] = e[u] /\ e[u] = MeaningIn(g, e, u)
    BY <2>1, <2>2 DEF ValuesBelow
  <2>4. ASSUME NEW i \in DOMAIN g[u].args PROVE e[g[u].args[i]] = f[g[u].args[i]]
    <3> DEFINE w == g[u].args[i]
               d == below(rank[w] + 1)
    <3>1. w \in DOMAIN g /\ rank[w] < rank[u] /\ rank[w] \in Nat /\ rank[u] \in Nat
      BY RankedArg
    <3>2. f[w] = d[w]
      BY <3>1
    <3> HIDE DEF w, f
    <3>3. rank[w] + 1 \in Nat /\ rank[w] < rank[w] + 1 /\ rank[w] < rank[u] + 1
      BY <3>1
    <3>4. ValuesBelow(g, rank, rank[w] + 1, d)
      BY <1>2, <3>3
    <3> HIDE DEF d, e
    <3>5. w \in DOMAIN d /\ w \in DOMAIN e
      BY <2>2, <3>1, <3>3, <3>4 DEF ValuesBelow
    <3>6. e[w] = d[w]
      BY <2>1, <2>2, <3>3, <3>4, <3>5, ValuesAgree
    <3> QED BY <3>2, <3>6 DEF w
  <2> HIDE DEF f, e
  <2>5. MeaningIn(g, e, u) = MeaningIn(g, f, u)
    BY <2>4, SameMeaning
  <2> QED BY <2>3, <2>5
<1>5. f = [u \in DOMAIN g |-> MeaningIn(g, f, u)]
  <2>1. DOMAIN f = DOMAIN g /\ f = [u \in DOMAIN f |-> f[u]]
    OBVIOUS
  <2> HIDE DEF f
  <2> QED BY <1>4, <2>1
<1> HIDE DEF f
<1> DEFINE value == Denotation(g)
<1>6. value = [u \in DOMAIN g |-> MeaningIn(g, value, u)]
  BY <1>5, DenotationIs
<1> HIDE DEF value
<1>7. value[v] = MeaningIn(g, value, v)
  BY <1>6, Zenon
<1> QED BY <1>7 DEF value

-----------------------------------------------------------------------------
(***************************************************************************)
(* Two graphs side by side: to maps ops of g to ops of h that compute the  *)
(* same.                                                                   *)
(***************************************************************************)
CarriedOp(g, h, to, v) ==
  /\ h[to[v]].op = g[v].op /\ h[to[v]].attr = g[v].attr
  /\ h[to[v]].shape = g[v].shape
  /\ DOMAIN h[to[v]].args = DOMAIN g[v].args
  /\ \A i \in DOMAIN g[v].args :
       g[v].args[i] \in DOMAIN to /\ h[to[v]].args[i] = to[g[v].args[i]]

\* If what v rests on has its value in h, so has v.
Stands(g, h, to, v) ==
  (\A u \in DOMAIN to : u \in Below(g, v) =>
     Denotation(h)[to[u]] = Denotation(g)[u])
  => Denotation(h)[to[v]] = Denotation(g)[v]

Carries(g, h, to) ==
  \A v \in DOMAIN to :
    /\ v \in DOMAIN g /\ to[v] \in DOMAIN h /\ h[to[v]].shape = g[v].shape
    /\ CarriedOp(g, h, to, v) \/ Stands(g, h, to, v)

\* A meaning does not depend on the marks, nor on the operands' numbers.
LEMMA MeaningOfOp ==
  ASSUME NEW n, NEW m, n.op = m.op, n.attr = m.attr, n.shape = m.shape,
         NEW a, NEW from
  PROVE  Meaning(n, a, from) = Meaning(m, a, from)
BY DEF Meaning

LEMMA CarriedValue ==
  ASSUME NEW g, NEW r, Sound(g, r), NEW h, NEW t, Sound(h, t),
         NEW to, Carries(g, h, to), NEW v \in DOMAIN to, CarriedOp(g, h, to, v),
         \A i \in DOMAIN g[v].args :
           Denotation(h)[to[g[v].args[i]]] = Denotation(g)[g[v].args[i]]
  PROVE  Denotation(h)[to[v]] = Denotation(g)[v]
<1> DEFINE w == to[v]
           e == Denotation(g)
           f == Denotation(h)
           a == [i \in DOMAIN g[v].args |-> e[g[v].args[i]]]
           b == [i \in DOMAIN h[w].args |-> f[h[w].args[i]]]
           from == [i \in DOMAIN g[v].args |-> g[g[v].args[i]].shape]
           start == [i \in DOMAIN h[w].args |-> h[h[w].args[i]].shape]
<1>1. v \in DOMAIN g /\ w \in DOMAIN h
  BY DEF Carries
<1>2. e[v] = Meaning(g[v], a, from)
  BY <1>1, DenotationHolds DEF MeaningIn
<1>3. f[w] = Meaning(h[w], b, start)
  BY <1>1, DenotationHolds DEF MeaningIn
<1>4. h[w].op = g[v].op /\ h[w].attr = g[v].attr /\ h[w].shape = g[v].shape
      /\ DOMAIN h[w].args = DOMAIN g[v].args
  BY DEF CarriedOp
<1>5. \A i \in DOMAIN g[v].args :
        /\ f[h[w].args[i]] = e[g[v].args[i]]
        /\ h[h[w].args[i]].shape = g[g[v].args[i]].shape
  BY DEF CarriedOp, Carries
<1> HIDE DEF w, e, f
<1>6. a = b /\ from = start
  BY <1>4, <1>5
<1> HIDE DEF a, b, from, start
<1>7. Meaning(g[v], a, from) = Meaning(h[w], a, from)
  BY <1>4, MeaningOfOp
<1> QED BY <1>2, <1>3, <1>6, <1>7 DEF w, e, f

LEMMA CarriesValues ==
  ASSUME NEW g, NEW r, Sound(g, r), NEW h, NEW t, Sound(h, t),
         NEW to, Carries(g, h, to)
  PROVE  \A v \in DOMAIN to : Denotation(h)[to[v]] = Denotation(g)[v]
<1> DEFINE S == {v \in DOMAIN to : Denotation(h)[to[v]] # Denotation(g)[v]}
<1> SUFFICES ASSUME S # {} PROVE FALSE
  OBVIOUS
<1>1. PICK rank \in Ranks(g) : TRUE
  BY DEF Sound
<1>2. \A v \in S : rank[v] \in Nat /\ v \in DOMAIN g
  BY <1>1 DEF Carries, Ranks
<1>3. PICK v \in S : \A u \in S : rank[v] <= rank[u]
  <2> HIDE DEF S
  <2> QED BY <1>2, Least
<1>4. v \in DOMAIN g /\ rank[v] \in Nat
  BY <1>2
<1>5. ASSUME NEW u \in DOMAIN to, rank[u] < rank[v]
      PROVE  Denotation(h)[to[u]] = Denotation(g)[u]
  <2>1. rank[u] \in Nat
    BY <1>1 DEF Carries, Ranks
  <2>2. u \notin S
    BY <1>3, <1>4, <1>5, <2>1
  <2> QED BY <2>2
<1>6. CASE CarriedOp(g, h, to, v)
  <2>1. ASSUME NEW i \in DOMAIN g[v].args
        PROVE  Denotation(h)[to[g[v].args[i]]] = Denotation(g)[g[v].args[i]]
    <3>1. g[v].args[i] \in DOMAIN to
      BY <1>6 DEF CarriedOp
    <3>2. rank[g[v].args[i]] < rank[v]
      BY <1>1, <1>4, RankedArg
    <3> QED BY <1>5, <3>1, <3>2
  <2> QED BY <1>6, <2>1, CarriedValue
<1>7. CASE Stands(g, h, to, v)
  <2>1. ASSUME NEW u \in DOMAIN to, u \in Below(g, v)
        PROVE  Denotation(h)[to[u]] = Denotation(g)[u]
    <3>1. rank[u] < rank[v]
      BY <1>1, <2>1 DEF Below
    <3> QED BY <1>5, <3>1
  <2> QED BY <1>7, <2>1 DEF Stands
<1> QED BY <1>6, <1>7 DEF Carries

\* Ops that stay as they are compute what they did, whatever their marks.
LEMMA SameValues ==
  ASSUME NEW g, NEW r, Sound(g, r), NEW h, Sound(h, r),
         DOMAIN h \subseteq DOMAIN g,
         \A v \in DOMAIN h : /\ h[v].op = g[v].op /\ h[v].attr = g[v].attr
                             /\ h[v].args = g[v].args /\ h[v].shape = g[v].shape
  PROVE  /\ \A v \in DOMAIN h : Denotation(h)[v] = Denotation(g)[v]
         /\ Computes(h, r) = Computes(g, r)
<1> DEFINE to == [v \in DOMAIN h |-> v]
<1>1. DOMAIN to = DOMAIN h /\ \A v \in DOMAIN h : to[v] = v
  OBVIOUS
<1> HIDE DEF to
<1>2. ASSUME NEW v \in DOMAIN h, NEW i \in DOMAIN g[v].args
      PROVE  g[v].args[i] \in DOMAIN h
  <2>1. h[v].args \in Seq(DOMAIN h) /\ h[v].args = g[v].args
    BY DEF Sound, Closed
  <2> QED BY <2>1, ElementOfSequence
<1>3. \A v \in DOMAIN h : CarriedOp(g, h, to, v)
  BY <1>1, <1>2 DEF CarriedOp
<1>4. Carries(g, h, to)
  BY <1>1, <1>3 DEF Carries
<1>5. \A v \in DOMAIN h : Denotation(h)[v] = Denotation(g)[v]
  BY <1>1, <1>4, CarriesValues
<1>6. \A i \in DOMAIN r : Denotation(h)[r[i]] = Denotation(g)[r[i]]
  BY <1>5, ElementOfSequence DEF Sound, Closed
<1> QED BY <1>5, <1>6 DEF Computes

\* f is g as the new value is to be understood, and k what is left of h.
Stood(f, k, old, new) ==
  (\A u \in DOMAIN f \cap DOMAIN k :
     u \in Below(f, old) => Denotation(k)[u] = Denotation(f)[u])
  => Denotation(k)[new] = Denotation(f)[old]

\* A replacement by an op that computes the same changes no result.
LEMMA ReplaceValues ==
  ASSUME NEW g, NEW r, NEW h, NEW t, NEW old, NEW new, NEW created, NEW top,
         Replaces(g, r, h, t, old, new, created, top),
         NEW f, Sound(f, r), DOMAIN f = DOMAIN g, f[old].shape = g[old].shape,
         NEW k, Sound(k, t), DOMAIN k \subseteq DOMAIN h, new \in DOMAIN k,
         \A v \in DOMAIN k : k[v] = h[v],
         \A v \in DOMAIN k : v \in DOMAIN g => f[v] = g[v],
         Stood(f, k, old, new)
  PROVE  Computes(k, t) = Computes(f, r)
<1> DEFINE S == (DOMAIN f \cap DOMAIN k) \cup {old}
           to == [v \in S |-> IF v = old THEN new ELSE v]
<1>1. old \in DOMAIN g /\ GraphOK(g, r)
  BY DEF Replaces, Replacement
<1>2. old \notin DOMAIN k
  <2>1. old \notin DOMAIN h
    <3>1. \A i \in 1..Len(created) : top + i # old
      BY <1>1, EditedOps
    <3> QED BY <3>1, EditedOps
  <2> QED BY <2>1
<1>3. DOMAIN to = S /\ to[old] = new /\ \A v \in S : v # old => to[v] = v
  OBVIOUS
<1>4. \A v \in S : v = old \/ (v \in DOMAIN g \ {old} /\ v \in DOMAIN k /\ f[v] = g[v])
  BY <1>2
<1>5. old \in S /\ S \subseteq DOMAIN f
  BY <1>1
<1>6. \A v : v \in DOMAIN f /\ v \in DOMAIN k => v \in S
  OBVIOUS
<1> HIDE DEF S, to
<1>7. ASSUME NEW v \in S, v # old
      PROVE  /\ CarriedOp(f, k, to, v)
             /\ to[v] \in DOMAIN k /\ k[to[v]].shape = f[v].shape
  <2>1. v \in DOMAIN g \ {old} /\ v \in DOMAIN k /\ f[v] = g[v] /\ k[v] = h[v] /\ to[v] = v
    BY <1>3, <1>4, <1>7
  <2>2. SameOp(h[v], g[v]) /\ Renamed(h[v].args, g[v].args, DOMAIN g, old, new)
    BY <2>1, OldOp
  <2>3. ASSUME NEW i \in DOMAIN g[v].args
        PROVE  g[v].args[i] \in S /\ k[v].args[i] = to[g[v].args[i]]
    <3> DEFINE u == g[v].args[i]
    <3>1. k[v].args[i] = IF u = old THEN new ELSE u
      BY <2>1, <2>2 DEF Renamed
    <3>2. k[v].args[i] \in DOMAIN k
      <4>1. k[v].args \in Seq(DOMAIN k) /\ i \in DOMAIN k[v].args
        BY <2>1, <2>2 DEF Sound, Closed, Renamed
      <4> QED BY <4>1, ElementOfSequence
    <3>3. u \in DOMAIN f
      BY <1>1, <2>1, ArgBelow
    <3> HIDE DEF u
    <3>4. u \in S
      BY <1>5, <1>6, <3>1, <3>2, <3>3
    <3> QED BY <1>3, <3>1, <3>4 DEF u
  <2>4. CarriedOp(f, k, to, v)
    BY <1>3, <2>1, <2>2, <2>3 DEF CarriedOp, SameOp, Renamed
  <2> QED BY <2>1, <2>2, <2>4 DEF SameOp
<1>8. Stands(f, k, to, old)
  <2> SUFFICES ASSUME \A u \in S : u \in Below(f, old) =>
                        Denotation(k)[to[u]] = Denotation(f)[u]
               PROVE  Denotation(k)[new] = Denotation(f)[old]
    BY <1>3 DEF Stands
  <2>1. ASSUME NEW u \in DOMAIN f \cap DOMAIN k, u \in Below(f, old)
        PROVE  Denotation(k)[u] = Denotation(f)[u]
    <3>1. u \in S /\ u # old /\ to[u] = u
      BY <1>2, <1>3, <1>6
    <3> QED BY <2>1, <3>1
  <2> QED BY <2>1 DEF Stood
<1>9. k[new].shape = f[old].shape
  BY NewOp
<1>10. Carries(f, k, to)
  <2> SUFFICES ASSUME NEW v \in S
               PROVE  /\ v \in DOMAIN f /\ to[v] \in DOMAIN k
                      /\ k[to[v]].shape = f[v].shape
                      /\ CarriedOp(f, k, to, v) \/ Stands(f, k, to, v)
    BY <1>3 DEF Carries
  <2>1. v \in DOMAIN f
    BY <1>5
  <2>2. CASE v = old
    BY <1>3, <1>8, <1>9, <2>1, <2>2
  <2>3. CASE v # old
    BY <1>7, <2>1, <2>3
  <2> QED BY <2>2, <2>3
<1>11. \A v \in S : Denotation(k)[to[v]] = Denotation(f)[v]
  BY <1>3, <1>10, CarriesValues
<1>12. Renamed(t, r, DOMAIN g, old, new)
  BY ReplaceClosed
<1>13. ASSUME NEW i \in DOMAIN r
       PROVE  i \in DOMAIN t /\ Denotation(k)[t[i]] = Denotation(f)[r[i]]
  <2>1. i \in DOMAIN t /\ t[i] = IF r[i] = old THEN new ELSE r[i]
    BY <1>12 DEF Renamed
  <2>2. t[i] \in DOMAIN k /\ r[i] \in DOMAIN f
    BY <2>1, ElementOfSequence DEF Sound, Closed
  <2>3. r[i] \in S
    BY <1>5, <1>6, <2>1, <2>2
  <2>4. t[i] = to[r[i]]
    BY <1>3, <2>1, <2>3
  <2> QED BY <1>11, <2>1, <2>3, <2>4
<1>14. DOMAIN t = DOMAIN r
  BY <1>12 DEF Renamed
<1> QED BY <1>13, <1>14 DEF Computes

-----------------------------------------------------------------------------
(***************************************************************************)
(* What an op computes, by its name and the number of its operands.        *)
(***************************************************************************)
LEMMA NullaryValue ==
  ASSUME NEW g, NEW r, Sound(g, r), NEW v \in DOMAIN g, DOMAIN g[v].args = {}
  PROVE  Denotation(g)[v] = Meaning(g[v], <<>>, <<>>)
<1>1. /\ [i \in DOMAIN g[v].args |-> Denotation(g)[g[v].args[i]]] = <<>>
      /\ [i \in DOMAIN g[v].args |-> g[g[v].args[i]].shape] = <<>>
  OBVIOUS
<1>2. Denotation(g)[v] = MeaningIn(g, Denotation(g), v)
  BY DenotationHolds
<1> QED BY <1>1, <1>2, Zenon DEF MeaningIn

LEMMA UnaryValue ==
  ASSUME NEW g, NEW r, Sound(g, r), NEW v \in DOMAIN g, DOMAIN g[v].args = {1},
         NEW a, g[v].args[1] = a
  PROVE  Denotation(g)[v] = Meaning(g[v], <<Denotation(g)[a]>>, <<g[a].shape>>)
<1>1. /\ [i \in DOMAIN g[v].args |-> Denotation(g)[g[v].args[i]]] = <<Denotation(g)[a]>>
      /\ [i \in DOMAIN g[v].args |-> g[g[v].args[i]].shape] = <<g[a].shape>>
  OBVIOUS
<1> QED BY <1>1, DenotationHolds DEF MeaningIn

LEMMA BinaryValue ==
  ASSUME NEW g, NEW r, Sound(g, r), NEW v \in DOMAIN g, DOMAIN g[v].args = {1, 2},
         NEW a, g[v].args[1] = a, NEW b, g[v].args[2] = b
  PROVE  Denotation(g)[v] = Meaning(g[v], <<Denotation(g)[a], Denotation(g)[b]>>,
                                    <<g[a].shape, g[b].shape>>)
<1>1. /\ [i \in DOMAIN g[v].args |-> Denotation(g)[g[v].args[i]]]
           = <<Denotation(g)[a], Denotation(g)[b]>>
      /\ [i \in DOMAIN g[v].args |-> g[g[v].args[i]].shape] = <<g[a].shape, g[b].shape>>
  OBVIOUS
<1> QED BY <1>1, DenotationHolds DEF MeaningIn

LEMMA TernaryValue ==
  ASSUME NEW g, NEW r, Sound(g, r), NEW v \in DOMAIN g, DOMAIN g[v].args = {1, 2, 3},
         NEW a, g[v].args[1] = a, NEW b, g[v].args[2] = b, NEW c, g[v].args[3] = c
  PROVE  Denotation(g)[v] =
           Meaning(g[v], <<Denotation(g)[a], Denotation(g)[b], Denotation(g)[c]>>,
                   <<g[a].shape, g[b].shape, g[c].shape>>)
<1>1. /\ [i \in DOMAIN g[v].args |-> Denotation(g)[g[v].args[i]]]
           = <<Denotation(g)[a], Denotation(g)[b], Denotation(g)[c]>>
      /\ [i \in DOMAIN g[v].args |-> g[g[v].args[i]].shape]
           = <<g[a].shape, g[b].shape, g[c].shape>>
  OBVIOUS
<1>2. Denotation(g)[v] = MeaningIn(g, Denotation(g), v)
  BY DenotationHolds
<1> QED BY <1>1, <1>2, Zenon DEF MeaningIn

\* The ops whose term is not always their name, attributes and operands.
Interpreted == {"maximum", "clamp", "multiply", "add", "broadcast", "batch_norm"}

LEMMA PlainMeaning ==
  ASSUME NEW n, n.op \notin Interpreted, NEW a, NEW from
  PROVE  Meaning(n, a, from) = Term(n.op, n.attr, a)
BY DEF Meaning, Interpreted

LEMMA BroadcastMeaning ==
  ASSUME NEW n, n.op = "broadcast", NEW a, NEW from
  PROVE  Meaning(n, a, from) = Broadcast(n.attr, from[1], a[1], n.shape)
BY DEF Meaning

LEMMA MaximumMeaning ==
  ASSUME NEW n, n.op = "maximum", NEW a, NEW b, NEW from, ZeroTerm(a) \/ ZeroTerm(b)
  PROVE  Meaning(n, <<a, b>>, from) = IF ZeroTerm(b) THEN Relu(a) ELSE Relu(b)
<1> DEFINE s == <<a, b>>
<1>1. s[1] = a /\ s[2] = b /\ \E i \in 1..2 : ZeroTerm(s[i])
  OBVIOUS
<1> HIDE DEF s
<1>2. Meaning(n, s, from) = Relu(s[IF ZeroTerm(s[2]) THEN 1 ELSE 2])
  BY <1>1 DEF Meaning
<1> QED BY <1>1, <1>2 DEF s

LEMMA ClampMeaning ==
  ASSUME NEW n, n.op = "clamp", NEW a, ZeroTerm(a), NEW b, NEW from
  PROVE  Meaning(n, <<a, b, Constant(<<"inf">>)>>, from) = Relu(b)
<1> DEFINE s == <<a, b, Constant(<<"inf">>)>>
<1>1. s[1] = a /\ s[2] = b /\ s[3] = Constant(<<"inf">>)
  OBVIOUS
<1> HIDE DEF s
<1>2. Meaning(n, s, from) = Relu(s[2])
  BY <1>1 DEF Meaning
<1> QED BY <1>1, <1>2 DEF s

LEMMA ReluOfZero ==
  ASSUME NEW a, ZeroTerm(a), NEW b, ZeroTerm(b)
  PROVE  Relu(a) = Relu(b)
BY DEF Relu

\* The maximum with a zero on either side.
LEMMA MaximumWithZero ==
  ASSUME NEW g, NEW r, GraphOK(g, r), NEW v \in DOMAIN g, g[v].op = "maximum",
         NEW i \in {1, 2}, NEW z, g[v].args[i] = z, NEW a, g[v].args[3 - i] = a,
         ZeroTerm(Denotation(g)[z])
  PROVE  Denotation(g)[v] = Relu(Denotation(g)[a])
<1> DEFINE V == Denotation(g)
           p == g[v].args[1]
           q == g[v].args[2]
<1>1. Sound(g, r) /\ DOMAIN g[v].args = {1, 2}
  BY BinaryOperands DEF GraphOK, Sound, BinaryOps
<1>2. V[v] = Meaning(g[v], <<V[p], V[q]>>, <<g[p].shape, g[q].shape>>)
  BY <1>1, BinaryValue
<1>3. (i = 1 /\ z = p /\ a = q) \/ (i = 2 /\ z = q /\ a = p)
  OBVIOUS
<1> HIDE DEF V, p, q
<1>4. ZeroTerm(V[z])
  BY DEF V
<1>5. V[v] = IF ZeroTerm(V[q]) THEN Relu(V[p]) ELSE Relu(V[q])
  BY <1>2, <1>3, <1>4, MaximumMeaning
<1>6. CASE i = 1
  BY <1>3, <1>4, <1>5, <1>6, ReluOfZero DEF V
<1>7. CASE i = 2
  BY <1>3, <1>4, <1>5, <1>7 DEF V
<1> QED BY <1>6, <1>7

LEMMA ConstantValue ==
  ASSUME NEW g, NEW r, Sound(g, r), NEW v \in DOMAIN g, g[v].op = "constant",
         g[v].args = <<>>
  PROVE  Denotation(g)[v] = Constant(g[v].attr)
<1>1. DOMAIN g[v].args = {}
  OBVIOUS
<1>2. Denotation(g)[v] = Meaning(g[v], <<>>, <<>>)
  BY <1>1, NullaryValue
<1> QED BY <1>2, PlainMeaning DEF Interpreted, Constant

LEMMA TermParts ==
  ASSUME NEW op, NEW attr, NEW operands
  PROVE  /\ Term(op, attr, operands)[1] = op
         /\ Term(op, attr, operands)[2] = attr
         /\ Term(op, attr, operands)[3] = operands
BY DEF Term

\* A zero behind at most one broadcast.
LEMMA SpreadZero ==
  ASSUME NEW dims, NEW from, NEW to
  PROVE  ZeroTerm(Zero) /\ ZeroTerm(Broadcast(dims, from, Zero, to))
<1>1. ~IsA(Zero, "broadcast") /\ ZeroTerm(Zero)
  BY TermParts DEF IsA, Zero, Constant, ZeroTerm
<1>2. Broadcast(dims, from, Zero, to) =
        IF from = to /\ dims = Identity(to) THEN Zero
        ELSE Term("broadcast", <<dims, from>>, <<Zero>>)
  BY <1>1 DEF Broadcast
<1>3. ZeroTerm(Term("broadcast", <<dims, from>>, <<Zero>>))
  BY TermParts DEF ZeroTerm, IsA, Operand
<1> QED BY <1>1, <1>2, <1>3

LEMMA NormalisedConvolution ==
  ASSUME NEW n, n.op = "batch_norm", NEW layout, n.attr = FeatureOf(layout),
         NEW x, NEW w, NEW p, NEW from
  PROVE  Meaning(n, <<Term("convolution", layout, <<x, Constant(w)>>), Constant(p)>>,
                 from) =
           Term("add", <<>>,
             <<Term("convolution", layout, <<x, Constant(Scaled(w, p))>>),
               Broadcast(n.attr, from[2], Constant(Shift(p)), n.shape)>>)
<1> DEFINE c == Term("convolution", layout, <<x, Constant(w)>>)
           k == Constant(p)
           s == <<c, k>>
<1>1. s[1] = c /\ s[2] = k
  OBVIOUS
<1>2. IsA(k, "constant") /\ k[2] = p
  BY DEF IsA, Constant, Term
<1>3. /\ IsA(c, "convolution") /\ c[2] = layout /\ Operand(c, 1) = x
      /\ Operand(c, 2) = Constant(w)
  BY DEF IsA, Operand, Term
<1>4. IsA(Constant(w), "constant") /\ Constant(w)[2] = w
  BY DEF IsA, Constant, Term
<1> HIDE DEF c, k, s
<1>5. Meaning(n, s, from) =
        Term("add", <<>>, <<Normalised(s[1], s[2][2], n.attr),
          Broadcast(n.attr, from[2], Constant(Shift(s[2][2])), n.shape)>>)
  BY <1>1, <1>2 DEF Meaning
<1>6. Normalised(c, p, n.attr) =
        Term("convolution", layout, <<x, Constant(Scaled(w, p))>>)
  BY <1>3, <1>4 DEF Normalised
<1> QED BY <1>1, <1>2, <1>5, <1>6, Zenon DEF c, k, s

LEMMA SumOfConvolution ==
  ASSUME NEW n, n.op = "add", NEW layout, NEW operands, NEW b, NEW from
  PROVE  Meaning(n, <<Term("convolution", layout, operands), b>>, from) =
           Term("add", n.attr, <<Term("convolution", layout, operands), b>>)
<1> DEFINE c == Term("convolution", layout, operands)
           s == <<c, b>>
<1>1. s[1] = c /\ ~IsA(c, "constant")
  BY DEF IsA, Term
<1> HIDE DEF c, s
<1>2. Meaning(n, s, from) = Term(n.op, n.attr, s)
  BY <1>1 DEF Meaning
<1> QED BY <1>2 DEF c, s

LEMMA ShiftedExponential ==
  ASSUME NEW n, n.op = "multiply", NEW a, NEW b, NEW from
  PROVE  Meaning(n, <<Term("exponential", <<>>, <<a>>),
                      Term("exponential", <<>>, <<Term("negate", <<>>, <<b>>)>>)>>, from) =
           Term("exponential", <<>>, <<Term("subtract", <<>>, <<a, b>>)>>)
<1> DEFINE m == Term("negate", <<>>, <<b>>)
           e == Term("exponential", <<>>, <<a>>)
           f == Term("exponential", <<>>, <<m>>)
           s == <<e, f>>
<1>1. s[1] = e /\ s[2] = f
  OBVIOUS
<1>2. IsA(m, "negate") /\ Operand(m, 1) = b
  BY DEF IsA, Operand, Term
<1>3. IsA(e, "exponential") /\ Operand(e, 1) = a
  BY DEF IsA, Operand, Term
<1>4. IsA(f, "exponential") /\ Operand(f, 1) = m
  BY DEF IsA, Operand, Term
<1> HIDE DEF m, e, f, s
<1>5. \A i \in 1..2 : i = 1 \/ i = 2
  OBVIOUS
<1>6. IsShiftedExp(s)
  BY <1>1, <1>2, <1>3, <1>4, <1>5 DEF IsShiftedExp
<1>7. ~IsA(s[1], "constant")
  BY <1>1, <1>3 DEF IsA
<1>8. Meaning(n, s, from) =
        Term("exponential", <<>>, <<Term("subtract", <<>>,
          <<Operand(s[1], 1), Operand(Operand(s[2], 1), 1)>>)>>)
  BY <1>6, <1>7 DEF Meaning
<1> QED BY <1>1, <1>2, <1>3, <1>4, <1>8, Zenon DEF m, e, f, s

LEMMA FoldedConstants ==
  ASSUME NEW n, n.op \in {"add", "multiply"}, NEW c, NEW d, NEW from
  PROVE  Meaning(n, <<Constant(c), Constant(d)>>, from) = Constant(<<n.op>> \o c \o d)
<1> DEFINE a == Constant(c)
           b == Constant(d)
           s == <<a, b>>
<1>1. s[1] = a /\ s[2] = b
  OBVIOUS
<1>2. IsA(a, "constant") /\ IsA(b, "constant") /\ a[2] = c /\ b[2] = d
  BY DEF IsA, Constant, Term
<1> HIDE DEF a, b, s
<1>3. \A i \in 1..2 : i = 1 \/ i = 2
  OBVIOUS
<1>4. \A i \in 1..2 : IsA(s[i], "constant")
  BY <1>1, <1>2, <1>3
<1>5. ~IsShiftedExp(s)
  BY <1>1, <1>2 DEF IsShiftedExp, IsA
<1>6. Meaning(n, s, from) = Constant(<<n.op>> \o s[1][2] \o s[2][2])
  BY <1>4, <1>5 DEF Meaning
<1> QED BY <1>1, <1>2, <1>6, Zenon DEF a, b, s

-----------------------------------------------------------------------------
(***************************************************************************)
(* Broadcasts of broadcasts.                                               *)
(***************************************************************************)
\* A value of shape from lies along dims in one of shape to.
Lies(dims, from, to) ==
  dims \in [DOMAIN from -> Nat] /\ \A d \in DOMAIN from : dims[d] + 1 \in DOMAIN to

Spread(a, dims, from, x, shape) ==
  /\ a = Term("broadcast", <<dims, from>>, <<x>>)
  /\ ~IsA(x, "broadcast") /\ Lies(dims, from, shape)
  /\ ~(from = shape /\ dims = Identity(shape))

\* The term a, of the given shape, is no chain of broadcasts, and no identity.
Settled(a, shape) ==
  IsA(a, "broadcast") => \E dims, from, x : Spread(a, dims, from, x, shape)

LEMMA SpreadParts ==
  ASSUME NEW a, NEW dims, NEW from, NEW x, NEW shape, Spread(a, dims, from, x, shape)
  PROVE  /\ IsA(a, "broadcast") /\ a[2][1] = dims /\ a[2][2] = from
         /\ Operand(a, 1) = x
BY DEF Spread, IsA, Operand, Term

LEMMA BroadcastOfChain ==
  ASSUME NEW a, NEW inner, NEW start, NEW x, NEW from, Spread(a, inner, start, x, from),
         NEW dims, NEW to
  PROVE  Broadcast(dims, from, a, to) =
           IF start = to /\ Composed(dims, inner) = Identity(to) THEN x
           ELSE Term("broadcast", <<Composed(dims, inner), start>>, <<x>>)
BY SpreadParts DEF Broadcast

LEMMA BroadcastOfOther ==
  ASSUME NEW a, ~IsA(a, "broadcast"), NEW dims, NEW from, NEW to
  PROVE  Broadcast(dims, from, a, to) =
           IF from = to /\ dims = Identity(to) THEN a
           ELSE Term("broadcast", <<dims, from>>, <<a>>)
BY DEF Broadcast

LEMMA ComposedLies ==
  ASSUME NEW start, NEW from, NEW to, NEW inner, Lies(inner, start, from),
         NEW dims, Lies(dims, from, to)
  PROVE  Lies(Composed(dims, inner), start, to)
<1>1. \A d \in DOMAIN start : inner[d] + 1 \in DOMAIN from
  BY DEF Lies
<1>2. \A e \in DOMAIN from : dims[e] \in Nat /\ dims[e] + 1 \in DOMAIN to
  BY DEF Lies
<1>3. DOMAIN inner = DOMAIN start
  BY DEF Lies
<1> QED BY <1>1, <1>2, <1>3 DEF Composed, Lies

LEMMA BroadcastSettles ==
  ASSUME NEW a, NEW from, Settled(a, from), NEW dims, NEW to, Lies(dims, from, to)
  PROVE  Settled(Broadcast(dims, from, a, to), to)
<1> DEFINE b == Broadcast(dims, from, a, to)
<1>1. CASE IsA(a, "broadcast")
  <2>1. PICK inner, start, x : Spread(a, inner, start, x, from)
    BY <1>1 DEF Settled
  <2> DEFINE all == Composed(dims, inner)
  <2>2. b = IF start = to /\ all = Identity(to) THEN x
            ELSE Term("broadcast", <<all, start>>, <<x>>)
    BY <2>1, BroadcastOfChain
  <2>3. Lies(all, start, to) /\ ~IsA(x, "broadcast")
    BY <2>1, ComposedLies DEF Spread
  <2> HIDE DEF all, b
  <2>4. CASE start = to /\ all = Identity(to)
    BY <2>2, <2>3, <2>4 DEF Settled, b
  <2>5. CASE ~(start = to /\ all = Identity(to))
    <3>1. Spread(b, all, start, x, to)
      BY <2>2, <2>3, <2>5 DEF Spread
    <3> QED BY <3>1 DEF Settled, b
  <2> QED BY <2>4, <2>5
<1>2. CASE ~IsA(a, "broadcast")
  <2>1. b = IF from = to /\ dims = Identity(to) THEN a
            ELSE Term("broadcast", <<dims, from>>, <<a>>)
    BY <1>2, BroadcastOfOther
  <2> HIDE DEF b
  <2>2. CASE from = to /\ dims = Identity(to)
    BY <1>2, <2>1, <2>2 DEF Settled, b
  <2>3. CASE ~(from = to /\ dims = Identity(to))
    <3>1. Spread(b, dims, from, a, to)
      BY <1>2, <2>1, <2>3 DEF Spread
    <3> QED BY <3>1 DEF Settled, b
  <2> QED BY <2>2, <2>3
<1> QED BY <1>1, <1>2

LEMMA ComposedAssociates ==
  ASSUME NEW outer, NEW mid, NEW inner, NEW start, NEW from, NEW end,
         Lies(inner, start, from), Lies(mid, from, end)
  PROVE  Composed(Composed(outer, mid), inner) = Composed(outer, Composed(mid, inner))
<1>1. /\ DOMAIN inner = DOMAIN start /\ DOMAIN mid = DOMAIN from
      /\ \A d \in DOMAIN start : inner[d] + 1 \in DOMAIN from
  BY DEF Lies
<1>2. \A d \in DOMAIN start :
        /\ Composed(outer, mid)[inner[d] + 1] = outer[mid[inner[d] + 1] + 1]
        /\ Composed(mid, inner)[d] = mid[inner[d] + 1]
  BY <1>1 DEF Composed
<1>3. DOMAIN Composed(mid, inner) = DOMAIN start
  BY <1>1 DEF Composed
<1>4. Composed(Composed(outer, mid), inner) =
        [d \in DOMAIN start |-> Composed(outer, mid)[inner[d] + 1]]
  BY <1>1 DEF Composed
<1>5. Composed(outer, Composed(mid, inner)) =
        [d \in DOMAIN start |-> outer[Composed(mid, inner)[d] + 1]]
  BY <1>3 DEF Composed
<1> QED BY <1>2, <1>4, <1>5

LEMMA ComposedWithIdentity ==
  ASSUME NEW dims, NEW from, NEW to, Lies(dims, from, to), DOMAIN from \subseteq Nat
  PROVE  Composed(dims, Identity(from)) = dims
<1>1. \A d \in DOMAIN from : (d - 1) + 1 = d
  OBVIOUS
<1>2. dims = [d \in DOMAIN from |-> dims[d]]
  BY DEF Lies
<1> QED BY <1>1, <1>2 DEF Composed, Identity

LEMMA IdentityComposed ==
  ASSUME NEW dims, NEW from, NEW to, Lies(dims, from, to)
  PROVE  Composed(Identity(to), dims) = dims
<1>1. \A d \in DOMAIN from : dims[d] \in Nat /\ dims[d] + 1 \in DOMAIN to
  BY DEF Lies
<1>2. dims = [d \in DOMAIN from |-> dims[d]] /\ DOMAIN dims = DOMAIN from
  BY DEF Lies
<1>3. \A d \in DOMAIN from : Identity(to)[dims[d] + 1] = dims[d]
  BY <1>1 DEF Identity
<1> QED BY <1>2, <1>3 DEF Composed

\* An identity changes nothing.
LEMMA BroadcastToItself ==
  ASSUME NEW a, NEW shape, Settled(a, shape)
  PROVE  Broadcast(Identity(shape), shape, a, shape) = a
<1>1. CASE IsA(a, "broadcast")
  <2>1. PICK inner, start, x : Spread(a, inner, start, x, shape)
    BY <1>1 DEF Settled
  <2>2. Composed(Identity(shape), inner) = inner
    BY <2>1, IdentityComposed DEF Spread
  <2> QED BY <2>1, <2>2, BroadcastOfChain DEF Spread
<1>2. CASE ~IsA(a, "broadcast")
  BY <1>2, BroadcastOfOther
<1> QED BY <1>1, <1>2

\* Two broadcasts are the one of their composed dimensions.
LEMMA BroadcastComposes ==
  ASSUME NEW a, NEW from, Settled(a, from), NEW mid, DOMAIN mid \subseteq Nat, NEW to,
         NEW inner, Lies(inner, from, mid), NEW outer, Lies(outer, mid, to)
  PROVE  Broadcast(outer, mid, Broadcast(inner, from, a, mid), to) =
           Broadcast(Composed(outer, inner), from, a, to)
<1> DEFINE b == Broadcast(inner, from, a, mid)
<1>1. CASE IsA(a, "broadcast")
  <2>1. PICK dims, start, x : Spread(a, dims, start, x, from)
    BY <1>1 DEF Settled
  <2> DEFINE all == Composed(inner, dims)
  <2>2. b = IF start = mid /\ all = Identity(mid) THEN x
            ELSE Term("broadcast", <<all, start>>, <<x>>)
    BY <2>1, BroadcastOfChain
  <2>3. Lies(all, start, mid) /\ ~IsA(x, "broadcast") /\ Lies(dims, start, from)
    BY <2>1, ComposedLies DEF Spread
  <2>4. Broadcast(Composed(outer, inner), from, a, to) =
          IF start = to /\ Composed(outer, all) = Identity(to) THEN x
          ELSE Term("broadcast", <<Composed(outer, all), start>>, <<x>>)
    <3>1. Composed(Composed(outer, inner), dims) = Composed(outer, all)
      BY <2>3, ComposedAssociates
    <3> QED BY <2>1, <3>1, BroadcastOfChain
  <2> HIDE DEF all, b
  <2>5. CASE start = mid /\ all = Identity(mid)
    <3>1. b = x
      BY <2>2, <2>5
    <3>2. Composed(outer, all) = outer
      BY <2>5, ComposedWithIdentity
    <3>3. Broadcast(outer, mid, b, to) =
            IF mid = to /\ outer = Identity(to) THEN x
            ELSE Term("broadcast", <<outer, mid>>, <<x>>)
      BY <2>3, <3>1, BroadcastOfOther
    <3> QED BY <2>4, <2>5, <3>2, <3>3 DEF b
  <2>6. CASE ~(start = mid /\ all = Identity(mid))
    <3>1. Spread(b, all, start, x, mid)
      BY <2>2, <2>3, <2>6 DEF Spread
    <3> QED BY <2>4, <3>1, BroadcastOfChain DEF b
  <2> QED BY <2>5, <2>6
<1>2. CASE ~IsA(a, "broadcast")
  <2>1. b = IF from = mid /\ inner = Identity(mid) THEN a
            ELSE Term("broadcast", <<inner, from>>, <<a>>)
    BY <1>2, BroadcastOfOther
  <2>2. Broadcast(Composed(outer, inner), from, a, to) =
          IF from = to /\ Composed(outer, inner) = Identity(to) THEN a
          ELSE Term("broadcast", <<Composed(outer, inner), from>>, <<a>>)
    BY <1>2, BroadcastOfOther
  <2> HIDE DEF b
  <2>3. CASE from = mid /\ inner = Identity(mid)
    <3>1. b = a /\ Composed(outer, inner) = outer
      BY <2>1, <2>3, ComposedWithIdentity
    <3>2. Broadcast(outer, mid, b, to) =
            IF mid = to /\ outer = Identity(to) THEN a
            ELSE Term("broadcast", <<outer, mid>>, <<a>>)
      BY <1>2, <3>1, BroadcastOfOther
    <3> QED BY <2>2, <2>3, <3>1, <3>2 DEF b
  <2>4. CASE ~(from = mid /\ inner = Identity(mid))
    <3>1. Spread(b, inner, from, a, mid)
      BY <1>2, <2>1, <2>4 DEF Spread
    <3> QED BY <2>2, <3>1, BroadcastOfChain DEF b
  <2> QED BY <2>3, <2>4
<1> QED BY <1>1, <1>2

\* What a broadcast or a batch norm broadcasts lies in the result.
DimsOf(g, v) ==
  LET small == g[g[v].args[IF g[v].op = "broadcast" THEN 1 ELSE 2]].shape
  IN  /\ g[v].attr \in Seq(Nat)
      /\ Lies(g[v].attr, small, g[v].shape)

LEMMA DimsLie ==
  ASSUME NEW g, NEW v, v \in DOMAIN g, g[v].op \in {"broadcast", "batch_norm"}, DimsFit(g)
  PROVE  DimsOf(g, v)
<1> DEFINE small == g[g[v].args[IF g[v].op = "broadcast" THEN 1 ELSE 2]].shape
           dims == g[v].attr
<1>1. /\ dims \in Seq(Nat) /\ DOMAIN dims = DOMAIN small
      /\ \A d \in DOMAIN small : dims[d] + 1 \in DOMAIN g[v].shape
  BY DEF DimsFit
<1> HIDE DEF small, dims
<1>2. dims \in [DOMAIN small -> Nat]
  BY <1>1, ElementOfSequence
<1> QED BY <1>1, <1>2 DEF DimsOf, Lies, small, dims

LEMMA DimsFitIf ==
  ASSUME NEW g, \A v \in DOMAIN g : g[v].op \in {"broadcast", "batch_norm"} => DimsOf(g, v)
  PROVE  DimsFit(g)
<1> SUFFICES ASSUME NEW v \in DOMAIN g, g[v].op \in {"broadcast", "batch_norm"}
             PROVE  LET small == g[g[v].args[IF g[v].op = "broadcast" THEN 1 ELSE 2]].shape
                    IN  /\ g[v].attr \in Seq(Nat) /\ DOMAIN g[v].attr = DOMAIN small
                        /\ \A d \in DOMAIN small : g[v].attr[d] + 1 \in DOMAIN g[v].shape
  BY DEF DimsFit
<1> DEFINE small == g[g[v].args[IF g[v].op = "broadcast" THEN 1 ELSE 2]].shape
           dims == g[v].attr
<1>1. dims \in Seq(Nat) /\ Lies(dims, small, g[v].shape)
  BY DEF DimsOf
<1> HIDE DEF small, dims
<1>2. /\ dims \in Seq(Nat) /\ DOMAIN dims = DOMAIN small
      /\ \A d \in DOMAIN small : dims[d] + 1 \in DOMAIN g[v].shape
  BY <1>1 DEF Lies
<1> QED BY <1>2 DEF small, dims

LEMMA TermOfOther ==
  ASSUME NEW n, n.op # "broadcast", NEW a, NEW from
  PROVE  ~IsA(Meaning(n, a, from), "broadcast")
<1> DEFINE m == Meaning(n, a, from)
<1>1. CASE n.op \notin Interpreted
  BY <1>1, PlainMeaning, TermParts DEF IsA
<1>2. CASE n.op = "maximum"
  <2>1. m = Term(n.op, n.attr, a) \/ \E x : m = Relu(x)
    BY <1>2 DEF Meaning
  <2>2. \A x : Relu(x)[1] = "relu"
    BY TermParts DEF Relu
  <2> HIDE DEF m
  <2>3. m[1] = n.op \/ m[1] = "relu"
    BY <2>1, <2>2, TermParts
  <2> QED BY <1>2, <2>3 DEF IsA, m
<1>3. CASE n.op = "clamp"
  <2>1. m = Term(n.op, n.attr, a) \/ \E x : m = Relu(x)
    BY <1>3 DEF Meaning
  <2>2. \A x : Relu(x)[1] = "relu"
    BY TermParts DEF Relu
  <2> HIDE DEF m
  <2>3. m[1] = n.op \/ m[1] = "relu"
    BY <2>1, <2>2, TermParts
  <2> QED BY <1>3, <2>3 DEF IsA, m
<1>4. CASE n.op \in {"multiply", "add"}
  <2>1. \/ m = Term(n.op, n.attr, a)
        \/ \E x : m = Constant(x)
        \/ \E x : m = Term("exponential", <<>>, x)
    BY <1>4 DEF Meaning
  <2> QED BY <1>4, <2>1, TermParts DEF IsA, Constant
<1>5. CASE n.op = "batch_norm"
  <2>1. m = Term(n.op, n.attr, a) \/ \E x : m = Term("add", <<>>, x)
    BY <1>5 DEF Meaning
  <2> QED BY <1>5, <2>1, TermParts DEF IsA
<1> QED BY <1>1, <1>2, <1>3, <1>4, <1>5 DEF Interpreted

LEMMA TermsSettle ==
  ASSUME NEW g, NEW r, Sound(g, r), NodesOK(g), DimsFit(g), NEW v \in DOMAIN g
  PROVE  Settled(Denotation(g)[v], g[v].shape)
<1> DEFINE S == {u \in DOMAIN g : ~Settled(Denotation(g)[u], g[u].shape)}
<1> SUFFICES ASSUME S # {} PROVE FALSE
  OBVIOUS
<1>1. PICK rank \in Ranks(g) : TRUE
  BY DEF Sound
<1>2. \A u \in S : rank[u] \in Nat /\ u \in DOMAIN g
  BY <1>1 DEF Ranks
<1>3. PICK u \in S : \A w \in S : rank[u] <= rank[w]
  <2> HIDE DEF S
  <2> QED BY <1>2, Least
<1>4. CASE g[u].op # "broadcast"
  <2>1. Denotation(g)[u] = MeaningIn(g, Denotation(g), u)
    BY <1>2, DenotationHolds
  <2>2. ~IsA(Denotation(g)[u], "broadcast")
    BY <1>4, <2>1, TermOfOther DEF MeaningIn
  <2> QED BY <2>2 DEF Settled
<1>5. CASE g[u].op = "broadcast"
  <2> DEFINE a == g[u].args[1]
  <2>1. DOMAIN g[u].args = {1}
    <3>1. Len(g[u].args) = 1 /\ g[u].args \in Seq(DOMAIN g)
      BY <1>2, <1>5 DEF NodesOK, Arity, Sound, Closed
    <3> QED BY <3>1
  <2>2. a \in DOMAIN g /\ rank[a] < rank[u] /\ rank[a] \in Nat /\ rank[u] \in Nat
    BY <1>1, <1>2, <2>1, RankedArg
  <2>3. Settled(Denotation(g)[a], g[a].shape)
    BY <1>3, <2>2
  <2>4. Lies(g[u].attr, g[a].shape, g[u].shape)
    BY <1>2, <1>5, DimsLie DEF DimsOf
  <2>5. Denotation(g)[u] = Meaning(g[u], <<Denotation(g)[a]>>, <<g[a].shape>>)
    BY <1>2, <2>1, UnaryValue
  <2> HIDE DEF a
  <2>6. Denotation(g)[u] = Broadcast(g[u].attr, g[a].shape, Denotation(g)[a], g[u].shape)
    BY <1>5, <2>5, BroadcastMeaning
  <2> QED BY <2>3, <2>4, <2>6, BroadcastSettles
<1> QED BY <1>4, <1>5

\* A replacement keeps the dimensions right if what it creates has them so.
LEMMA ReplaceDims ==
  ASSUME NEW g, NEW r, NEW h, NEW t, NEW old, NEW new, NEW created, NEW top,
         Replaces(g, r, h, t, old, new, created, top), DimsFit(g),
         \A i \in 1..Len(created) :
           created[i].op \in {"broadcast", "batch_norm"} => DimsOf(h, top + i)
  PROVE  DimsFit(h)
<1> SUFFICES ASSUME NEW v \in DOMAIN h, h[v].op \in {"broadcast", "batch_norm"}
             PROVE  DimsOf(h, v)
  BY DimsFitIf
<1>1. CASE \E i \in 1..Len(created) : v = top + i
  <2>1. PICK i \in 1..Len(created) : v = top + i
    BY <1>1
  <2>2. h[v] = created[i]
    BY <2>1, CreatedOp
  <2> QED BY <2>1, <2>2
<1>2. CASE v \in DOMAIN g \ {old}
  <2> DEFINE i == IF g[v].op = "broadcast" THEN 1 ELSE 2
             a == g[v].args[i]
  <2>1. SameOp(h[v], g[v]) /\ Renamed(h[v].args, g[v].args, DOMAIN g, old, new)
    BY <1>2, OldOp
  <2>2. g[v].op \in {"broadcast", "batch_norm"} /\ GraphOK(g, r)
    BY <2>1 DEF SameOp, Replaces
  <2>3. i \in DOMAIN g[v].args
    <3>1. g[v].op = "broadcast" => DOMAIN g[v].args = {1}
      BY <1>2, <2>2, UnaryOperand DEF UnaryOps
    <3>2. g[v].op = "batch_norm" => DOMAIN g[v].args = {1, 2}
      BY <1>2, <2>2, BinaryOperands DEF BinaryOps
    <3> QED BY <2>2, <3>1, <3>2
  <2>4. h[h[v].args[i]].shape = g[a].shape
    BY <1>2, <2>3, CarriedOperand
  <2>5. DimsOf(g, v)
    BY <1>2, <2>2, DimsLie
  <2> QED BY <2>1, <2>4, <2>5 DEF DimsOf, SameOp
<1> QED BY <1>1, <1>2, EditedOps

\* What an edit from the graph g to the graph h computes, if all dimensions fit.
Values(g, r, h, t) ==
  DimsFit(g) => DimsFit(h) /\ Computes(h, t) = Computes(g, r)

LEMMA EraseValues ==
  ASSUME NEW g, NEW r, GraphOK(g, r), NEW x, Unused(g, r, x),
         NEW h, h = [v \in DOMAIN g \ {x} |-> g[v]], GraphOK(h, r)
  PROVE  Values(g, r, h, r)
<1>1. DOMAIN h = DOMAIN g \ {x} /\ \A v \in DOMAIN h : h[v] = g[v]
  OBVIOUS
<1>2. Sound(g, r) /\ Sound(h, r)
  BY DEF GraphOK, Sound
<1>3. Computes(h, r) = Computes(g, r)
  BY <1>1, <1>2, SameValues
<1>4. ASSUME DimsFit(g) PROVE DimsFit(h)
  <2> SUFFICES ASSUME NEW v \in DOMAIN h, h[v].op \in {"broadcast", "batch_norm"}
               PROVE  DimsOf(h, v)
    BY DimsFitIf
  <2> DEFINE i == IF g[v].op = "broadcast" THEN 1 ELSE 2
  <2>1. h[v] = g[v] /\ v \in DOMAIN g /\ DimsOf(g, v)
    BY <1>1, <1>4, DimsLie
  <2>2. i \in DOMAIN g[v].args
    <3>1. g[v].op = "broadcast" => DOMAIN g[v].args = {1}
      BY <2>1, UnaryOperand DEF UnaryOps
    <3>2. g[v].op = "batch_norm" => DOMAIN g[v].args = {1, 2}
      BY <2>1, BinaryOperands DEF BinaryOps
    <3> QED BY <2>1, <3>1, <3>2
  <2>3. h[v].args \in Seq(DOMAIN h)
    BY DEF GraphOK, Closed
  <2>4. g[v].args[i] \in DOMAIN h
    BY <2>1, <2>2, <2>3, ElementOfSequence
  <2>5. h[g[v].args[i]] = g[g[v].args[i]]
    BY <1>1, <2>4
  <2> QED BY <2>1, <2>5 DEF DimsOf
<1> QED BY <1>3, <1>4 DEF Values

LEMMA EraseIfUnusedValues ==
  ASSUME NEW g, NEW r, NEW e, Keeps(g, r, e.g, e.r), NEW x, x \notin Dots(e.g),
         e = [g |-> e.g, r |-> e.r], Values(g, r, e.g, e.r)
  PROVE  Values(g, r, EraseIfUnused(e, x).g, EraseIfUnused(e, x).r)
<1>1. CASE Uses(e.g, e.r, x) = {}
  <2> DEFINE h == [n \in DOMAIN e.g \ {x} |-> e.g[n]]
  <2>1. EraseIfUnused(e, x).g = h /\ EraseIfUnused(e, x).r = e.r
    BY <1>1 DEF EraseIfUnused, EraseOp
  <2>2. Unused(e.g, e.r, x) /\ GraphOK(e.g, e.r)
    BY <1>1, NoUses DEF Keeps
  <2>3. GraphOK(h, e.r)
    BY <2>2, EraseKeeps DEF Keeps
  <2>4. Values(e.g, e.r, h, e.r)
    BY <2>2, <2>3, EraseValues
  <2> HIDE DEF h
  <2> QED BY <2>1, <2>4 DEF Values
<1>2. CASE Uses(e.g, e.r, x) # {}
  BY <1>2 DEF EraseIfUnused
<1> QED BY <1>1, <1>2

LEMMA EraseIfUnusedDims ==
  ASSUME NEW e, GraphOK(e.g, e.r), NEW x, x \notin Dots(e.g), e = [g |-> e.g, r |-> e.r],
         DimsFit(e.g)
  PROVE  DimsFit(EraseIfUnused(e, x).g)
<1>1. Keeps(e.g, e.r, e.g, e.r) /\ Values(e.g, e.r, e.g, e.r)
  BY DEF Keeps, SameTotals, Values
<1>2. Values(e.g, e.r, EraseIfUnused(e, x).g, EraseIfUnused(e, x).r)
  BY <1>1, EraseIfUnusedValues
<1> QED BY <1>2 DEF Values

LEMMA MarkValues ==
  ASSUME NEW g, NEW r, GraphOK(g, r), NEW h, GraphOK(h, r), NEW v, NEW m,
         Remarked(g, h, v, m)
  PROVE  Values(g, r, h, r)
<1>1. /\ DOMAIN h = DOMAIN g
      /\ \A u \in DOMAIN g : /\ h[u].op = g[u].op /\ h[u].attr = g[u].attr
                             /\ h[u].args = g[u].args /\ h[u].shape = g[u].shape
  BY DEF Remarked
<1>2. Computes(h, r) = Computes(g, r)
  <2>1. Sound(g, r) /\ Sound(h, r)
    BY DEF GraphOK, Sound
  <2> QED BY <1>1, <2>1, SameValues
<1>3. ASSUME DimsFit(g) PROVE DimsFit(h)
  <2> SUFFICES ASSUME NEW u \in DOMAIN h, h[u].op \in {"broadcast", "batch_norm"}
               PROVE  DimsOf(h, u)
    BY DimsFitIf
  <2> DEFINE i == IF g[u].op = "broadcast" THEN 1 ELSE 2
             a == g[u].args[i]
  <2>1. u \in DOMAIN g /\ g[u].op \in {"broadcast", "batch_norm"}
    BY <1>1
  <2>2. i \in DOMAIN g[u].args
    <3>1. CASE g[u].op = "broadcast"
      BY <2>1, <3>1, UnaryOperand DEF UnaryOps
    <3>2. CASE g[u].op = "batch_norm"
      BY <2>1, <3>2, BinaryOperands DEF BinaryOps
    <3> QED BY <2>1, <3>1, <3>2
  <2>3. a \in DOMAIN g
    BY <2>1, <2>2, ArgBelow
  <2>4. DimsOf(g, u)
    BY <1>3, <2>1, DimsLie
  <2> QED BY <1>1, <2>1, <2>3, <2>4 DEF DimsOf
<1> QED BY <1>2, <1>3 DEF Values

-----------------------------------------------------------------------------
(***************************************************************************)
(* What is recorded. An op that bears a boundary's mark is of a kind that  *)
(* no rewrite replaces; a sum or a product is replaced only when both of   *)
(* its operands are constants, which the marked ones are kept from by an   *)
(* operand that stays what it is.                                          *)
(***************************************************************************)
Firm(g, v) ==
  \/ g[v].op \in {"divide", "dot_general", "concatenate", "erf"}
  \/ g[v].op = "exponential" /\ g[g[v].args[1]].op = "negate"

Stiff(g, v) ==
  g[v].op \in {"add", "multiply"} /\ \E i \in {1, 2} : Firm(g, g[v].args[i])

Anchored(g, v) == \E i \in {1, 2} : Firm(g, g[v].args[i]) \/ Stiff(g, g[v].args[i])

Bears(g, v, m) ==
  \/ g[v].op \in {"divide", "dot_general", "concatenate", "clamp"}
  \/ g[v].op \in {"add", "multiply"} /\ Anchored(g, v)
  \/ g[v].op \in {"transpose", "convolution"} /\ m = "layout_folded"

MarksOK(g) == \A v \in DOMAIN g : \A m \in g[v].marks \cap Boundaries : Bears(g, v, m)

RecordedIn(g) == {m \in Boundaries : \E v \in DOMAIN g : m \in g[v].marks}

\* Every op but those in E and those of a kind in X is used, and not only by
\* ops that are not.
Alive(g, r, X, E) ==
  \E L : /\ Supported(g, r, L)
         /\ \A v \in DOMAIN g \ L : v \in E \/ g[v].op \in X \cup {"arg"}

\* What an edit from the graph g to the graph h records.
Records(g, r, h, t, X) ==
  MarksOK(g) => /\ MarksOK(h) /\ RecordedIn(g) \subseteq RecordedIn(h)
                /\ Alive(g, r, X, {}) => Alive(h, t, X, {})

\* Nothing rests on the kind of the op.
Yields(g, v) == g[v].op # "negate" /\ ~Firm(g, v) /\ ~Stiff(g, v)

LEMMA FirmKept ==
  ASSUME NEW g, NEW r, NEW h, NEW t, NEW old, NEW new, NEW created, NEW top,
         Replaces(g, r, h, t, old, new, created, top), Yields(g, old),
         NEW v \in DOMAIN g, Firm(g, v)
  PROVE  v # old /\ v \in DOMAIN h /\ Firm(h, v)
<1>1. v \in DOMAIN g \ {old}
  BY DEF Yields
<1>2. v \in DOMAIN h /\ h[v].op = g[v].op
  BY <1>1, OldOp DEF SameOp
<1>3. CASE g[v].op = "exponential" /\ g[g[v].args[1]].op = "negate"
  <2>1. 1 \in DOMAIN g[v].args /\ g[v].args[1] # old
    BY <1>3, UnaryOperand DEF Replaces, UnaryOps, Yields
  <2>2. h[v].args[1] = g[v].args[1] /\ SameOp(h[h[v].args[1]], g[g[v].args[1]])
    BY <1>1, <2>1, CarriedOperand
  <2> QED BY <1>1, <1>2, <1>3, <2>2 DEF SameOp, Firm
<1>4. CASE g[v].op \in {"divide", "dot_general", "concatenate", "erf"}
  BY <1>1, <1>2, <1>4 DEF Firm
<1> QED BY <1>3, <1>4 DEF Firm

LEMMA StiffKept ==
  ASSUME NEW g, NEW r, NEW h, NEW t, NEW old, NEW new, NEW created, NEW top,
         Replaces(g, r, h, t, old, new, created, top), Yields(g, old),
         NEW v \in DOMAIN g, Stiff(g, v)
  PROVE  v # old /\ v \in DOMAIN h /\ Stiff(h, v)
<1>1. v \in DOMAIN g \ {old}
  BY DEF Yields
<1>2. v \in DOMAIN h /\ h[v].op = g[v].op
  BY <1>1, OldOp DEF SameOp
<1>3. PICK i \in {1, 2} : Firm(g, g[v].args[i])
  BY DEF Stiff
<1>4. i \in DOMAIN g[v].args /\ g[v].args[i] \in DOMAIN g
  BY BinaryOperands DEF Replaces, BinaryOps, Stiff
<1>5. g[v].args[i] # old /\ Firm(h, g[v].args[i])
  BY <1>3, <1>4, FirmKept
<1>6. h[v].args[i] = g[v].args[i]
  BY <1>1, <1>4, <1>5, CarriedOperand
<1> QED BY <1>1, <1>2, <1>5, <1>6 DEF Stiff

LEMMA BearsKept ==
  ASSUME NEW g, NEW r, NEW h, NEW t, NEW old, NEW new, NEW created, NEW top,
         Replaces(g, r, h, t, old, new, created, top), Yields(g, old),
         NEW v \in DOMAIN g \ {old}, NEW m, Bears(g, v, m)
  PROVE  Bears(h, v, m)
<1>1. h[v].op = g[v].op
  BY OldOp DEF SameOp
<1>2. CASE g[v].op \in {"add", "multiply"} /\ Anchored(g, v)
  <2>1. PICK i \in {1, 2} : Firm(g, g[v].args[i]) \/ Stiff(g, g[v].args[i])
    BY <1>2 DEF Anchored
  <2>2. i \in DOMAIN g[v].args /\ g[v].args[i] \in DOMAIN g
    BY <1>2, BinaryOperands DEF Replaces, BinaryOps
  <2>3. /\ g[v].args[i] # old
        /\ Firm(h, g[v].args[i]) \/ Stiff(h, g[v].args[i])
    BY <2>1, <2>2, FirmKept, StiffKept
  <2>4. h[v].args[i] = g[v].args[i]
    BY <2>2, <2>3, CarriedOperand
  <2> QED BY <1>1, <1>2, <2>3, <2>4 DEF Bears, Anchored
<1> QED BY <1>1, <1>2 DEF Bears

LEMMA ReplaceRecords ==
  ASSUME NEW g, NEW r, NEW h, NEW t, NEW old, NEW new, NEW created, NEW top,
         Replaces(g, r, h, t, old, new, created, top), Yields(g, old), MarksOK(g),
         \A i \in 1..Len(created) :
           \A m \in created[i].marks \cap Boundaries : Bears(h, top + i, m)
  PROVE  /\ MarksOK(h)
         /\ \A m \in RecordedIn(g) : m \in RecordedIn(h) \/ m \in g[old].marks
<1>1. ASSUME NEW v \in DOMAIN h, NEW m \in h[v].marks \cap Boundaries
      PROVE  Bears(h, v, m)
  <2>1. CASE \E i \in 1..Len(created) : v = top + i
    <3>1. PICK i \in 1..Len(created) : v = top + i
      BY <2>1
    <3>2. h[v] = created[i]
      BY <3>1, CreatedOp
    <3> QED BY <1>1, <3>1, <3>2
  <2>2. CASE v \in DOMAIN g \ {old}
    <3>1. m \in g[v].marks \cap Boundaries
      BY <1>1, <2>2, OldOp DEF SameOp
    <3>2. Bears(g, v, m)
      BY <2>2, <3>1 DEF MarksOK
    <3> QED BY <2>2, <3>2, BearsKept
  <2> QED BY <2>1, <2>2, EditedOps
<1>2. ASSUME NEW m \in RecordedIn(g), m \notin g[old].marks PROVE m \in RecordedIn(h)
  <2>1. PICK v \in DOMAIN g : m \in g[v].marks
    BY DEF RecordedIn
  <2>2. v \in DOMAIN g \ {old}
    BY <1>2, <2>1
  <2>3. v \in DOMAIN h /\ h[v].marks = g[v].marks
    BY <2>2, OldOp DEF SameOp
  <2> QED BY <2>1, <2>3 DEF RecordedIn
<1> QED BY <1>1, <1>2 DEF MarksOK

LEMMA ReplaceAlive ==
  ASSUME NEW g, NEW r, NEW h, NEW t, NEW old, NEW new, NEW created, NEW top,
         Replaces(g, r, h, t, old, new, created, top),
         NEW D, Drops(g, old, new, created, top, D), NEW X, NEW E, Alive(g, r, X, {}),
         \/ g[old].op \notin X \cup {"arg"}
         \/ \A i \in 1..Len(created) : created[i].op \in X,
         \A d \in D : d = old \/ d \in E \/ g[d].op \in X
  PROVE  Alive(h, t, X, E)
<1>1. PICK L : /\ Supported(g, r, L)
               /\ \A v \in DOMAIN g \ L : g[v].op \in X \cup {"arg"}
  BY DEF Alive
<1>2. PICK M : GivesWay(h, t, L, M, D, old, created, top)
  BY <1>1, ReplaceSupport
<1>3. old \in DOMAIN g
  BY DEF Replaces, Replacement
<1>4. ASSUME NEW v \in DOMAIN h \ M PROVE v \in E \/ h[v].op \in X \cup {"arg"}
  <2>1. ASSUME NEW i \in 1..Len(created), v = top + i PROVE h[v].op \in X
    <3>1. old \notin L
      BY <1>2, <2>1 DEF GivesWay
    <3>2. created[i].op \in X
      BY <1>1, <1>3, <3>1
    <3> QED BY <2>1, <3>2, CreatedOp
  <2>2. CASE v \in DOMAIN g \ {old}
    <3>1. v \in D \/ v \notin L
      BY <1>2 DEF GivesWay
    <3>2. h[v].op = g[v].op
      BY <2>2, OldOp DEF SameOp
    <3> QED BY <1>1, <2>2, <3>1, <3>2
  <2> QED BY <2>1, <2>2, EditedOps
<1> QED BY <1>2, <1>4 DEF Alive, GivesWay

LEMMA EraseRecords ==
  ASSUME NEW g, NEW r, GraphOK(g, r), NEW x, Unused(g, r, x), MarksOK(g),
         NEW h, h = [v \in DOMAIN g \ {x} |-> g[v]]
  PROVE  /\ MarksOK(h)
         /\ \A m \in RecordedIn(g) : m \in RecordedIn(h) \/ m \in g[x].marks
<1>1. DOMAIN h = DOMAIN g \ {x} /\ \A v \in DOMAIN h : h[v] = g[v]
  OBVIOUS
<1>2. ASSUME NEW v \in DOMAIN g, NEW i \in DOMAIN g[v].args
      PROVE  g[v].args[i] \in DOMAIN h
  <2>1. g[v].args[i] \in DOMAIN g /\ g[v].args[i] \in ArgsOf(g, v)
    BY ArgBelow DEF ArgsOf
  <2> QED BY <1>1, <2>1 DEF Unused
<1>3. ASSUME NEW v \in DOMAIN h, Firm(g, v) PROVE Firm(h, v)
  <2>1. CASE g[v].op = "exponential"
    <3>1. g[v].args[1] \in DOMAIN h
      BY <1>1, <1>2, <2>1, UnaryOperand DEF UnaryOps
    <3> QED BY <1>1, <1>3, <3>1 DEF Firm
  <2>2. CASE g[v].op # "exponential"
    BY <1>1, <1>3, <2>2 DEF Firm
  <2> QED BY <2>1, <2>2
<1>4. ASSUME NEW v \in DOMAIN h, g[v].op \in {"add", "multiply"}, NEW i \in {1, 2}
      PROVE  g[v].args[i] \in DOMAIN h
  BY <1>1, <1>2, <1>4, BinaryOperands DEF BinaryOps
<1>5. ASSUME NEW v \in DOMAIN h, Stiff(g, v) PROVE Stiff(h, v)
  <2>1. PICK i \in {1, 2} : Firm(g, g[v].args[i])
    BY <1>5 DEF Stiff
  <2>2. Firm(h, g[v].args[i])
    BY <1>3, <1>4, <1>5, <2>1 DEF Stiff
  <2> QED BY <1>1, <1>5, <2>2 DEF Stiff
<1>6. ASSUME NEW v \in DOMAIN h, NEW m \in h[v].marks \cap Boundaries
      PROVE  Bears(h, v, m)
  <2>1. Bears(g, v, m) /\ h[v] = g[v]
    BY <1>1 DEF MarksOK
  <2>2. CASE g[v].op \in {"add", "multiply"} /\ Anchored(g, v)
    <3>1. PICK i \in {1, 2} : Firm(g, g[v].args[i]) \/ Stiff(g, g[v].args[i])
      BY <2>2 DEF Anchored
    <3>2. Firm(h, g[v].args[i]) \/ Stiff(h, g[v].args[i])
      BY <1>3, <1>4, <1>5, <2>2, <3>1
    <3> QED BY <2>1, <2>2, <3>2 DEF Bears, Anchored
  <2> QED BY <2>1, <2>2 DEF Bears
<1>7. ASSUME NEW m \in RecordedIn(g), m \notin g[x].marks PROVE m \in RecordedIn(h)
  <2>1. PICK v \in DOMAIN g : m \in g[v].marks
    BY DEF RecordedIn
  <2>2. v \in DOMAIN h
    BY <1>1, <1>7, <2>1
  <2> QED BY <1>1, <2>1, <2>2 DEF RecordedIn
<1> QED BY <1>6, <1>7 DEF MarksOK

LEMMA EraseAlive ==
  ASSUME NEW g, NEW r, NEW x, Unused(g, r, x), NEW X, NEW E, Alive(g, r, X, E),
         NEW h, h = [v \in DOMAIN g \ {x} |-> g[v]]
  PROVE  /\ Alive(h, r, X, E \ {x})
         /\ x \in DOMAIN g => x \in E \/ g[x].op \in X \cup {"arg"}
<1>1. PICK L : /\ Supported(g, r, L)
               /\ \A v \in DOMAIN g \ L : v \in E \/ g[v].op \in X \cup {"arg"}
  BY DEF Alive
<1>2. x \notin L
  <2> SUFFICES ASSUME x \in L PROVE FALSE
    OBVIOUS
  <2>1. (\E i \in DOMAIN r : r[i] = x) \/ \E u \in L : x \in ArgsOf(g, u)
    BY <1>1 DEF Supported
  <2>2. L \subseteq DOMAIN g
    BY <1>1 DEF Supported
  <2> QED BY <2>1, <2>2 DEF Unused
<1>3. DOMAIN h = DOMAIN g \ {x} /\ \A v \in DOMAIN h : h[v] = g[v]
  OBVIOUS
<1>4. L \subseteq DOMAIN h
  BY <1>1, <1>2, <1>3 DEF Supported
<1>5. Supported(h, r, L)
  <2>1. \A u \in L : ArgsOf(h, u) = ArgsOf(g, u)
    BY <1>3, <1>4 DEF ArgsOf
  <2> QED BY <1>1, <1>4, <2>1 DEF Supported
<1>6. \A v \in DOMAIN h \ L : v \in E \ {x} \/ h[v].op \in X \cup {"arg"}
  BY <1>1, <1>3
<1> QED BY <1>1, <1>2, <1>5, <1>6 DEF Alive

LEMMA NoArgs ==
  ASSUME NEW g, NEW r, GraphOK(g, r), NEW v \in DOMAIN g, g[v].op \in {"arg", "constant"}
  PROVE  ArgsOf(g, v) = {}
<1>1. g[v].args = <<>>
  BY DEF GraphOK, NodesOK, Arity
<1> QED BY <1>1 DEF ArgsOf

\* An op that a pattern erases itself: what it would leave unused is gone.
LEMMA EraseIfUnusedAlive ==
  ASSUME NEW e, GraphOK(e.g, e.r), NEW x \in DOMAIN e.g, Alive(e.g, e.r, {}, {x})
  PROVE  Alive(EraseIfUnused(e, x).g, EraseIfUnused(e, x).r, {}, {})
<1> DEFINE g == e.g
           r == e.r
<1>1. CASE Uses(g, r, x) = {}
  <2> DEFINE h == [n \in DOMAIN g \ {x} |-> g[n]]
  <2>1. EraseIfUnused(e, x).g = h /\ EraseIfUnused(e, x).r = r
    BY <1>1 DEF EraseIfUnused, EraseOp
  <2>2. Unused(g, r, x)
    BY <1>1, NoUses
  <2>3. Alive(h, r, {}, {x} \ {x})
    BY <2>2, EraseAlive
  <2>4. {x} \ {x} = {}
    OBVIOUS
  <2> HIDE DEF h
  <2> QED BY <2>1, <2>3, <2>4
<1>2. CASE Uses(g, r, x) # {}
  <2>1. PICK L : Supported(g, r, L) /\ \A v \in DOMAIN g \ L : v = x \/ g[v].op = "arg"
    BY DEF Alive
  <2>2. ~Unused(g, r, x)
    BY <1>2, UnusedHasNoUses
  <2>3. (\E i \in DOMAIN r : r[i] = x) \/ \E u \in L : x \in ArgsOf(g, u)
    <3>1. CASE \E u \in DOMAIN g : x \in ArgsOf(g, u)
      <4>1. PICK u \in DOMAIN g : x \in ArgsOf(g, u)
        BY <3>1
      <4>2. x \in Below(g, u)
        BY <4>1, ArgBelow DEF ArgsOf
      <4>3. u # x /\ g[u].op # "arg"
        BY <4>1, <4>2, NotBelowItself, NoArgs
      <4> QED BY <2>1, <4>1, <4>3
    <3> QED BY <2>2, <3>1 DEF Unused
  <2> DEFINE M == L \cup {x}
  <2>4. Supported(g, r, M)
    BY <2>1, <2>3 DEF Supported
  <2>5. \A v \in DOMAIN g \ M : g[v].op \in {} \cup {"arg"}
    BY <2>1
  <2>6. EraseIfUnused(e, x) = e
    BY <1>2 DEF EraseIfUnused
  <2> HIDE DEF M
  <2>7. Alive(g, r, {}, {})
    BY <2>4, <2>5 DEF Alive
  <2> QED BY <2>6, <2>7
<1> QED BY <1>1, <1>2

LEMMA MarkRecords ==
  ASSUME NEW g, NEW r, NEW h, NEW v, NEW m, GraphOK(g, r), Remarked(g, h, v, m), MarksOK(g),
         Bears(g, v, m)
  PROVE  MarksOK(h) /\ RecordedIn(g) \subseteq RecordedIn(h)
<1>1. /\ DOMAIN h = DOMAIN g
      /\ \A u \in DOMAIN g : h[u].op = g[u].op /\ h[u].args = g[u].args
      /\ \A u \in DOMAIN g : h[u].marks = g[u].marks \cup IF u = v THEN {m} ELSE {}
  BY DEF Remarked
<1>2. \A u \in DOMAIN g : \A i \in DOMAIN g[u].args : g[u].args[i] \in DOMAIN g
  BY ArgBelow
<1>3. ASSUME NEW u \in DOMAIN g, Firm(g, u) PROVE Firm(h, u)
  <2>1. CASE g[u].op = "exponential"
    <3>1. g[u].args[1] \in DOMAIN g
      BY <2>1, UnaryOperand DEF UnaryOps
    <3> QED BY <1>1, <1>3, <3>1 DEF Firm
  <2>2. CASE g[u].op # "exponential"
    BY <1>1, <1>3, <2>2 DEF Firm
  <2> QED BY <2>1, <2>2
<1>4. ASSUME NEW u \in DOMAIN g, g[u].op \in {"add", "multiply"}, NEW i \in {1, 2}
      PROVE  g[u].args[i] \in DOMAIN g
  BY <1>4, BinaryOperands DEF BinaryOps
<1>5. ASSUME NEW u \in DOMAIN g, Stiff(g, u) PROVE Stiff(h, u)
  <2>1. PICK i \in {1, 2} : Firm(g, g[u].args[i])
    BY <1>5 DEF Stiff
  <2>2. Firm(h, g[u].args[i])
    BY <1>3, <1>4, <1>5, <2>1 DEF Stiff
  <2> QED BY <1>1, <1>5, <2>2 DEF Stiff
<1>6. ASSUME NEW u \in DOMAIN g, NEW k, Bears(g, u, k) PROVE Bears(h, u, k)
  <2>1. CASE g[u].op \in {"add", "multiply"} /\ Anchored(g, u)
    <3>1. PICK i \in {1, 2} : Firm(g, g[u].args[i]) \/ Stiff(g, g[u].args[i])
      BY <2>1 DEF Anchored
    <3>2. Firm(h, g[u].args[i]) \/ Stiff(h, g[u].args[i])
      BY <1>3, <1>4, <1>5, <2>1, <3>1
    <3> QED BY <1>1, <2>1, <3>2 DEF Bears, Anchored
  <2> QED BY <1>1, <1>6, <2>1 DEF Bears
<1>7. MarksOK(h)
  <2> SUFFICES ASSUME NEW u \in DOMAIN h, NEW k \in h[u].marks \cap Boundaries
               PROVE  Bears(h, u, k)
    BY DEF MarksOK
  <2>1. k \in g[u].marks \/ (u = v /\ k = m)
    BY <1>1
  <2>2. Bears(g, u, k)
    BY <1>1, <2>1 DEF MarksOK
  <2> QED BY <1>1, <1>6, <2>2
<1>8. RecordedIn(g) \subseteq RecordedIn(h)
  BY <1>1 DEF RecordedIn
<1> QED BY <1>7, <1>8

LEMMA MarkAlive ==
  ASSUME NEW g, NEW r, NEW h, NEW v, NEW m, Remarked(g, h, v, m), NEW X,
         Alive(g, r, X, {})
  PROVE  Alive(h, r, X, {})
<1>1. PICK L : Supported(g, r, L) /\ \A u \in DOMAIN g \ L : g[u].op \in X \cup {"arg"}
  BY DEF Alive
<1>2. \A u \in DOMAIN g : h[u].op = g[u].op /\ ArgsOf(h, u) = ArgsOf(g, u)
  BY DEF Remarked, ArgsOf
<1>3. DOMAIN h = DOMAIN g
  BY DEF Remarked
<1>4. Supported(h, r, L)
  BY <1>1, <1>2, <1>3 DEF Supported
<1> QED BY <1>1, <1>2, <1>3, <1>4 DEF Alive

\* A replacement of an op that bears no mark.
LEMMA RecordsIf ==
  ASSUME NEW g, NEW r, NEW h, NEW t, NEW old, NEW new, NEW created, NEW top,
         Replaces(g, r, h, t, old, new, created, top), Yields(g, old),
         \A m \in Boundaries : ~Bears(g, old, m),
         \A i \in 1..Len(created) :
           \A m \in created[i].marks \cap Boundaries : Bears(h, top + i, m),
         NEW D, Drops(g, old, new, created, top, D), NEW X,
         \/ g[old].op \notin X \cup {"arg"}
         \/ \A i \in 1..Len(created) : created[i].op \in X,
         \A d \in D : d = old \/ g[d].op \in X
  PROVE  Records(g, r, h, t, X)
<1> SUFFICES ASSUME MarksOK(g)
             PROVE  /\ MarksOK(h) /\ RecordedIn(g) \subseteq RecordedIn(h)
                    /\ Alive(g, r, X, {}) => Alive(h, t, X, {})
  BY DEF Records
<1>1. old \in DOMAIN g
  BY DEF Replaces, Replacement
<1>2. \A m \in Boundaries : m \notin g[old].marks
  BY <1>1 DEF MarksOK
<1>3. MarksOK(h) /\ \A m \in RecordedIn(g) : m \in RecordedIn(h) \/ m \in g[old].marks
  BY ReplaceRecords
<1>4. RecordedIn(g) \subseteq RecordedIn(h)
  BY <1>2, <1>3 DEF RecordedIn
<1>5. \A d \in D : d = old \/ d \in {} \/ g[d].op \in X
  OBVIOUS
<1>6. Alive(g, r, X, {}) => Alive(h, t, X, {})
  BY <1>5, ReplaceAlive
<1> QED BY <1>3, <1>4, <1>6

LEMMA EraseIfUnusedRecords ==
  ASSUME NEW e, GraphOK(e.g, e.r), NEW x \in DOMAIN e.g, MarksOK(e.g)
  PROVE  /\ MarksOK(EraseIfUnused(e, x).g)
         /\ \A m \in RecordedIn(e.g) :
              m \in RecordedIn(EraseIfUnused(e, x).g) \/ m \in e.g[x].marks
<1>1. CASE Uses(e.g, e.r, x) = {}
  <2> DEFINE h == [n \in DOMAIN e.g \ {x} |-> e.g[n]]
  <2>1. EraseIfUnused(e, x).g = h
    BY <1>1 DEF EraseIfUnused, EraseOp
  <2>2. Unused(e.g, e.r, x)
    BY <1>1, NoUses
  <2> QED BY <2>1, <2>2, EraseRecords
<1>2. CASE Uses(e.g, e.r, x) # {}
  BY <1>2 DEF EraseIfUnused
<1> QED BY <1>1, <1>2

-----------------------------------------------------------------------------
(***************************************************************************)
(* Each pattern makes a replacement.                                       *)
(***************************************************************************)
LEMMA UnaryArgs ==
  ASSUME NEW g, NEW r, GraphOK(g, r), NEW v \in DOMAIN g, g[v].op \in UnaryOps
  PROVE  /\ ArgsOf(g, v) = {g[v].args[1]}
         /\ g[v].args[1] \in Below(g, v) /\ g[v].args[1] \in DOMAIN g
<1>1. DOMAIN g[v].args = {1}
  BY UnaryOperand
<1> QED BY <1>1, ArgBelow DEF ArgsOf

LEMMA BinaryArgs ==
  ASSUME NEW g, NEW r, GraphOK(g, r), NEW v \in DOMAIN g, g[v].op \in BinaryOps
  PROVE  /\ ArgsOf(g, v) = {g[v].args[1], g[v].args[2]}
         /\ g[v].args[1] \in Below(g, v) /\ g[v].args[1] \in DOMAIN g
         /\ g[v].args[2] \in Below(g, v) /\ g[v].args[2] \in DOMAIN g
<1>1. DOMAIN g[v].args = {1, 2}
  BY BinaryOperands
<1> QED BY <1>1, ArgBelow DEF ArgsOf

LEMMA ConvBNKeeps ==
  ASSUME GraphOK(graph, ret), ConvBNFusion
  PROVE  /\ Keeps(graph, ret, graph', ret') /\ Values(graph, ret, graph', ret')
         /\ RecordedIn(graph) = {} => RecordedIn(graph') = {}
         /\ OldTotals(graph, graph')
<1>1. PICK bn \in ConvBNs :
        LET conv == Arg(bn, 1)
            params == Attr(Arg(bn, 2))
            weight == Arg(conv, 2)
        IN  Rewritten(EraseIfUnused(ReplaceOp(bn,
              <<New("constant", <<>>, Scaled(Attr(weight), params), weight),
                New("convolution", <<Arg(conv, 1), Fresh(1)>>, Attr(conv), conv),
                New("constant", <<>>, Shift(params), Arg(bn, 2)),
                New("broadcast", <<Fresh(3)>>, Attr(bn), bn),
                New("add", <<Fresh(2), Fresh(4)>>, <<>>, bn)>>), conv))
  BY DEF ConvBNFusion
<1> DEFINE conv == graph[bn].args[1]
           second == graph[bn].args[2]
           x == graph[conv].args[1]
           weight == graph[conv].args[2]
           params == graph[second].attr
           top == Fresh(0)
           n1 == Node("constant", <<>>, Scaled(graph[weight].attr, params), graph[weight].shape, {})
           n2 == Node("convolution", <<x, Fresh(1)>>, graph[conv].attr, graph[conv].shape, {})
           n3 == Node("constant", <<>>, Shift(params), graph[second].shape, {})
           n4 == Node("broadcast", <<Fresh(3)>>, graph[bn].attr, graph[bn].shape, {})
           n5 == Node("add", <<Fresh(2), Fresh(4)>>, <<>>, graph[bn].shape, {})
           created == <<n1, n2, n3, n4, n5>>
           e == ReplaceOp(bn, created)
           D == {bn, conv, second, weight}
<1>2. graph' = EraseIfUnused(e, conv).g /\ ret' = EraseIfUnused(e, conv).r
  BY <1>1 DEF Rewritten, New, Arg, Attr, Shape
<1>3. /\ bn \in DOMAIN graph /\ graph[bn].op = "batch_norm"
      /\ graph[conv].op = "convolution" /\ graph[second].op = "constant"
      /\ graph[weight].op = "constant"
      /\ graph[bn].attr = FeatureOf(graph[conv].attr)
  BY DEF ConvBNs, Ops, Is, isConvBN, Arg, Attr
<1>4. /\ ArgsOf(graph, bn) = {conv, second}
      /\ conv \in Below(graph, bn) /\ conv \in DOMAIN graph
      /\ second \in Below(graph, bn) /\ second \in DOMAIN graph
  BY <1>3, BinaryArgs DEF BinaryOps
<1>5. /\ ArgsOf(graph, conv) = {x, weight}
      /\ x \in Below(graph, conv) /\ weight \in Below(graph, conv) /\ weight \in DOMAIN graph
  BY <1>3, <1>4, BinaryArgs DEF BinaryOps
<1>6. x \in Below(graph, bn) /\ weight \in Below(graph, bn)
  BY <1>3, <1>4, <1>5, BelowTransitive
<1>7. ArgsOf(graph, second) = {} /\ ArgsOf(graph, weight) = {}
  BY <1>3, <1>4, <1>5, NoArgs
<1>8. /\ top \in Nat /\ \A v \in DOMAIN graph : v <= top
      /\ Fresh(1) = top + 1 /\ Fresh(2) = top + 2 /\ Fresh(3) = top + 3
      /\ Fresh(4) = top + 4 /\ Fresh(5) = top + 5
  BY <1>3, TopFresh
<1>9. /\ graph[bn].args[1] = conv /\ graph[bn].args[2] = second
       /\ graph[conv].args[1] = x /\ graph[conv].args[2] = weight
       /\ graph[second].attr = params
  OBVIOUS
<1>10. e = [g |-> e.g, r |-> e.r]
  BY DEF ReplaceOp
<1> HIDE DEF e, conv, second, x, weight, params, top
<1>11. /\ Len(created) = 5 /\ DOMAIN created = 1..5
      /\ created[1] = n1 /\ created[2] = n2 /\ created[3] = n3 /\ created[4] = n4
      /\ created[5] = n5
  OBVIOUS
<1>12. /\ n1.args = <<>> /\ n2.args = <<x, top + 1>> /\ n3.args = <<>>
       /\ n4.args = <<top + 3>> /\ n5.args = <<top + 2, top + 4>>
       /\ n5.shape = graph[bn].shape /\ n5.op = "add"
  BY <1>8 DEF Node
<1>13. /\ n1.op = "constant" /\ n2.op = "convolution" /\ n3.op = "constant"
       /\ n4.op = "broadcast"
       /\ n1.attr = Scaled(graph[weight].attr, params) /\ n2.attr = graph[conv].attr
       /\ n3.attr = Shift(params) /\ n4.attr = graph[bn].attr /\ n5.attr = <<>>
       /\ n3.shape = graph[second].shape /\ n4.shape = graph[bn].shape
       /\ n1.marks = {} /\ n2.marks = {} /\ n3.marks = {} /\ n4.marks = {} /\ n5.marks = {}
  BY DEF Node
<1>14. /\ Creatable(graph, bn, top, 1, n1)
       /\ Creatable(graph, bn, top, 2, n2)
       /\ Creatable(graph, bn, top, 3, n3)
       /\ Creatable(graph, bn, top, 4, n4)
       /\ Creatable(graph, bn, top, 5, n5)
  <2> DEFINE S(i) == Below(graph, bn) \cup (top + 1)..(top + i - 1)
  <2>1. <<>> \in Seq(S(1)) /\ <<>> \in Seq(S(3))
    OBVIOUS
  <2>2. x \in S(2) /\ top + 1 \in S(2) /\ top + 3 \in S(4) /\ top + 2 \in S(5) /\ top + 4 \in S(5)
    BY <1>6, <1>8
  <2> HIDE DEF S
  <2>3. <<x, top + 1>> \in Seq(S(2)) /\ <<top + 3>> \in Seq(S(4))
        /\ <<top + 2, top + 4>> \in Seq(S(5))
    BY <2>2
  <2>4. Arity(n1) /\ Arity(n2) /\ Arity(n3) /\ Arity(n4) /\ Arity(n5)
    BY DEF Arity, Node
  <2>5. n1.args \in Seq(S(1)) /\ n2.args \in Seq(S(2)) /\ n3.args \in Seq(S(3))
        /\ n4.args \in Seq(S(4)) /\ n5.args \in Seq(S(5))
    BY <1>12, <2>1, <2>3
  <2>6. ASSUME NEW n \in {n1, n2, n3, n4, n5}
        PROVE  /\ n = Node(n.op, n.args, n.attr, n.shape, n.marks)
               /\ n.op \notin Fixed /\ n.marks \cap Kept = {}
    BY DEF Node, Fixed
  <2> HIDE DEF n1, n2, n3, n4, n5
  <2> QED BY <2>4, <2>5, <2>6 DEF Creatable, S
<1> HIDE DEF n1, n2, n3, n4, n5, created
<1>15. \A i \in 1..5 : i = 1 \/ i = 2 \/ i = 3 \/ i = 4 \/ i = 5
  OBVIOUS
<1>16. Replacement(graph, bn, Fresh(5), created, top)
  BY <1>3, <1>8, <1>11, <1>12, <1>14, <1>15
     DEF Replacement, NoDenominator, StandsFor, Fixed
<1>17. Replaces(graph, ret, e.g, e.r, bn, Fresh(5), created, top)
  BY <1>11, <1>16, ReplaceOpReplaces DEF e, top
<1>18. /\ UsedBy(created, top + 1) /\ UsedBy(created, top + 2) /\ UsedBy(created, top + 3)
       /\ UsedBy(created, top + 4) /\ UsedBy(created, x)
  <2>1. DOMAIN n2.args = {1, 2} /\ DOMAIN n4.args = {1} /\ DOMAIN n5.args = {1, 2}
    BY <1>12
  <2>2. n2.args[1] = x /\ n2.args[2] = top + 1 /\ n4.args[1] = top + 3
        /\ n5.args[1] = top + 2 /\ n5.args[2] = top + 4
    BY <1>12
  <2> QED BY <1>11, <2>1, <2>2 DEF UsedBy
<1>19. Drops(graph, bn, Fresh(5), created, top, D)
  BY <1>3, <1>4, <1>5, <1>6, <1>7, <1>11, <1>15, <1>18 DEF Drops
<1>20. Keeps(graph, ret, e.g, e.r)
  BY <1>17, <1>19, ReplaceKeeps
<1>21. conv \notin Dots(e.g)
  <2>1. conv \in DOMAIN graph \ {bn}
    BY <1>3, <1>4, NotBelowItself
  <2>2. SameOp(e.g[conv], graph[conv])
    BY <1>17, <2>1, OldOp
  <2> QED BY <1>3, <2>2 DEF SameOp, Dots
<1> DEFINE V == Denotation(graph)
           W == Denotation(e.g)
<1>22. /\ Sound(graph, ret) /\ Sound(e.g, e.r)
       /\ Fresh(5) \in DOMAIN e.g
       /\ e.g[top + 1] = n1 /\ top + 1 \in DOMAIN e.g
       /\ e.g[top + 2] = n2 /\ top + 2 \in DOMAIN e.g
       /\ e.g[top + 3] = n3 /\ top + 3 \in DOMAIN e.g
       /\ e.g[top + 4] = n4 /\ top + 4 \in DOMAIN e.g
       /\ e.g[top + 5] = n5 /\ top + 5 \in DOMAIN e.g
  <2>1. \A i \in 1..Len(created) : e.g[top + i] = created[i] /\ top + i \in DOMAIN e.g
    BY <1>17, CreatedOp
  <2>2. Sound(graph, ret) /\ Sound(e.g, e.r)
    BY <1>20 DEF Keeps, GraphOK, Sound
  <2> QED BY <1>8, <1>11, <2>1, <2>2
<1>23. ASSUME DimsFit(graph) PROVE DimsFit(e.g)
  <2>1. DimsOf(graph, bn)
    BY <1>3, <1>23, DimsLie
  <2>2. DimsOf(e.g, top + 4)
    BY <1>3, <1>12, <1>13, <1>22, <1>9, <2>1 DEF DimsOf
  <2> QED BY <1>11, <1>15, <1>17, <1>13, <1>12, <1>23, <2>2, ReplaceDims
<1>24. Stood(graph, e.g, bn, top + 5)
  <2> SUFFICES ASSUME \A u \in DOMAIN graph \cap DOMAIN e.g :
                        u \in Below(graph, bn) => W[u] = V[u]
               PROVE  W[top + 5] = V[bn]
    BY DEF Stood
  <2>1. W[x] = V[x]
    <3>1. x \in DOMAIN graph \ {bn}
      BY <1>3, <1>6, NotBelowItself
    <3> QED BY <1>6, <1>17, <3>1, EditedOps
  <2>2. /\ V[weight] = Constant(graph[weight].attr) /\ V[second] = Constant(params)
    BY <1>3, <1>4, <1>5, <1>22, <1>9, ConstantValue DEF GraphOK, NodesOK, Arity
  <2>3. V[conv] = Term("convolution", graph[conv].attr,
                       <<V[x], Constant(graph[weight].attr)>>)
    <3>1. DOMAIN graph[conv].args = {1, 2}
      BY <1>3, <1>4, BinaryOperands DEF BinaryOps
    <3>2. V[conv] = Meaning(graph[conv], <<V[x], V[weight]>>,
                            <<graph[x].shape, graph[weight].shape>>)
      BY <1>4, <1>22, <1>9, <3>1, BinaryValue
    <3>3. graph[conv].op \notin Interpreted
      BY <1>3 DEF Interpreted
    <3> HIDE DEF V
    <3>4. Meaning(graph[conv], <<V[x], V[weight]>>,
                  <<graph[x].shape, graph[weight].shape>>)
            = Term(graph[conv].op, graph[conv].attr, <<V[x], V[weight]>>)
      BY <3>3, PlainMeaning
    <3>5. graph[conv].op = "convolution"
      BY <1>3
    <3> QED BY <2>2, <3>2, <3>4, <3>5
  <2>4. V[bn] = Meaning(graph[bn], <<V[conv], V[second]>>,
                        <<graph[conv].shape, graph[second].shape>>)
    <3>1. DOMAIN graph[bn].args = {1, 2}
      BY <1>3, BinaryOperands DEF BinaryOps
    <3> QED BY <1>3, <1>22, <1>9, <3>1, BinaryValue
  <2> DEFINE scaled == Term("convolution", graph[conv].attr,
                            <<V[x], Constant(Scaled(graph[weight].attr, params))>>)
             shift == Broadcast(graph[bn].attr, graph[second].shape,
                                Constant(Shift(params)), graph[bn].shape)
  <2>5. V[bn] = Term("add", <<>>, <<scaled, shift>>)
    <3>1. <<graph[conv].shape, graph[second].shape>>[2] = graph[second].shape
      OBVIOUS
    <3> HIDE DEF V
    <3> QED BY <1>3, <2>2, <2>3, <2>4, <3>1, NormalisedConvolution
  <2>6. W[top + 1] = Constant(Scaled(graph[weight].attr, params))
        /\ W[top + 3] = Constant(Shift(params))
    BY <1>12, <1>13, <1>22, ConstantValue
  <2>7. W[top + 2] = scaled
    <3>1. DOMAIN n2.args = {1, 2} /\ n2.args[1] = x /\ n2.args[2] = top + 1
      BY <1>12
    <3>2. W[top + 2] = Meaning(n2, <<W[x], W[top + 1]>>, <<e.g[x].shape, e.g[top + 1].shape>>)
      BY <1>22, <3>1, BinaryValue
    <3>3. n2.op \notin Interpreted
      BY <1>13 DEF Interpreted
    <3>4. W[top + 2] = Term(n2.op, n2.attr, <<W[x], W[top + 1]>>)
      BY <3>2, <3>3, PlainMeaning
    <3> QED BY <1>13, <2>1, <2>6, <3>4
  <2>8. W[top + 4] = shift
    <3>1. DOMAIN n4.args = {1} /\ n4.args[1] = top + 3
      BY <1>12
    <3>2. W[top + 4] = Meaning(n4, <<W[top + 3]>>, <<e.g[top + 3].shape>>)
      BY <1>22, <3>1, UnaryValue
    <3> QED BY <1>13, <1>22, <2>6, <3>2, BroadcastMeaning
  <2>9. W[top + 5] = Meaning(n5, <<W[top + 2], W[top + 4]>>,
                             <<e.g[top + 2].shape, e.g[top + 4].shape>>)
    <3>1. DOMAIN n5.args = {1, 2} /\ n5.args[1] = top + 2 /\ n5.args[2] = top + 4
      BY <1>12
    <3> QED BY <1>22, <3>1, BinaryValue
  <2> HIDE DEF V, W, shift
  <2>10. W[top + 5] = Term("add", <<>>, <<scaled, shift>>)
    BY <1>12, <1>13, <2>7, <2>8, <2>9, SumOfConvolution
  <2> QED BY <2>5, <2>10
<1>25. Values(graph, ret, e.g, e.r)
  <2>1. Computes(e.g, e.r) = Computes(graph, ret)
    BY <1>8, <1>17, <1>22, <1>24, ReplaceValues
  <2> QED BY <1>23, <2>1 DEF Values
<1>26. ASSUME RecordedIn(graph) = {} PROVE RecordedIn(EraseIfUnused(e, conv).g) = {}
  <2> DEFINE k == EraseIfUnused(e, conv).g
  <2>1. \A v \in DOMAIN k : v \in DOMAIN e.g /\ k[v] = e.g[v]
    BY DEF EraseIfUnused, EraseOp
  <2>2. \A v \in DOMAIN e.g : v \in DOMAIN graph \ {bn} \/ \E i \in 1..Len(created) : v = top + i
    BY <1>17, EditedOps
  <2>3. \A v \in DOMAIN graph \ {bn} : e.g[v].marks = graph[v].marks
    BY <1>17, OldOp DEF SameOp
  <2>4. \A v \in DOMAIN graph : graph[v].marks \cap Boundaries = {}
    BY <1>26 DEF RecordedIn
  <2>5. \A i \in 1..Len(created) : e.g[top + i].marks = {}
    BY <1>11, <1>15, <1>13, <1>22
  <2> HIDE DEF k
  <2>6. \A v \in DOMAIN k : k[v].marks \cap Boundaries = {}
    BY <2>1, <2>2, <2>3, <2>4, <2>5
  <2>7. RecordedIn(k) = {}
    BY <2>6 DEF RecordedIn
  <2> QED BY <2>7 DEF k
<1>27. OldTotals(graph, e.g)
  <2>1. Fresh(5) = top + 5 /\ e.g[Fresh(5)].op = "add"
    BY <1>8, <1>12, <1>22
  <2> QED BY <1>17, <2>1, ReplaceTotals
<1>28. OldTotals(graph, EraseIfUnused(e, conv).g)
  BY <1>10, <1>20, <1>21, <1>27, EraseIfUnusedTotals DEF Keeps
<1> QED BY <1>2, <1>20, <1>21, <1>10, <1>25, <1>26, <1>28, EraseIfUnusedKeeps,
           EraseIfUnusedValues

LEMMA TripleSeq ==
  ASSUME NEW T, NEW a \in T, NEW b \in T, NEW c \in T
  PROVE  <<a, b, c>> \in Seq(T)
OBVIOUS

LEMMA ConvBNReluKeeps ==
  ASSUME GraphOK(graph, ret), ConvBNReluFusion
  PROVE  /\ Keeps(graph, ret, graph', ret') /\ Values(graph, ret, graph', ret')
         /\ Records(graph, ret, graph', ret', {})
         /\ OldTotals(graph, graph')
<1>1. PICK max \in ReluMaxes :
        LET i == ZeroSide(max)
        IN  Rewritten(ReplaceOp(max,
              <<Infinity(max),
                New("clamp", <<Arg(max, i), Arg(max, 3 - i), Fresh(1)>>, <<>>,
                    max)>>))
  BY DEF ConvBNReluFusion
<1> DEFINE i == ZeroSide(max)
           a == graph[max].args[i]
           b == graph[max].args[3 - i]
           top == Fresh(0)
           n1 == Node("constant", <<>>, <<"inf">>, graph[max].shape, {})
           n2 == Node("clamp", <<a, b, Fresh(1)>>, <<>>, graph[max].shape, {})
           created == <<n1, n2>>
           e == ReplaceOp(max, created)
           D == {max}
<1>2. graph' = e.g /\ ret' = e.r
  BY <1>1 DEF Rewritten, New, Infinity, Arg, Shape
<1>3. /\ max \in DOMAIN graph /\ graph[max].op = "maximum" /\ i \in {1, 2}
      /\ graph[a].op = "constant" /\ graph[a].attr = <<"zero">>
      /\ graph[max].args[i] = a /\ graph[max].args[3 - i] = b
  BY DEF ReluMaxes, Ops, Is, ZeroSide, isReluMax, Splat, Attr, Arg
<1> HIDE DEF i
<1>4. /\ ArgsOf(graph, max) = {a, b}
      /\ a \in Below(graph, max) /\ b \in Below(graph, max)
      /\ a \in DOMAIN graph /\ b \in DOMAIN graph
  <2>1. (i = 1 /\ 3 - i = 2) \/ (i = 2 /\ 3 - i = 1)
    BY <1>3
  <2> QED BY <1>3, <2>1, BinaryArgs DEF BinaryOps
<1>5. /\ top \in Nat /\ \A v \in DOMAIN graph : v <= top
      /\ Fresh(1) = top + 1 /\ Fresh(2) = top + 2
  BY <1>3, TopFresh
<1> HIDE DEF a, b
<1>6. /\ Len(created) = 2 /\ DOMAIN created = 1..2 /\ created[1] = n1 /\ created[2] = n2
  OBVIOUS
<1>7. n1.args = <<>> /\ n2.args = <<a, b, top + 1>> /\ n2.shape = graph[max].shape
      /\ n2.op = "clamp" /\ n1.op = "constant" /\ n1.attr = <<"inf">>
      /\ n1.marks = {} /\ n2.marks = {}
  BY <1>5 DEF Node
<1>8. Creatable(graph, max, top, 1, n1) /\ Creatable(graph, max, top, 2, n2)
  <2> DEFINE S(k) == Below(graph, max) \cup (top + 1)..(top + k - 1)
  <2>1. <<>> \in Seq(S(1)) /\ a \in S(2) /\ b \in S(2) /\ top + 1 \in S(2)
    BY <1>4, <1>5
  <2> HIDE DEF S
  <2>2. n1.args \in Seq(S(1)) /\ n2.args \in Seq(S(2))
    <3>1. <<a, b, top + 1>> \in Seq(S(2))
      BY <2>1, TripleSeq
    <3> QED BY <1>7, <2>1, <3>1
  <2>3. Arity(n1) /\ Arity(n2)
    BY DEF Arity, Node
  <2>4. ASSUME NEW n \in {n1, n2}
        PROVE  /\ n = Node(n.op, n.args, n.attr, n.shape, n.marks)
               /\ n.op \notin Fixed /\ n.marks \cap Kept = {}
    BY DEF Node, Fixed
  <2> HIDE DEF n1, n2
  <2> QED BY <2>2, <2>3, <2>4 DEF Creatable, S
<1> HIDE DEF n1, n2, created
<1>9. \A k \in 1..2 : k = 1 \/ k = 2
  OBVIOUS
<1>10. Replacement(graph, max, Fresh(2), created, top)
  BY <1>3, <1>5, <1>6, <1>7, <1>8, <1>9 DEF Replacement, NoDenominator, StandsFor, Fixed
<1>11. Replaces(graph, ret, e.g, e.r, max, Fresh(2), created, top)
  BY <1>6, <1>10, ReplaceOpReplaces
<1>12. UsedBy(created, top + 1) /\ UsedBy(created, a) /\ UsedBy(created, b)
  <2>1. DOMAIN n2.args = {1, 2, 3} /\ n2.args[1] = a /\ n2.args[2] = b
        /\ n2.args[3] = top + 1
    BY <1>7
  <2> QED BY <1>6, <2>1 DEF UsedBy
<1>13. Drops(graph, max, Fresh(2), created, top, D)
  BY <1>3, <1>4, <1>6, <1>9, <1>12 DEF Drops
<1>14. Keeps(graph, ret, e.g, e.r)
  BY <1>11, <1>13, ReplaceKeeps
<1> HIDE DEF e
<1> DEFINE V == Denotation(graph)
           W == Denotation(e.g)
<1>15. /\ Sound(graph, ret) /\ Sound(e.g, e.r)
       /\ e.g[top + 1] = n1 /\ top + 1 \in DOMAIN e.g
       /\ e.g[top + 2] = n2 /\ top + 2 \in DOMAIN e.g
  <2>1. \A k \in 1..Len(created) : e.g[top + k] = created[k] /\ top + k \in DOMAIN e.g
    BY <1>11, CreatedOp
  <2>2. Sound(graph, ret) /\ Sound(e.g, e.r)
    BY <1>14 DEF Keeps, GraphOK, Sound
  <2> QED BY <1>6, <1>9, <2>1, <2>2
<1>16. DimsFit(graph) => DimsFit(e.g)
  BY <1>6, <1>7, <1>9, <1>11, ReplaceDims
<1>17. Stood(graph, e.g, max, top + 2)
  <2> SUFFICES ASSUME \A u \in DOMAIN graph \cap DOMAIN e.g :
                        u \in Below(graph, max) => W[u] = V[u]
               PROVE  W[top + 2] = V[max]
    BY DEF Stood
  <2>1. W[a] = V[a] /\ W[b] = V[b]
    <3>1. a \in DOMAIN graph \ {max} /\ b \in DOMAIN graph \ {max}
      BY <1>3, <1>4, NotBelowItself
    <3> QED BY <1>4, <1>11, <3>1, EditedOps
  <2>2. V[a] = Constant(<<"zero">>) /\ ZeroTerm(V[a])
    BY <1>3, <1>4, <1>15, ConstantValue DEF GraphOK, NodesOK, Arity, ZeroTerm, Zero
  <2>3. V[max] = Relu(V[b])
    BY <1>3, <2>2, MaximumWithZero
  <2>4. W[top + 1] = Constant(<<"inf">>)
    BY <1>7, <1>15, ConstantValue
  <2>5. W[top + 2] = Meaning(n2, <<W[a], W[b], W[top + 1]>>,
                             <<e.g[a].shape, e.g[b].shape, e.g[top + 1].shape>>)
    <3>1. DOMAIN n2.args = {1, 2, 3} /\ n2.args[1] = a /\ n2.args[2] = b
          /\ n2.args[3] = top + 1
      BY <1>7
    <3> QED BY <1>15, <3>1, TernaryValue
  <2> HIDE DEF V, W
  <2> QED BY <1>7, <2>1, <2>2, <2>3, <2>4, <2>5, ClampMeaning
<1>18. Computes(e.g, e.r) = Computes(graph, ret)
  BY <1>5, <1>11, <1>15, <1>17, ReplaceValues
<1>19. Records(graph, ret, e.g, e.r, {})
  <2>1. Yields(graph, max) /\ \A m \in Boundaries : ~Bears(graph, max, m)
    BY <1>3 DEF Yields, Firm, Stiff, Bears
  <2>2. \A k \in 1..Len(created) :
          \A m \in created[k].marks \cap Boundaries : Bears(e.g, top + k, m)
    BY <1>6, <1>7, <1>9
  <2> QED BY <1>3, <1>11, <1>13, <2>1, <2>2, RecordsIf
<1>20. OldTotals(graph, e.g)
  <2>1. Fresh(2) = top + 2 /\ e.g[Fresh(2)].op = "clamp"
    BY <1>5, <1>7, <1>15
  <2> QED BY <1>11, <2>1, ReplaceTotals
<1> QED BY <1>2, <1>14, <1>16, <1>18, <1>19, <1>20 DEF Values

LEMMA ElementwiseReluKeeps ==
  ASSUME GraphOK(graph, ret), ElementwiseReluFold
  PROVE  /\ Keeps(graph, ret, graph', ret') /\ Values(graph, ret, graph', ret')
         /\ Records(graph, ret, graph', ret', {"constant", "broadcast"})
<1>1. PICK max \in ChainMaxes :
        LET i == IF 2 \in ChainSides(max) THEN 2 ELSE 1
        IN  Rewritten(ReplaceOp(max,
              <<New("constant", <<>>, <<"zero">>, max),
                Infinity(max),
                NewMarked("clamp", <<Fresh(1), Arg(max, i), Fresh(2)>>, <<>>, max,
                          "elementwise_chain_fused")>>))
  BY DEF ElementwiseReluFold
<1> DEFINE i == IF 2 \in ChainSides(max) THEN 2 ELSE 1
           a == graph[max].args[i]
           z == graph[max].args[3 - i]
           top == Fresh(0)
           n1 == Node("constant", <<>>, <<"zero">>, graph[max].shape, {})
           n2 == Node("constant", <<>>, <<"inf">>, graph[max].shape, {})
           n3 == Node("clamp", <<Fresh(1), a, Fresh(2)>>, <<>>, graph[max].shape,
                      {"elementwise_chain_fused"})
           created == <<n1, n2, n3>>
           e == ReplaceOp(max, created)
           D == {max, z, Unwrap(z)}
<1>2. graph' = e.g /\ ret' = e.r
  BY <1>1 DEF Rewritten, New, NewMarked, Infinity, Arg, Shape
<1>3. max \in DOMAIN graph /\ graph[max].op = "maximum" /\ i \in {1, 2}
      /\ Splat(Unwrap(z), "zero")
      /\ graph[max].args[3 - i] = z /\ graph[max].args[3 - (3 - i)] = a
      /\ 3 - i \in {1, 2}
  <2>1. i \in ChainSides(max)
    BY DEF ChainMaxes, ChainSides
  <2> QED BY <2>1 DEF ChainMaxes, ChainSides, isZeroBroadCast, Ops, Is, Arg
<1> HIDE DEF i
<1>4. /\ ArgsOf(graph, max) = {a, z}
      /\ a \in Below(graph, max) /\ z \in Below(graph, max) /\ z \in DOMAIN graph
      /\ a \in DOMAIN graph
  <2>1. (i = 1 /\ 3 - i = 2) \/ (i = 2 /\ 3 - i = 1)
    BY <1>3
  <2> QED BY <1>3, <2>1, BinaryArgs DEF BinaryOps
<1> HIDE DEF a, z
<1>5. /\ Unwrap(z) \in DOMAIN graph /\ Unwrap(z) \in Below(graph, max)
      /\ graph[Unwrap(z)].op = "constant" /\ graph[z].op \in {"broadcast", "constant"}
      /\ ArgsOf(graph, z) \subseteq D /\ ArgsOf(graph, Unwrap(z)) = {}
  <2>1. graph[Unwrap(z)].op = "constant"
    BY <1>3 DEF Splat, Is
  <2>2. CASE graph[z].op = "broadcast"
    <3>1. Unwrap(z) = graph[z].args[1]
      BY <2>2 DEF Unwrap, Is, Arg
    <3>2. ArgsOf(graph, z) = {Unwrap(z)} /\ Unwrap(z) \in DOMAIN graph
          /\ Unwrap(z) \in Below(graph, z)
      BY <1>4, <2>2, <3>1, UnaryArgs DEF UnaryOps
    <3>3. Unwrap(z) \in Below(graph, max)
      BY <1>3, <1>4, <3>2, BelowTransitive
    <3>4. ArgsOf(graph, Unwrap(z)) = {}
      BY <2>1, <3>2, NoArgs
    <3> QED BY <2>1, <2>2, <3>2, <3>3, <3>4
  <2>3. CASE graph[z].op # "broadcast"
    <3>1. Unwrap(z) = z
      BY <2>3 DEF Unwrap, Is
    <3>2. ArgsOf(graph, z) = {}
      BY <1>4, <2>1, <3>1, NoArgs
    <3> QED BY <1>4, <2>1, <3>1, <3>2
  <2> QED BY <2>2, <2>3
<1>6. /\ top \in Nat /\ \A v \in DOMAIN graph : v <= top
      /\ Fresh(1) = top + 1 /\ Fresh(2) = top + 2 /\ Fresh(3) = top + 3
  BY <1>3, TopFresh
<1>7. /\ Len(created) = 3 /\ DOMAIN created = 1..3
      /\ created[1] = n1 /\ created[2] = n2 /\ created[3] = n3
  OBVIOUS
<1>8. /\ n1.args = <<>> /\ n2.args = <<>> /\ n3.args = <<top + 1, a, top + 2>>
      /\ n3.shape = graph[max].shape /\ n3.op = "clamp"
      /\ n1.op = "constant" /\ n1.attr = <<"zero">>
      /\ n2.op = "constant" /\ n2.attr = <<"inf">>
      /\ n1.marks = {} /\ n2.marks = {}
  BY <1>6 DEF Node
<1>9. /\ Creatable(graph, max, top, 1, n1) /\ Creatable(graph, max, top, 2, n2)
      /\ Creatable(graph, max, top, 3, n3)
  <2> DEFINE S(k) == Below(graph, max) \cup (top + 1)..(top + k - 1)
  <2>1. /\ <<>> \in Seq(S(1)) /\ <<>> \in Seq(S(2))
        /\ a \in S(3) /\ top + 1 \in S(3) /\ top + 2 \in S(3)
    BY <1>4, <1>6
  <2> HIDE DEF S
  <2>2. n1.args \in Seq(S(1)) /\ n2.args \in Seq(S(2)) /\ n3.args \in Seq(S(3))
    <3>1. <<top + 1, a, top + 2>> \in Seq(S(3))
      BY <2>1, TripleSeq
    <3> QED BY <1>8, <2>1, <3>1
  <2>3. Arity(n1) /\ Arity(n2) /\ Arity(n3)
    BY DEF Arity, Node
  <2>4. ASSUME NEW n \in {n1, n2, n3}
        PROVE  /\ n = Node(n.op, n.args, n.attr, n.shape, n.marks)
               /\ n.op \notin Fixed /\ n.marks \cap Kept = {}
    BY DEF Node, Fixed, Kept, Softmax, Attends, Flash
  <2> HIDE DEF n1, n2, n3
  <2> QED BY <2>2, <2>3, <2>4 DEF Creatable, S
<1> HIDE DEF n1, n2, n3, created
<1>10. \A k \in 1..3 : k = 1 \/ k = 2 \/ k = 3
  OBVIOUS
<1>11. Replacement(graph, max, Fresh(3), created, top)
  BY <1>3, <1>6, <1>7, <1>8, <1>9, <1>10 DEF Replacement, NoDenominator, StandsFor, Fixed
<1>12. Replaces(graph, ret, e.g, e.r, max, Fresh(3), created, top)
  BY <1>7, <1>11, ReplaceOpReplaces
<1>13. UsedBy(created, top + 1) /\ UsedBy(created, top + 2) /\ UsedBy(created, a)
  <2>1. DOMAIN n3.args = {1, 2, 3} /\ n3.args[1] = top + 1 /\ n3.args[2] = a
        /\ n3.args[3] = top + 2
    BY <1>8
  <2> QED BY <1>7, <2>1 DEF UsedBy
<1>14. Drops(graph, max, Fresh(3), created, top, D)
  BY <1>3, <1>4, <1>5, <1>7, <1>10, <1>13 DEF Drops
<1>15. Keeps(graph, ret, e.g, e.r)
  BY <1>12, <1>14, ReplaceKeeps
<1> HIDE DEF e
<1> DEFINE V == Denotation(graph)
           W == Denotation(e.g)
<1>16. /\ Sound(graph, ret) /\ Sound(e.g, e.r)
       /\ e.g[top + 1] = n1 /\ top + 1 \in DOMAIN e.g
       /\ e.g[top + 2] = n2 /\ top + 2 \in DOMAIN e.g
       /\ e.g[top + 3] = n3 /\ top + 3 \in DOMAIN e.g
  <2>1. \A k \in 1..Len(created) : e.g[top + k] = created[k] /\ top + k \in DOMAIN e.g
    BY <1>12, CreatedOp
  <2>2. Sound(graph, ret) /\ Sound(e.g, e.r)
    BY <1>15 DEF Keeps, GraphOK, Sound
  <2> QED BY <1>7, <1>10, <2>1, <2>2
<1>17. DimsFit(graph) => DimsFit(e.g)
  BY <1>7, <1>8, <1>10, <1>12, ReplaceDims
<1>18. ZeroTerm(V[z])
  <2> DEFINE u == Unwrap(z)
  <2>1. V[u] = Zero
    BY <1>3, <1>5, <1>16, ConstantValue
       DEF Splat, Is, Attr, GraphOK, NodesOK, Arity, Zero
  <2>2. CASE graph[z].op = "broadcast"
    <3>1. u = graph[z].args[1]
      BY <2>2 DEF Unwrap, Is, Arg
    <3>2. DOMAIN graph[z].args = {1}
      BY <1>4, <2>2, UnaryOperand DEF UnaryOps
    <3> HIDE DEF u
    <3>3. V[z] = Meaning(graph[z], <<V[u]>>, <<graph[u].shape>>)
      BY <1>4, <1>16, <3>1, <3>2, UnaryValue
    <3>4. V[z] = Broadcast(graph[z].attr, graph[u].shape, Zero, graph[z].shape)
      BY <2>1, <2>2, <3>3, BroadcastMeaning
    <3> HIDE DEF V
    <3> QED BY <3>4, SpreadZero
  <2>3. CASE graph[z].op # "broadcast"
    BY <2>1, <2>3, SpreadZero DEF Unwrap, Is
  <2> QED BY <2>2, <2>3
<1>19. Stood(graph, e.g, max, top + 3)
  <2> SUFFICES ASSUME \A u \in DOMAIN graph \cap DOMAIN e.g :
                        u \in Below(graph, max) => W[u] = V[u]
               PROVE  W[top + 3] = V[max]
    BY DEF Stood
  <2>1. W[a] = V[a]
    <3>1. a \in DOMAIN graph \ {max}
      BY <1>3, <1>4, NotBelowItself
    <3> QED BY <1>4, <1>12, <3>1, EditedOps
  <2>2. V[max] = Relu(V[a])
    BY <1>3, <1>18, MaximumWithZero
  <2>3. W[top + 1] = Zero /\ W[top + 2] = Constant(<<"inf">>)
    BY <1>8, <1>16, ConstantValue DEF Zero
  <2>4. W[top + 3] = Meaning(n3, <<W[top + 1], W[a], W[top + 2]>>,
                             <<e.g[top + 1].shape, e.g[a].shape, e.g[top + 2].shape>>)
    <3>1. DOMAIN n3.args = {1, 2, 3} /\ n3.args[1] = top + 1 /\ n3.args[2] = a
          /\ n3.args[3] = top + 2
      BY <1>8
    <3> QED BY <1>16, <3>1, TernaryValue
  <2> HIDE DEF V, W
  <2>5. ZeroTerm(W[top + 1])
    BY <2>3, SpreadZero
  <2> DEFINE from == <<e.g[top + 1].shape, e.g[a].shape, e.g[top + 2].shape>>
  <2>6. W[top + 3] = Meaning(n3, <<W[top + 1], W[a], Constant(<<"inf">>)>>, from)
    BY <2>3, <2>4, Zenon
  <2> HIDE DEF from
  <2> QED BY <1>8, <2>1, <2>2, <2>5, <2>6, ClampMeaning
<1>20. Computes(e.g, e.r) = Computes(graph, ret)
  BY <1>6, <1>12, <1>16, <1>19, ReplaceValues
<1>21. Records(graph, ret, e.g, e.r, {"constant", "broadcast"})
  <2>1. Yields(graph, max) /\ \A m \in Boundaries : ~Bears(graph, max, m)
    BY <1>3 DEF Yields, Firm, Stiff, Bears
  <2>2. \A k \in 1..Len(created) :
          \A m \in created[k].marks \cap Boundaries : Bears(e.g, top + k, m)
    BY <1>7, <1>8, <1>10, <1>16 DEF Bears
  <2>3. \A d \in D : d = max \/ graph[d].op \in {"constant", "broadcast"}
    BY <1>5
  <2>4. graph[max].op \notin {"constant", "broadcast"} \cup {"arg"}
    BY <1>3
  <2> HIDE DEF D
  <2> QED BY <1>12, <1>14, <2>1, <2>2, <2>3, <2>4, RecordsIf
<1> QED BY <1>2, <1>15, <1>17, <1>20, <1>21 DEF Values

LEMMA ProducerConsumerKeeps ==
  ASSUME GraphOK(graph, ret), ProducerConsumerLegalize
  PROVE  /\ Keeps(graph, ret, graph', ret')
         /\ DimsFit(graph) => /\ DimsFit(graph')
                              /\ Computed' = Computed \/ TurnsShift
         /\ Records(graph, ret, graph', ret', {})
<1>1. PICK exp \in ProducerConsumerExps :
        LET sub == Arg(exp, 1)
            i == ScoresSide(sub)
        IN  Rewritten(EraseIfUnused(ReplaceOp(exp,
              <<New("negate", <<Arg(sub, 3 - i)>>, <<>>, exp),
                New("exponential", <<Fresh(1)>>, <<>>, exp),
                New("exponential", <<Arg(sub, i)>>, <<>>, exp),
                NewMarked("multiply", <<Fresh(3), Fresh(2)>>, <<>>, exp,
                          "producer_consumer_fused")>>), sub))
  BY DEF ProducerConsumerLegalize
<1> DEFINE sub == graph[exp].args[1]
           i == ScoresSide(sub)
           a == graph[sub].args[i]
           b == graph[sub].args[3 - i]
           top == Fresh(0)
           n1 == Node("negate", <<b>>, <<>>, graph[exp].shape, {})
           n2 == Node("exponential", <<Fresh(1)>>, <<>>, graph[exp].shape, {})
           n3 == Node("exponential", <<a>>, <<>>, graph[exp].shape, {})
           n4 == Node("multiply", <<Fresh(3), Fresh(2)>>, <<>>, graph[exp].shape,
                      {"producer_consumer_fused"})
           created == <<n1, n2, n3, n4>>
           e == ReplaceOp(exp, created)
           D == {exp, sub}
<1>2. graph' = EraseIfUnused(e, sub).g /\ ret' = EraseIfUnused(e, sub).r
  BY <1>1 DEF Rewritten, New, NewMarked, Arg, Shape
<1>3. /\ exp \in DOMAIN graph /\ graph[exp].op = "exponential"
      /\ graph[sub].op = "subtract" /\ i \in {1, 2}
  BY DEF ProducerConsumerExps, Unmarked, Ops, Is, isProducerConsumerExp, Arg, ScoresSide
<1>31. Cardinality(Uses(graph, ret, sub)) = 1
  BY DEF ProducerConsumerExps, isProducerConsumerExp, Arg, hasOneUse
<1>32. i = 1 => graph[sub].args[1] = graph[sub].args[i] /\ graph[sub].args[2] = graph[sub].args[3 - i]
  OBVIOUS
<1>33. i = 2 => graph[sub].args[2] = graph[sub].args[i] /\ graph[sub].args[1] = graph[sub].args[3 - i]
  OBVIOUS
<1>4. /\ ArgsOf(graph, exp) = {sub} /\ sub \in Below(graph, exp) /\ sub \in DOMAIN graph
  BY <1>3, UnaryArgs DEF UnaryOps
<1>34. i = 2 => ScoresSide(Arg(exp, 1)) = 2
  BY DEF Arg
<1>35. i = 1 => graph[sub].args = <<graph[sub].args[1], graph[sub].args[2]>>
  <2>1. Len(graph[sub].args) = 2 /\ graph[sub].args \in Seq(DOMAIN graph)
    BY <1>3, <1>4 DEF GraphOK, NodesOK, Arity, Closed
  <2> QED BY <2>1
<1> HIDE DEF i
<1>5. /\ ArgsOf(graph, sub) = {a, b} /\ a \in Below(graph, exp) /\ b \in Below(graph, exp)
      /\ a \in Below(graph, sub) /\ b \in Below(graph, sub)
  <2>1. (i = 1 /\ 3 - i = 2) \/ (i = 2 /\ 3 - i = 1)
    BY <1>3
  <2>2. ArgsOf(graph, sub) = {a, b} /\ a \in Below(graph, sub) /\ b \in Below(graph, sub)
    BY <1>3, <1>4, <2>1, BinaryArgs DEF BinaryOps
  <2> QED BY <1>3, <1>4, <2>2, BelowTransitive
<1> HIDE DEF a, b
<1>6. /\ top \in Nat /\ \A v \in DOMAIN graph : v <= top
      /\ Fresh(1) = top + 1 /\ Fresh(2) = top + 2 /\ Fresh(3) = top + 3
      /\ Fresh(4) = top + 4
  BY <1>3, TopFresh
<1>7. /\ Len(created) = 4 /\ DOMAIN created = 1..4
      /\ created[1] = n1 /\ created[2] = n2 /\ created[3] = n3 /\ created[4] = n4
  OBVIOUS
<1>8. /\ n1.args = <<b>> /\ n2.args = <<top + 1>> /\ n3.args = <<a>>
      /\ n4.args = <<top + 3, top + 2>>
      /\ n4.shape = graph[exp].shape /\ n4.op = "multiply"
      /\ n1.op = "negate" /\ n2.op = "exponential" /\ n3.op = "exponential"
      /\ n1.attr = <<>> /\ n2.attr = <<>> /\ n3.attr = <<>>
      /\ n1.marks = {} /\ n2.marks = {} /\ n3.marks = {}
  BY <1>6 DEF Node
<1>9. /\ Creatable(graph, exp, top, 1, n1) /\ Creatable(graph, exp, top, 2, n2)
      /\ Creatable(graph, exp, top, 3, n3) /\ Creatable(graph, exp, top, 4, n4)
  <2> DEFINE S(k) == Below(graph, exp) \cup (top + 1)..(top + k - 1)
  <2>1. /\ b \in S(1) /\ top + 1 \in S(2) /\ a \in S(3)
        /\ top + 3 \in S(4) /\ top + 2 \in S(4)
    BY <1>5, <1>6
  <2> HIDE DEF S
  <2>2. /\ <<b>> \in Seq(S(1)) /\ <<top + 1>> \in Seq(S(2)) /\ <<a>> \in Seq(S(3))
        /\ <<top + 3, top + 2>> \in Seq(S(4))
    BY <2>1
  <2>3. /\ n1.args \in Seq(S(1)) /\ n2.args \in Seq(S(2)) /\ n3.args \in Seq(S(3))
        /\ n4.args \in Seq(S(4))
    BY <1>8, <2>2
  <2>4. Arity(n1) /\ Arity(n2) /\ Arity(n3) /\ Arity(n4)
    BY DEF Arity, Node
  <2>5. ASSUME NEW n \in {n1, n2, n3, n4}
        PROVE  /\ n = Node(n.op, n.args, n.attr, n.shape, n.marks)
               /\ n.op \notin Fixed /\ n.marks \cap Kept = {}
    BY DEF Node, Fixed, Kept, Softmax, Attends, Flash
  <2> HIDE DEF n1, n2, n3, n4
  <2> QED BY <2>3, <2>4, <2>5 DEF Creatable, S
<1> HIDE DEF n1, n2, n3, n4, created
<1>10. \A k \in 1..4 : k = 1 \/ k = 2 \/ k = 3 \/ k = 4
  OBVIOUS
<1>11. Replacement(graph, exp, Fresh(4), created, top)
  BY <1>3, <1>6, <1>7, <1>8, <1>9, <1>10 DEF Replacement, NoDenominator, StandsFor, Fixed
<1>12. Replaces(graph, ret, e.g, e.r, exp, Fresh(4), created, top)
  BY <1>7, <1>11, ReplaceOpReplaces
<1>13. /\ UsedBy(created, top + 1) /\ UsedBy(created, top + 2) /\ UsedBy(created, top + 3)
       /\ UsedBy(created, a) /\ UsedBy(created, b)
  <2>1. /\ DOMAIN n1.args = {1} /\ DOMAIN n2.args = {1} /\ DOMAIN n3.args = {1}
        /\ DOMAIN n4.args = {1, 2}
        /\ n1.args[1] = b /\ n2.args[1] = top + 1 /\ n3.args[1] = a
        /\ n4.args[1] = top + 3 /\ n4.args[2] = top + 2
    BY <1>8
  <2> QED BY <1>7, <2>1 DEF UsedBy
<1>14. Drops(graph, exp, Fresh(4), created, top, D)
  BY <1>3, <1>4, <1>5, <1>7, <1>10, <1>13 DEF Drops
<1>15. Keeps(graph, ret, e.g, e.r)
  BY <1>12, <1>14, ReplaceKeeps
<1>16. sub \notin Dots(e.g)
  <2>1. sub \in DOMAIN graph \ {exp}
    BY <1>3, <1>4, NotBelowItself
  <2>2. SameOp(e.g[sub], graph[sub])
    BY <1>12, <2>1, OldOp
  <2> QED BY <1>3, <2>2 DEF SameOp, Dots
<1>17. e = [g |-> e.g, r |-> e.r]
  BY DEF ReplaceOp
<1>18. EraseIfUnused(e, sub).r = e.r
  BY DEF EraseIfUnused, EraseOp
<1> DEFINE k == EraseIfUnused(e, sub).g
           flipped == [graph EXCEPT ![sub].args = <<@[2], @[1]>>]
           f == IF i = 1 THEN graph ELSE flipped
<1>19. Computed = Computes(graph, ret) /\ Computed' = Computes(graph', ret')
  BY DEF Computed
<1>20. ASSUME i = 2, Computed' = Computes(flipped, ret) PROVE TurnsShift
  <2>1. Arg(exp, 1) = sub /\ ScoresSide(Arg(exp, 1)) = 2
    BY <1>20, <1>34 DEF Arg
  <2>2. Computed' = Computes([graph EXCEPT ![Arg(exp, 1)].args = <<@[2], @[1]>>], ret)
    BY <1>20, <2>1, Zenon
  <2> QED BY <2>1, <2>2, Zenon DEF TurnsShift
<1>21. /\ e.g[top + 1] = n1 /\ top + 1 \in DOMAIN e.g
       /\ e.g[top + 2] = n2 /\ top + 2 \in DOMAIN e.g
       /\ e.g[top + 3] = n3 /\ top + 3 \in DOMAIN e.g
       /\ e.g[top + 4] = n4 /\ top + 4 \in DOMAIN e.g
  <2>1. \A j \in 1..4 : e.g[top + j] = created[j] /\ top + j \in DOMAIN e.g
    <3>1. \A j \in 1..Len(created) : e.g[top + j] = created[j] /\ top + j \in DOMAIN e.g
      BY <1>12, CreatedOp
    <3> HIDE DEF e
    <3> QED BY <1>7, <3>1
  <2> HIDE DEF e
  <2> QED BY <1>7, <2>1
<1>22. sub \in DOMAIN graph \ {exp} /\ a \in DOMAIN graph \ {exp} /\ b \in DOMAIN graph \ {exp}
       /\ a # sub /\ b # sub
  BY <1>3, <1>4, <1>5, NotBelowItself
\* The subtraction as its value is to be understood: the scores first.
<1>23. /\ DOMAIN f = DOMAIN graph /\ \A v \in DOMAIN graph : v # sub => f[v] = graph[v]
       /\ f[sub].op = "subtract" /\ f[sub].attr = graph[sub].attr
       /\ f[sub].shape = graph[sub].shape /\ f[sub].args = <<a, b>>
  <2>1. CASE i = 1
    BY <1>3, <1>32, <1>35, <2>1 DEF a, b
  <2>2. CASE i = 2
    <3>1. f = flipped /\ graph[sub].args[2] = a /\ graph[sub].args[1] = b
      BY <1>33, <2>2 DEF a, b
    <3>2. graph[sub] = Node(graph[sub].op, graph[sub].args, graph[sub].attr,
                            graph[sub].shape, graph[sub].marks)
      BY <1>4 DEF GraphOK, NodesOK
    <3>3. flipped[sub] = [graph[sub] EXCEPT !.args = <<@[2], @[1]>>]
      BY <1>4
    <3>4. flipped[sub] = Node(graph[sub].op, <<a, b>>, graph[sub].attr,
                              graph[sub].shape, graph[sub].marks)
      BY <3>1, <3>2, <3>3 DEF Node
    <3>5. DOMAIN flipped = DOMAIN graph /\ \A v \in DOMAIN graph : v # sub => flipped[v] = graph[v]
      OBVIOUS
    <3> HIDE DEF flipped
    <3> QED BY <1>3, <3>1, <3>4, <3>5 DEF Node
  <2> QED BY <1>3, <2>1, <2>2
<1>24. i = 1 => f = graph
  OBVIOUS
<1>25. i = 2 => f = flipped
  OBVIOUS
<1> HIDE DEF f, flipped, e, k, sub
<1>26. Keeps(graph, ret, k, e.r)
  BY <1>15, <1>16, <1>17, <1>18, EraseIfUnusedKeeps DEF k
<1>27. DimsFit(graph) => DimsFit(k)
  <2>1. DimsFit(graph) => DimsFit(e.g)
    BY <1>7, <1>8, <1>10, <1>12, ReplaceDims
  <2>2. Keeps(e.g, e.r, e.g, e.r) /\ Values(e.g, e.r, e.g, e.r)
    BY <1>15 DEF Keeps, SameTotals, Values
  <2>3. Values(e.g, e.r, k, e.r)
    BY <1>16, <1>17, <1>18, <2>2, EraseIfUnusedValues DEF k
  <2> QED BY <2>1, <2>3 DEF Values
<1>28. Unused(e.g, e.r, sub)
  <2>1. /\ \A n \in DOMAIN graph : sub \in ArgsOf(graph, n) => n = exp
        /\ \A j \in DOMAIN ret : ret[j] # sub
    BY <1>3, <1>4, <1>31, SoleUse
  <2>2. sub # top + 1 /\ sub # top + 2 /\ sub # top + 3 /\ sub # top + 4
    BY <1>6, <1>22 DEF GraphOK, Numbered
  <2>3. ASSUME NEW v \in DOMAIN graph \ {exp}, sub \in ArgsOf(e.g, v) PROVE FALSE
    <3>1. Renamed(e.g[v].args, graph[v].args, DOMAIN graph, exp, Fresh(4))
      BY <1>12, OldOp
    <3>2. PICK j \in DOMAIN e.g[v].args : e.g[v].args[j] = sub
      BY <2>3 DEF ArgsOf
    <3>3. graph[v].args[j] = sub /\ j \in DOMAIN graph[v].args
      BY <1>6, <2>2, <3>1, <3>2 DEF Renamed
    <3> QED BY <2>1, <3>3 DEF ArgsOf
  <2>4. /\ ArgsOf(e.g, top + 1) = {b} /\ ArgsOf(e.g, top + 2) = {top + 1}
        /\ ArgsOf(e.g, top + 3) = {a} /\ ArgsOf(e.g, top + 4) = {top + 3, top + 2}
    BY <1>8, <1>21 DEF ArgsOf
  <2>5. \A n \in DOMAIN e.g : \/ n \in DOMAIN graph \ {exp}
                              \/ n = top + 1 \/ n = top + 2 \/ n = top + 3 \/ n = top + 4
    <3>1. \A n \in DOMAIN e.g : \/ n \in DOMAIN graph \ {exp}
                                \/ \E j \in 1..Len(created) : n = top + j
      BY <1>12, EditedOps
    <3> QED BY <1>7, <1>10, <3>1
  <2>6. Renamed(e.r, ret, DOMAIN graph, exp, Fresh(4))
    BY <1>12, ReplaceClosed
  <2>7. \A j \in DOMAIN e.r : e.r[j] # sub
    BY <1>6, <2>1, <2>2, <2>6 DEF Renamed
  <2> QED BY <1>22, <2>2, <2>3, <2>4, <2>5, <2>7 DEF Unused
<1>29. /\ \A v \in DOMAIN k : v # sub /\ v \in DOMAIN e.g /\ k[v] = e.g[v]
       /\ \A v \in DOMAIN e.g : v # sub => v \in DOMAIN k
  <2>1. Uses(e.g, e.r, sub) = {}
    BY <1>28, UnusedHasNoUses
  <2>2. k = [n \in DOMAIN e.g \ {sub} |-> e.g[n]]
    BY <2>1 DEF k, EraseIfUnused, EraseOp
  <2> QED BY <2>2
<1>30. Sound(f, ret) /\ Below(f, exp) = Below(graph, exp)
  <2>1. \A v \in DOMAIN graph : ArgsOf(f, v) = ArgsOf(graph, v)
    <3>1. ArgsOf(f, sub) = {a, b}
      BY <1>23 DEF ArgsOf
    <3> QED BY <1>5, <1>23, <3>1 DEF ArgsOf
  <2>2. Ranks(f) = Ranks(graph)
    BY <1>23, <2>1 DEF Ranks
  <2>3. f[sub].args \in Seq(DOMAIN f)
    BY <1>22, <1>23
  <2>4. Closed(f, ret)
    BY <1>23, <2>3 DEF GraphOK, Closed
  <2> QED BY <1>23, <2>2, <2>4 DEF Sound, GraphOK, Below
<1> DEFINE V == Denotation(f)
           W == Denotation(k)
<1>36. Sound(k, e.r)
  BY <1>26 DEF Keeps, GraphOK, Sound
<1>37. /\ k[top + 1] = n1 /\ top + 1 \in DOMAIN k
       /\ k[top + 2] = n2 /\ top + 2 \in DOMAIN k
       /\ k[top + 3] = n3 /\ top + 3 \in DOMAIN k
       /\ k[top + 4] = n4 /\ top + 4 \in DOMAIN k
  <2>1. sub # top + 1 /\ sub # top + 2 /\ sub # top + 3 /\ sub # top + 4
    BY <1>6, <1>22 DEF GraphOK, Numbered
  <2> QED BY <1>21, <1>29, <2>1
<1>38. a \in DOMAIN k /\ b \in DOMAIN k
  BY <1>12, <1>22, <1>29, EditedOps
<1>39. V[exp] = Term("exponential", <<>>, <<Term("subtract", <<>>, <<V[a], V[b]>>)>>)
  <2>1. f[exp].op = "exponential" /\ f[exp].args[1] = sub /\ f[exp].attr = <<>>
        /\ DOMAIN f[exp].args = {1} /\ exp \in DOMAIN f
    BY <1>3, <1>22, <1>23, UnaryOperand DEF GraphOK, NodesOK, Arity, UnaryOps, sub
  <2>2. V[exp] = Meaning(f[exp], <<V[sub]>>, <<f[sub].shape>>)
    BY <1>30, <2>1, UnaryValue
  <2>3. f[sub].attr = <<>> /\ DOMAIN f[sub].args = {1, 2} /\ sub \in DOMAIN f
        /\ f[sub].args[1] = a /\ f[sub].args[2] = b
    BY <1>3, <1>22, <1>23 DEF GraphOK, NodesOK, Arity
  <2>4. V[sub] = Meaning(f[sub], <<V[a], V[b]>>, <<f[a].shape, f[b].shape>>)
    BY <1>30, <2>3, BinaryValue
  <2> HIDE DEF V
  <2>5. V[sub] = Term("subtract", <<>>, <<V[a], V[b]>>)
    BY <1>23, <2>3, <2>4, PlainMeaning DEF Interpreted
  <2> QED BY <2>1, <2>2, <2>5, PlainMeaning DEF Interpreted
<1>40. /\ W[top + 2] = Term("exponential", <<>>, <<Term("negate", <<>>, <<W[b]>>)>>)
       /\ W[top + 3] = Term("exponential", <<>>, <<W[a]>>)
       /\ W[top + 4] = Meaning(n4, <<W[top + 3], W[top + 2]>>,
                               <<k[top + 3].shape, k[top + 2].shape>>)
  <2>1. /\ DOMAIN n1.args = {1} /\ DOMAIN n2.args = {1} /\ DOMAIN n3.args = {1}
        /\ DOMAIN n4.args = {1, 2}
        /\ n1.args[1] = b /\ n2.args[1] = top + 1 /\ n3.args[1] = a
        /\ n4.args[1] = top + 3 /\ n4.args[2] = top + 2
    BY <1>8
  <2>2. W[top + 1] = Meaning(n1, <<W[b]>>, <<k[b].shape>>)
    BY <1>36, <1>37, <2>1, UnaryValue
  <2>3. W[top + 2] = Meaning(n2, <<W[top + 1]>>, <<k[top + 1].shape>>)
    BY <1>36, <1>37, <2>1, UnaryValue
  <2>4. W[top + 3] = Meaning(n3, <<W[a]>>, <<k[a].shape>>)
    BY <1>36, <1>37, <2>1, UnaryValue
  <2>5. W[top + 4] = Meaning(n4, <<W[top + 3], W[top + 2]>>,
                             <<k[top + 3].shape, k[top + 2].shape>>)
    BY <1>36, <1>37, <2>1, BinaryValue
  <2> HIDE DEF W
  <2>6. W[top + 1] = Term("negate", <<>>, <<W[b]>>)
    BY <1>8, <2>2, PlainMeaning DEF Interpreted
  <2>7. W[top + 2] = Term("exponential", <<>>, <<W[top + 1]>>)
    BY <1>8, <2>3, PlainMeaning DEF Interpreted
  <2>8. W[top + 3] = Term("exponential", <<>>, <<W[a]>>)
    BY <1>8, <2>4, PlainMeaning DEF Interpreted
  <2> QED BY <2>5, <2>6, <2>7, <2>8
<1>41. Stood(f, k, exp, top + 4)
  <2> SUFFICES ASSUME \A u \in DOMAIN f \cap DOMAIN k :
                        u \in Below(f, exp) => W[u] = V[u]
               PROVE  W[top + 4] = V[exp]
    BY DEF Stood
  <2>1. W[a] = V[a] /\ W[b] = V[b]
    BY <1>5, <1>22, <1>23, <1>30, <1>38
  <2> HIDE DEF V, W
  <2> QED BY <1>8, <1>39, <1>40, <2>1, ShiftedExponential
<1>42. Computes(k, e.r) = Computes(f, ret)
  <2>1. DOMAIN k \subseteq DOMAIN e.g /\ \A v \in DOMAIN k : k[v] = e.g[v]
    BY <1>29
  <2>2. \A v \in DOMAIN k : v \in DOMAIN graph => f[v] = graph[v]
    BY <1>23, <1>29
  <2>3. f[exp].shape = graph[exp].shape
    BY <1>3, <1>22, <1>23
  <2>4. Replaces(graph, ret, e.g, e.r, exp, top + 4, created, top)
    BY <1>6, <1>12
  <2> QED BY <1>23, <1>30, <1>36, <1>37, <1>41, <2>1, <2>2, <2>3, <2>4, ReplaceValues
<1>43. graph' = k /\ ret' = e.r
  BY <1>2, <1>18 DEF k
<1>44. Computed' = Computed \/ TurnsShift
  <2>1. CASE i = 1
    BY <1>19, <1>24, <1>42, <1>43, <2>1
  <2>2. CASE i = 2
    BY <1>19, <1>20, <1>25, <1>42, <1>43, <2>2
  <2> QED BY <1>3, <2>1, <2>2
<1>45. ASSUME MarksOK(graph)
       PROVE  /\ MarksOK(k) /\ RecordedIn(graph) \subseteq RecordedIn(k)
              /\ Alive(graph, ret, {}, {}) => Alive(k, e.r, {}, {})
  <2>1. Yields(graph, exp) /\ \A m \in Boundaries : ~Bears(graph, exp, m)
    BY <1>3 DEF Yields, Firm, Stiff, Bears, sub
  <2>2. Bears(e.g, top + 4, "producer_consumer_fused")
    <3>1. n2.args[1] = top + 1 /\ n4.args[2] = top + 2
      BY <1>8
    <3>2. Firm(e.g, top + 2)
      BY <1>8, <1>21, <3>1 DEF Firm
    <3>3. Anchored(e.g, top + 4)
      BY <1>21, <3>1, <3>2 DEF Anchored
    <3> QED BY <1>8, <1>21, <3>3 DEF Bears
  <2>3. \A j \in 1..Len(created) :
          \A m \in created[j].marks \cap Boundaries : Bears(e.g, top + j, m)
    <3>1. n4.marks = {"producer_consumer_fused"}
      BY DEF n4, Node
    <3> QED BY <1>7, <1>8, <1>10, <2>2, <3>1
  <2>4. /\ MarksOK(e.g)
        /\ \A m \in RecordedIn(graph) : m \in RecordedIn(e.g) \/ m \in graph[exp].marks
    BY <1>12, <1>45, <2>1, <2>3, ReplaceRecords
  <2>5. \A m \in Boundaries : m \notin graph[exp].marks
    BY <1>3, <1>45, <2>1 DEF MarksOK
  <2>6. sub \in DOMAIN e.g /\ e.g[sub].op = "subtract"
    BY <1>3, <1>12, <1>22, OldOp DEF SameOp
  <2>7. \A m \in Boundaries : m \notin e.g[sub].marks
    BY <2>4, <2>6 DEF MarksOK, Bears
  <2>8. GraphOK(e.g, e.r)
    BY <1>15 DEF Keeps
  <2>9. MarksOK(k) /\ \A m \in RecordedIn(e.g) : m \in RecordedIn(k) \/ m \in e.g[sub].marks
    BY <2>4, <2>6, <2>8, EraseIfUnusedRecords DEF k
  <2>10. RecordedIn(graph) \subseteq RecordedIn(k)
    BY <2>4, <2>5, <2>7, <2>9 DEF RecordedIn
  <2>11. ASSUME Alive(graph, ret, {}, {}) PROVE Alive(k, e.r, {}, {})
    <3>1. \A d \in D : d = exp \/ d \in {sub} \/ graph[d].op \in {}
      OBVIOUS
    <3>2. graph[exp].op \notin {} \cup {"arg"}
      BY <1>3
    <3> HIDE DEF D
    <3>3. Alive(e.g, e.r, {}, {sub})
      BY <1>12, <1>14, <2>11, <3>1, <3>2, ReplaceAlive
    <3> QED BY <1>18, <2>6, <2>8, <3>3, EraseIfUnusedAlive DEF k
  <2> QED BY <2>9, <2>10, <2>11
<1>46. Records(graph, ret, k, e.r, {})
  BY <1>45 DEF Records
<1> QED BY <1>26, <1>27, <1>43, <1>44, <1>46

LEMMA LayoutFoldNchwKeeps ==
  ASSUME GraphOK(graph, ret), LayoutFoldNchw
  PROVE  /\ Keeps(graph, ret, graph', ret')
         /\ DimsFit(graph) => DimsFit(graph')
         /\ Records(graph, ret, graph', ret', {})
<1>1. PICK t \in NchwFolds :
        LET conv == Arg(t, 1)
            weight == Arg(conv, 2)
        IN  Rewritten(EraseIfUnused(ReplaceOp(t,
              <<Node("transpose", <<weight>>, <<2, 3, 1, 0>>,
                     Permuted(Shape(weight), <<2, 3, 1, 0>>), {}),
                Node("convolution", <<Arg(conv, 1), Fresh(1)>>, <<"b01f">>,
                     Shape(t), graph[conv].marks \cup {"layout_folded"})>>),
              conv))
  BY DEF LayoutFoldNchw
<1> DEFINE conv == graph[t].args[1]
           x == graph[conv].args[1]
           weight == graph[conv].args[2]
           marks == graph[conv].marks \cup {"layout_folded"}
           shape == Permuted(graph[weight].shape, <<2, 3, 1, 0>>)
           top == Fresh(0)
           n1 == Node("transpose", <<weight>>, <<2, 3, 1, 0>>, shape, {})
           n2 == Node("convolution", <<x, Fresh(1)>>, <<"b01f">>, graph[t].shape, marks)
           created == <<n1, n2>>
           e == ReplaceOp(t, created)
           D == {t, conv}
<1>2. graph' = EraseIfUnused(e, conv).g /\ ret' = EraseIfUnused(e, conv).r
  BY <1>1 DEF Rewritten, Arg, Shape
<1>3. /\ t \in DOMAIN graph /\ graph[t].op = "transpose" /\ graph[conv].op = "convolution"
  BY DEF NchwFolds, Ops, Is, isNchwFold, isConstantConv, isLayoutBridge, Arg
<1>4. /\ ArgsOf(graph, t) = {conv} /\ conv \in Below(graph, t) /\ conv \in DOMAIN graph
  BY <1>3, UnaryArgs DEF UnaryOps
<1>5. ArgsOf(graph, conv) = {x, weight} /\ x \in Below(graph, t) /\ weight \in Below(graph, t)
  <2>1. ArgsOf(graph, conv) = {x, weight} /\ x \in Below(graph, conv)
        /\ weight \in Below(graph, conv)
    BY <1>3, <1>4, BinaryArgs DEF BinaryOps
  <2> QED BY <1>3, <1>4, <2>1, BelowTransitive
<1>6. marks \cap Kept = {}
  BY <1>3, <1>4 DEF GraphOK, SoftmaxOK, AttentionOK, Kept, Softmax, Attends, Flash
<1> HIDE DEF x, weight, marks, shape
<1>7. /\ top \in Nat /\ \A v \in DOMAIN graph : v <= top
      /\ Fresh(1) = top + 1 /\ Fresh(2) = top + 2
  BY <1>3, TopFresh
<1>8. /\ Len(created) = 2 /\ DOMAIN created = 1..2 /\ created[1] = n1 /\ created[2] = n2
  OBVIOUS
<1>9. n1.args = <<weight>> /\ n2.args = <<x, top + 1>> /\ n2.shape = graph[t].shape
      /\ n2.op = "convolution" /\ n1.op = "transpose"
  BY <1>7 DEF Node
<1>10. Creatable(graph, t, top, 1, n1) /\ Creatable(graph, t, top, 2, n2)
  <2> DEFINE S(k) == Below(graph, t) \cup (top + 1)..(top + k - 1)
  <2>1. weight \in S(1) /\ x \in S(2) /\ top + 1 \in S(2)
    BY <1>5, <1>7
  <2> HIDE DEF S
  <2>2. n1.args \in Seq(S(1)) /\ n2.args \in Seq(S(2))
    <3>1. <<weight>> \in Seq(S(1)) /\ <<x, top + 1>> \in Seq(S(2))
      BY <2>1
    <3> QED BY <1>9, <3>1
  <2>3. Arity(n1) /\ Arity(n2)
    BY DEF Arity, Node
  <2>4. ASSUME NEW n \in {n1, n2}
        PROVE  /\ n = Node(n.op, n.args, n.attr, n.shape, n.marks)
               /\ n.op \notin Fixed /\ n.marks \cap Kept = {}
    BY <1>6 DEF Node, Fixed
  <2> HIDE DEF n1, n2
  <2> QED BY <2>2, <2>3, <2>4 DEF Creatable, S
<1> HIDE DEF n1, n2, created
<1>11. \A k \in 1..2 : k = 1 \/ k = 2
  OBVIOUS
<1>12. Replacement(graph, t, Fresh(2), created, top)
  BY <1>3, <1>7, <1>8, <1>9, <1>10, <1>11 DEF Replacement, NoDenominator, StandsFor, Fixed
<1>13. Replaces(graph, ret, e.g, e.r, t, Fresh(2), created, top)
  BY <1>8, <1>12, ReplaceOpReplaces
<1>14. UsedBy(created, top + 1) /\ UsedBy(created, x) /\ UsedBy(created, weight)
  <2>1. DOMAIN n1.args = {1} /\ DOMAIN n2.args = {1, 2} /\ n1.args[1] = weight
        /\ n2.args[1] = x /\ n2.args[2] = top + 1
    BY <1>9
  <2> QED BY <1>8, <2>1 DEF UsedBy
<1>15. Drops(graph, t, Fresh(2), created, top, D)
  BY <1>3, <1>4, <1>5, <1>8, <1>11, <1>14 DEF Drops
<1>16. Keeps(graph, ret, e.g, e.r)
  BY <1>13, <1>15, ReplaceKeeps
<1>17. conv \notin Dots(e.g)
  <2>1. conv \in DOMAIN graph \ {t}
    BY <1>3, <1>4, NotBelowItself
  <2>2. SameOp(e.g[conv], graph[conv])
    BY <1>13, <2>1, OldOp
  <2> QED BY <1>3, <2>2 DEF SameOp, Dots
<1>18. e = [g |-> e.g, r |-> e.r]
  BY DEF ReplaceOp
<1>21. marks = graph[conv].marks \cup {"layout_folded"}
  BY DEF marks
<1>22. n1.marks = {} /\ n2.marks = marks
  BY DEF n1, n2, Node
<1>23. conv \in DOMAIN graph \ {t}
  BY <1>3, <1>4, NotBelowItself
<1> HIDE DEF e, conv
<1>24. e.g[top + 2] = n2 /\ top + 2 \in DOMAIN e.g /\ top + 2 # conv
  <2>1. \A k \in 1..Len(created) : e.g[top + k] = created[k] /\ top + k \in DOMAIN e.g
    BY <1>13, CreatedOp
  <2>2. top + 2 # conv
    BY <1>7, <1>23 DEF GraphOK, Numbered
  <2> QED BY <1>8, <1>11, <2>1, <2>2
<1> DEFINE k == EraseIfUnused(e, conv).g
<1>25. GraphOK(e.g, e.r) /\ conv \in DOMAIN e.g /\ e.g[conv].marks = graph[conv].marks
  BY <1>13, <1>16, <1>23, OldOp DEF Keeps, SameOp
<1>26. top + 2 \in DOMAIN k /\ k[top + 2] = n2
  <2>1. EraseIfUnused(e, conv) = e \/ k = [n \in DOMAIN e.g \ {conv} |-> e.g[n]]
    BY DEF EraseIfUnused, EraseOp
  <2> QED BY <1>24, <2>1
<1>27. EraseIfUnused(e, conv).r = e.r
  BY DEF EraseIfUnused, EraseOp
<1> HIDE DEF k
<1>28. ASSUME MarksOK(graph)
       PROVE  /\ MarksOK(k) /\ RecordedIn(graph) \subseteq RecordedIn(k)
              /\ Alive(graph, ret, {}, {}) => Alive(k, e.r, {}, {})
  <2>1. Yields(graph, t) /\ \A m : Bears(graph, t, m) => m = "layout_folded"
    BY <1>3 DEF Yields, Firm, Stiff, Bears
  <2>2. \A m \in Boundaries : m \in graph[conv].marks => m = "layout_folded"
    BY <1>3, <1>4, <1>28 DEF MarksOK, Bears
  <2>3. \A j \in 1..Len(created) :
          \A m \in created[j].marks \cap Boundaries : Bears(e.g, top + j, m)
    BY <1>8, <1>9, <1>11, <1>21, <1>22, <1>24, <2>2 DEF Bears
  <2>4. /\ MarksOK(e.g)
        /\ \A m \in RecordedIn(graph) : m \in RecordedIn(e.g) \/ m \in graph[t].marks
    BY <1>13, <1>28, <2>1, <2>3, ReplaceRecords
  <2>5. \A m \in Boundaries : m \in graph[t].marks => m = "layout_folded"
    BY <1>3, <1>28, <2>1 DEF MarksOK
  <2>6. MarksOK(k) /\ \A m \in RecordedIn(e.g) : m \in RecordedIn(k) \/ m \in e.g[conv].marks
    BY <1>25, <2>4, EraseIfUnusedRecords DEF k
  <2>7. "layout_folded" \in RecordedIn(k)
    BY <1>21, <1>22, <1>26 DEF RecordedIn, Boundaries
  <2>8. RecordedIn(graph) \subseteq RecordedIn(k)
    BY <1>25, <2>2, <2>4, <2>5, <2>6, <2>7 DEF RecordedIn
  <2>9. ASSUME Alive(graph, ret, {}, {}) PROVE Alive(k, e.r, {}, {})
    <3>1. \A d \in D : d = t \/ d \in {conv} \/ graph[d].op \in {}
      OBVIOUS
    <3>2. graph[t].op \notin {} \cup {"arg"}
      BY <1>3
    <3> HIDE DEF D
    <3>3. Alive(e.g, e.r, {}, {conv})
      BY <1>13, <1>15, <2>9, <3>1, <3>2, ReplaceAlive
    <3> QED BY <1>25, <1>27, <3>3, EraseIfUnusedAlive DEF k
  <2> QED BY <2>6, <2>8, <2>9
<1>29. Records(graph, ret, graph', ret', {})
  BY <1>2, <1>27, <1>28 DEF Records, k
<1>19. DimsFit(graph) => DimsFit(e.g)
  BY <1>8, <1>9, <1>11, <1>13, ReplaceDims
<1>20. DimsFit(e.g) => DimsFit(EraseIfUnused(e, conv).g)
  BY <1>16, <1>17, <1>18, EraseIfUnusedDims DEF Keeps
<1> QED BY <1>2, <1>16, <1>17, <1>18, <1>19, <1>20, <1>29, EraseIfUnusedKeeps

\* Nothing is created: what old rests on alone takes its place.
LEMMA ReplaceByKeeps ==
  ASSUME GraphOK(graph, ret), NEW old \in DOMAIN graph, NEW new \in Below(graph, old),
         graph[old].op \in UnaryOps, graph[old].op # "reduce",
         new = graph[old].args[1], NoDenominator(graph, old),
         StandsFor(graph[new], graph[old])
  PROVE  /\ Replaces(graph, ret, ReplaceBy(old, new).g, ReplaceBy(old, new).r,
                     old, new, <<>>, Fresh(0))
         /\ Keeps(graph, ret, ReplaceBy(old, new).g, ReplaceBy(old, new).r)
         /\ DimsFit(graph) => DimsFit(ReplaceBy(old, new).g)
         /\ Drops(graph, old, new, <<>>, Fresh(0), {old})
<1>1. Fresh(0) \in Nat /\ \A v \in DOMAIN graph : v <= Fresh(0)
  BY TopFresh
<1>2. Len(<<>>) = 0 /\ 1..Len(<<>>) = {}
  OBVIOUS
<1>3. Replacement(graph, old, new, <<>>, Fresh(0))
  BY <1>1, <1>2 DEF Replacement, Fixed, UnaryOps
<1>4. Replaces(graph, ret, ReplaceBy(old, new).g, ReplaceBy(old, new).r, old, new, <<>>, Fresh(0))
  BY <1>3, ReplaceByReplaces
<1>5. ArgsOf(graph, old) = {new}
  BY UnaryArgs
<1>6. Drops(graph, old, new, <<>>, Fresh(0), {old})
  BY <1>2, <1>5 DEF Drops, UnaryOps
<1>7. DimsFit(graph) => DimsFit(ReplaceBy(old, new).g)
  BY <1>2, <1>4, ReplaceDims
<1> QED BY <1>4, <1>6, <1>7, ReplaceKeeps

LEMMA BroadcastIdentityKeeps ==
  ASSUME GraphOK(graph, ret), BroadcastIdentity
  PROVE  /\ Keeps(graph, ret, graph', ret')
         /\ DimsFit(graph) => DimsFit(graph') /\ DropsPermutation
         /\ Records(graph, ret, graph', ret', {"constant", "broadcast"})
<1>1. PICK b \in IdentityBroadcasts : Rewritten(ReplaceBy(b, Arg(b, 1)))
  BY DEF BroadcastIdentity
<1> DEFINE a == graph[b].args[1]
           shape == graph[b].shape
           f == [graph EXCEPT ![b].attr = [d \in DOMAIN shape |-> d - 1]]
           e == ReplaceBy(b, a)
<1>2. b \in DOMAIN graph /\ graph[b].op = "broadcast" /\ graph[a].shape = graph[b].shape
  BY DEF IdentityBroadcasts, Ops, Is, isIdentityBroadcast, Shape, Arg
<1>3. a \in Below(graph, b)
  BY <1>2, UnaryArgs DEF UnaryOps
<1>4. NoDenominator(graph, b) /\ StandsFor(graph[a], graph[b])
  BY <1>2 DEF NoDenominator, StandsFor
<1>5. graph' = ReplaceBy(b, a).g /\ ret' = ReplaceBy(b, a).r
  BY <1>1 DEF Rewritten, Arg
<1>6. graph[b].op \in UnaryOps /\ graph[b].op # "reduce"
  BY <1>2 DEF UnaryOps
<1>7. /\ Replaces(graph, ret, e.g, e.r, b, a, <<>>, Fresh(0))
      /\ Keeps(graph, ret, e.g, e.r)
      /\ DimsFit(graph) => DimsFit(e.g)
      /\ Drops(graph, b, a, <<>>, Fresh(0), {b})
  BY <1>2, <1>3, <1>4, <1>6, ReplaceByKeeps
<1>8. ASSUME Computed' = Computes(f, ret) PROVE DropsPermutation
  <2>1. Computed' =
          Computes([graph EXCEPT ![b].attr = [d \in DOMAIN Shape(b) |-> d - 1]], ret)
    BY <1>8, Zenon DEF Shape
  <2> QED BY <2>1, Zenon DEF DropsPermutation
<1>9. /\ DOMAIN f = DOMAIN graph /\ \A v \in DOMAIN graph : v # b => f[v] = graph[v]
      /\ f[b] = Node("broadcast", graph[b].args, Identity(shape), shape, graph[b].marks)
  <2>1. graph[b] = Node("broadcast", graph[b].args, graph[b].attr, shape, graph[b].marks)
    BY <1>2 DEF GraphOK, NodesOK
  <2>2. f[b] = [graph[b] EXCEPT !.attr = [d \in DOMAIN shape |-> d - 1]]
    BY <1>2
  <2>3. DOMAIN f = DOMAIN graph /\ \A v \in DOMAIN graph : v # b => f[v] = graph[v]
    OBVIOUS
  <2> HIDE DEF f
  <2>4. f[b] = Node("broadcast", graph[b].args, [d \in DOMAIN shape |-> d - 1], shape,
                    graph[b].marks)
    BY <2>1, <2>2 DEF Node
  <2> QED BY <2>3, <2>4 DEF Identity
<1>10. /\ f[b].op = "broadcast" /\ f[b].args = graph[b].args /\ f[b].attr = Identity(shape)
       /\ f[b].shape = shape
  BY <1>9 DEF Node
<1>11. a \in DOMAIN graph \ {b} /\ DOMAIN graph[b].args = {1}
  BY <1>2, <1>3, <1>6, NotBelowItself, UnaryOperand
<1> HIDE DEF f, e, a, shape
<1>12. ASSUME DimsFit(graph) PROVE Computes(e.g, e.r) = Computes(f, ret)
  <2> DEFINE V == Denotation(f)
             W == Denotation(e.g)
  <2>1. Sound(f, ret) /\ Below(f, b) = Below(graph, b)
    <3>1. \A v \in DOMAIN graph : f[v].args = graph[v].args
      BY <1>9, <1>10
    <3>2. \A v \in DOMAIN graph : ArgsOf(f, v) = ArgsOf(graph, v)
      BY <3>1 DEF ArgsOf
    <3>3. Ranks(f) = Ranks(graph)
      BY <1>9, <3>2 DEF Ranks
    <3>4. Closed(f, ret)
      BY <1>9, <3>1 DEF GraphOK, Closed
    <3> QED BY <1>9, <3>3, <3>4 DEF Sound, GraphOK, Below
  <2>2. NodesOK(f)
    <3>1. Arity(f[b])
      <4>1. Arity(graph[b]) /\ Len(graph[b].args) = 1
        BY <1>2 DEF GraphOK, NodesOK, Arity
      <4> QED BY <1>10, <4>1 DEF Arity
    <3>2. f[b] = Node(f[b].op, f[b].args, f[b].attr, f[b].shape, f[b].marks)
      <4>1. f[b].marks = graph[b].marks
        BY <1>9 DEF Node
      <4> QED BY <1>9, <1>10, <4>1
    <3> QED BY <1>9, <3>1, <3>2 DEF GraphOK, NodesOK
  <2>3. DimsFit(f)
    <3> SUFFICES ASSUME NEW v \in DOMAIN f, f[v].op \in {"broadcast", "batch_norm"}
                 PROVE  DimsOf(f, v)
      BY DimsFitIf
    <3>0. \A u \in DOMAIN graph : f[u].shape = graph[u].shape
      BY <1>9, <1>10 DEF shape
    <3>1. CASE v = b
      <4>1. graph[b].attr \in Seq(Nat) /\ Lies(graph[b].attr, graph[a].shape, shape)
        BY <1>2, <1>12, DimsLie DEF DimsOf, a, shape
      <4>2. DOMAIN shape = 1..Len(graph[b].attr) /\ Len(graph[b].attr) \in Nat
        BY <1>2, <4>1 DEF Lies, shape
      <4>3. Identity(shape) \in Seq(Nat)
        <5>1. \A d \in 1..Len(graph[b].attr) : d - 1 \in Nat
          BY <4>2
        <5> QED BY <4>2, <5>1 DEF Identity
      <4>4. Lies(Identity(shape), shape, shape)
        BY <4>2 DEF Identity, Lies
      <4>5. f[f[b].args[1]].shape = shape
        BY <1>2, <1>10, <1>11, <3>0 DEF a, shape
      <4> QED BY <1>10, <3>1, <4>3, <4>4, <4>5 DEF DimsOf
    <3>2. CASE v # b
      <4> DEFINE i == IF graph[v].op = "broadcast" THEN 1 ELSE 2
                 x == graph[v].args[i]
      <4>1. v \in DOMAIN graph /\ f[v] = graph[v]
        BY <1>9, <3>2
      <4>2. i \in DOMAIN graph[v].args
        <5>1. CASE graph[v].op = "broadcast"
          BY <4>1, <5>1, UnaryOperand DEF UnaryOps
        <5>2. CASE graph[v].op = "batch_norm"
          BY <4>1, <5>2, BinaryOperands DEF BinaryOps
        <5> QED BY <4>1, <5>1, <5>2
      <4>3. x \in DOMAIN graph
        BY <4>1, <4>2, ArgBelow
      <4>4. DimsOf(graph, v)
        BY <1>12, <4>1, DimsLie
      <4> QED BY <3>0, <4>1, <4>3, <4>4 DEF DimsOf
    <3> QED BY <3>1, <3>2
  <2>4. V[b] = V[a]
    <3>1. V[b] = Meaning(f[b], <<V[a]>>, <<f[a].shape>>)
      BY <1>2, <1>9, <1>10, <1>11, <2>1, UnaryValue DEF a
    <3>2. Settled(V[a], f[a].shape) /\ f[a].shape = shape
      <4>1. f[a].shape = shape /\ a \in DOMAIN f
        BY <1>2, <1>9, <1>11 DEF a, shape
      <4> QED BY <2>1, <2>2, <2>3, <4>1, TermsSettle
    <3> HIDE DEF V
    <3>3. V[b] = Broadcast(Identity(shape), shape, V[a], shape)
      BY <1>10, <3>1, <3>2, BroadcastMeaning
    <3> QED BY <3>2, <3>3, BroadcastToItself
  <2>5. Sound(e.g, e.r) /\ a \in DOMAIN e.g
    BY <1>7, <1>11, EditedOps DEF Keeps, GraphOK, Sound
  <2>6. Stood(f, e.g, b, a)
    <3> SUFFICES ASSUME \A u \in DOMAIN f \cap DOMAIN e.g : u \in Below(f, b) => W[u] = V[u]
                 PROVE  W[a] = V[b]
      BY DEF Stood
    <3> QED BY <1>3, <1>9, <1>11, <2>1, <2>4, <2>5 DEF a
  <2>7. \A v \in DOMAIN e.g : v \in DOMAIN graph => f[v] = graph[v]
    <3>1. b \notin DOMAIN e.g
      <4>1. 1..Len(<<>>) = {}
        OBVIOUS
      <4> QED BY <1>7, <4>1, EditedOps
    <3> QED BY <1>9, <3>1
  <2>8. f[b].shape = graph[b].shape
    BY <1>10 DEF shape
  <2> HIDE DEF V, W
  <2> QED BY <1>7, <1>9, <2>1, <2>5, <2>6, <2>7, <2>8, ReplaceValues
<1>13. graph' = e.g /\ ret' = e.r
  BY <1>5 DEF e, a
<1>14. Computed' = Computes(graph', ret')
  BY DEF Computed
<1>15. Records(graph, ret, e.g, e.r, {"constant", "broadcast"})
  <2>1. Yields(graph, b) /\ \A m \in Boundaries : ~Bears(graph, b, m)
    BY <1>2 DEF Yields, Firm, Stiff, Bears
  <2>2. 1..Len(<<>>) = {}
    OBVIOUS
  <2> QED BY <1>7, <2>1, <2>2, RecordsIf
<1> QED BY <1>7, <1>8, <1>12, <1>13, <1>14, <1>15

LEMMA LayoutFoldSimpleKeeps ==
  ASSUME GraphOK(graph, ret), LayoutFoldSimple
  PROVE  /\ Keeps(graph, ret, graph', ret')
         /\ DimsFit(graph) => DimsFit(graph')
         /\ Records(graph, ret, graph', ret', {})
<1>1. PICK t \in SimpleFolds :
        LET e == ReplaceBy(t, Arg(t, 1))
        IN  Rewritten([e EXCEPT !.g[Arg(t, 1)].marks = @ \cup {"layout_folded"}])
  BY DEF LayoutFoldSimple
<1> DEFINE conv == graph[t].args[1]
           e == ReplaceBy(t, conv)
           h == [e.g EXCEPT ![conv].marks = @ \cup {"layout_folded"}]
<1>2. graph' = h /\ ret' = e.r
  <2>1. e = [g |-> e.g, r |-> e.r]
    BY DEF ReplaceBy
  <2>2. \A k : k = [g |-> k.g, r |-> k.r] =>
          [k EXCEPT !.g[conv].marks = @ \cup {"layout_folded"}] =
            [g |-> [k.g EXCEPT ![conv].marks = @ \cup {"layout_folded"}], r |-> k.r]
    OBVIOUS
  <2>3. [e EXCEPT !.g[conv].marks = @ \cup {"layout_folded"}] = [g |-> h, r |-> e.r]
    <3> HIDE DEF e
    <3> QED BY <2>1, <2>2
  <2> QED BY <1>1, <2>3 DEF Rewritten, Arg
<1>3. /\ t \in DOMAIN graph /\ graph[t].op = "transpose"
      /\ graph[conv].op = "convolution" /\ graph[conv].shape = graph[t].shape
  BY DEF SimpleFolds, Ops, Is, isSimpleFold, isConstantConv, isLayoutBridge, Shape, Arg
<1>4. conv \in Below(graph, t) /\ conv \in DOMAIN graph /\ conv # t
  BY <1>3, UnaryArgs, NotBelowItself DEF UnaryOps
<1>5. NoDenominator(graph, t) /\ StandsFor(graph[conv], graph[t])
  BY <1>3 DEF NoDenominator, StandsFor
<1>6. graph[t].op \in UnaryOps /\ graph[t].op # "reduce"
  BY <1>3 DEF UnaryOps
<1>7. /\ Replaces(graph, ret, e.g, e.r, t, conv, <<>>, Fresh(0))
      /\ Keeps(graph, ret, e.g, e.r)
      /\ DimsFit(graph) => DimsFit(e.g)
      /\ Drops(graph, t, conv, <<>>, Fresh(0), {t})
  BY <1>3, <1>4, <1>5, <1>6, ReplaceByKeeps
<1> HIDE DEF e
<1>8. conv \in DOMAIN e.g
  BY <1>3, <1>4, <1>7, OldOp
<1>15. e.g[conv].op = "convolution"
  BY <1>3, <1>4, <1>7, OldOp DEF SameOp
<1>9. MarkFits(e.g, conv, "layout_folded") /\ "layout_folded" \notin Kept
  BY DEF MarkFits, Kept, Softmax, Attends, Flash
<1>10. GraphOK(e.g, e.r)
  BY <1>7 DEF Keeps
<1> HIDE DEF conv
<1>11. /\ GraphOK(h, e.r)
       /\ DotsLive(e.g, e.r) => DotsLive(h, e.r)
  BY <1>8, <1>9, <1>10, MarkKeeps
<1>12. Remarked(e.g, h, conv, "layout_folded")
  BY <1>8, <1>10, MarkNodes
<1>13. Early(e.g) => Early(h)
  BY <1>9, <1>12, MarkEarly
<1>14. DimsFit(e.g) => DimsFit(h)
  BY <1>10, <1>11, <1>12, MarkValues DEF Values
<1>17. SameTotals(graph, h)
  <2>1. SameTotals(e.g, h)
    BY <1>8, <1>10, <1>12, MarkTotals DEF Softmax
  <2> QED BY <1>7, <2>1, SameTotalsTransitive DEF Keeps
<1>16. ASSUME MarksOK(graph)
       PROVE  /\ MarksOK(h) /\ RecordedIn(graph) \subseteq RecordedIn(h)
              /\ Alive(graph, ret, {}, {}) => Alive(h, e.r, {}, {})
  <2>1. Yields(graph, t) /\ \A m : Bears(graph, t, m) => m = "layout_folded"
    BY <1>3 DEF Yields, Firm, Stiff, Bears
  <2>2. 1..Len(<<>>) = {}
    OBVIOUS
  <2>3. /\ MarksOK(e.g)
        /\ \A m \in RecordedIn(graph) : m \in RecordedIn(e.g) \/ m \in graph[t].marks
    BY <1>7, <1>16, <2>1, <2>2, ReplaceRecords
  <2>4. \A m \in Boundaries : m \in graph[t].marks => m = "layout_folded"
    BY <1>3, <1>16, <2>1 DEF MarksOK
  <2>5. Bears(e.g, conv, "layout_folded")
    BY <1>15 DEF Bears
  <2> HIDE DEF h
  <2>6. MarksOK(h) /\ RecordedIn(e.g) \subseteq RecordedIn(h)
    BY <1>10, <1>12, <2>3, <2>5, MarkRecords
  <2>7. "layout_folded" \in RecordedIn(h)
    BY <1>8, <1>12 DEF Remarked, RecordedIn, Boundaries
  <2>8. RecordedIn(graph) \subseteq RecordedIn(h)
    BY <2>3, <2>4, <2>6, <2>7 DEF RecordedIn
  <2>9. ASSUME Alive(graph, ret, {}, {}) PROVE Alive(h, e.r, {}, {})
    <3>1. graph[t].op \notin {} \cup {"arg"}
      BY <1>3
    <3>2. \A d \in {t} : d = t \/ d \in {} \/ graph[d].op \in {}
      OBVIOUS
    <3>3. Alive(e.g, e.r, {}, {})
      BY <1>7, <2>9, <3>1, <3>2, ReplaceAlive
    <3> QED BY <1>12, <3>3, MarkAlive
  <2> QED BY <2>6, <2>8, <2>9
<1> QED BY <1>2, <1>7, <1>11, <1>13, <1>14, <1>16, <1>17 DEF Keeps, Records

LEMMA BroadcastNestedKeeps ==
  ASSUME GraphOK(graph, ret), BroadcastNested
  PROVE  /\ Keeps(graph, ret, graph', ret') /\ Values(graph, ret, graph', ret')
         /\ Records(graph, ret, graph', ret', {"constant", "broadcast"})
<1>1. PICK outer \in NestedBroadcasts :
        Rewritten(ReplaceOp(outer,
          <<NewMarked("broadcast", <<Arg(Arg(outer, 1), 1)>>, composedDims(outer),
                      outer, "broadcast_simplified")>>))
  BY DEF BroadcastNested
<1> DEFINE inner == graph[outer].args[1]
           x == graph[inner].args[1]
           dims == composedDims(outer)
           top == Fresh(0)
           n1 == Node("broadcast", <<x>>, dims, graph[outer].shape, {"broadcast_simplified"})
           created == <<n1>>
           e == ReplaceOp(outer, created)
           D == {outer, inner}
<1>2. graph' = e.g /\ ret' = e.r
  BY <1>1 DEF Rewritten, NewMarked, Arg, Shape
<1>3. /\ outer \in DOMAIN graph /\ graph[outer].op = "broadcast"
      /\ graph[inner].op = "broadcast"
  BY DEF NestedBroadcasts, Ops, Is, isNestedBroadcast, Arg
<1>4. /\ ArgsOf(graph, outer) = {inner} /\ inner \in Below(graph, outer)
      /\ inner \in DOMAIN graph
  BY <1>3, UnaryArgs DEF UnaryOps
<1>5. ArgsOf(graph, inner) = {x} /\ x \in Below(graph, outer) /\ x \in DOMAIN graph \ {outer}
  <2>1. ArgsOf(graph, inner) = {x} /\ x \in Below(graph, inner)
    BY <1>3, <1>4, UnaryArgs DEF UnaryOps
  <2> QED BY <1>3, <1>4, <2>1, BelowTransitive, NotBelowItself
<1>6. /\ top \in Nat /\ \A v \in DOMAIN graph : v <= top /\ Fresh(1) = top + 1
  BY <1>3, TopFresh
<1>61. dims = Composed(graph[outer].attr, graph[inner].attr)
  BY DEF composedDims, Attr, Arg
<1> HIDE DEF x, dims
<1>7. Len(created) = 1 /\ DOMAIN created = 1..1 /\ created[1] = n1
  OBVIOUS
<1>8. n1.args = <<x>> /\ n1.shape = graph[outer].shape /\ n1.op = "broadcast"
      /\ n1.attr = dims /\ n1.marks = {"broadcast_simplified"}
  BY DEF Node
<1>9. Creatable(graph, outer, top, 1, n1)
  <2>1. x \in Below(graph, outer) \cup (top + 1)..(top + 1 - 1)
    BY <1>5
  <2>2. <<x>> \in Seq(Below(graph, outer) \cup (top + 1)..(top + 1 - 1))
    BY <2>1
  <2>3. Arity(n1)
    BY DEF Arity, Node
  <2>4. /\ n1 = Node(n1.op, n1.args, n1.attr, n1.shape, n1.marks)
        /\ n1.op \notin Fixed /\ n1.marks \cap Kept = {}
    BY DEF Node, Fixed, Kept, Softmax, Attends, Flash
  <2> HIDE DEF n1
  <2> QED BY <1>8, <2>2, <2>3, <2>4 DEF Creatable
<1> HIDE DEF n1, created
<1>10. \A k \in 1..1 : k = 1
  OBVIOUS
<1>11. Fresh(1) = top + 1
  BY <1>3, TopFresh
<1>12. Replacement(graph, outer, Fresh(1), created, top)
  BY <1>3, <1>6, <1>7, <1>8, <1>9, <1>10, <1>11
     DEF Replacement, NoDenominator, StandsFor, Fixed
<1>13. Replaces(graph, ret, e.g, e.r, outer, Fresh(1), created, top)
  BY <1>7, <1>12, ReplaceOpReplaces
<1>14. UsedBy(created, x)
  <2>1. DOMAIN n1.args = {1} /\ n1.args[1] = x
    BY <1>8
  <2> QED BY <1>7, <2>1 DEF UsedBy
<1>15. Drops(graph, outer, Fresh(1), created, top, D)
  BY <1>3, <1>4, <1>5, <1>7, <1>10, <1>14 DEF Drops
<1>16. Keeps(graph, ret, e.g, e.r)
  BY <1>13, <1>15, ReplaceKeeps
<1> HIDE DEF e
<1>17. e.g[top + 1] = n1 /\ top + 1 \in DOMAIN e.g /\ Sound(graph, ret) /\ Sound(e.g, e.r)
  <2>1. \A k \in 1..Len(created) : e.g[top + k] = created[k] /\ top + k \in DOMAIN e.g
    BY <1>13, CreatedOp
  <2>2. Sound(graph, ret) /\ Sound(e.g, e.r)
    BY <1>16 DEF Keeps, GraphOK, Sound
  <2> QED BY <1>7, <2>1, <2>2
<1>18. x \in DOMAIN e.g /\ e.g[x].shape = graph[x].shape
  BY <1>5, <1>13, OldOp DEF SameOp
<1> DEFINE V == Denotation(graph)
           W == Denotation(e.g)
           from == graph[x].shape
           mid == graph[inner].shape
           to == graph[outer].shape
           p == graph[inner].attr
           q == graph[outer].attr
<1>19. ASSUME DimsFit(graph)
       PROVE  /\ Lies(p, from, mid) /\ Lies(q, mid, to) /\ DOMAIN mid \subseteq Nat
              /\ p \in Seq(Nat) /\ q \in Seq(Nat)
  <2>1. p \in Seq(Nat) /\ Lies(p, from, mid)
    BY <1>3, <1>4, <1>19, DimsLie DEF DimsOf, x
  <2>2. q \in Seq(Nat) /\ Lies(q, mid, to)
    BY <1>3, <1>19, DimsLie DEF DimsOf
  <2>3. DOMAIN mid = DOMAIN q
    BY <2>2 DEF Lies
  <2> QED BY <2>1, <2>2, <2>3
<1>20. ASSUME DimsFit(graph) PROVE DimsFit(e.g)
  <2>1. Lies(dims, from, to)
    BY <1>19, <1>20, <1>61, ComposedLies
  <2>2. dims \in Seq(Nat)
    <3>1. dims = [d \in DOMAIN p |-> q[p[d] + 1]] /\ DOMAIN p = DOMAIN from
      BY <1>19, <1>20, <1>61 DEF Composed, Lies
    <3>2. DOMAIN p = 1..Len(p) /\ Len(p) \in Nat
      BY <1>19, <1>20
    <3>3. \A d \in DOMAIN p : q[p[d] + 1] \in Nat
      BY <2>1, <3>1 DEF Lies
    <3> HIDE DEF p, q
    <3> QED BY <3>1, <3>2, <3>3
  <2>3. DimsOf(e.g, top + 1)
    BY <1>8, <1>17, <1>18, <2>1, <2>2 DEF DimsOf
  <2> QED BY <1>7, <1>10, <1>13, <1>20, <2>3, ReplaceDims
<1>21. ASSUME DimsFit(graph) PROVE Stood(graph, e.g, outer, top + 1)
  <2> SUFFICES ASSUME \A u \in DOMAIN graph \cap DOMAIN e.g :
                        u \in Below(graph, outer) => W[u] = V[u]
               PROVE  W[top + 1] = V[outer]
    BY DEF Stood
  <2>1. W[x] = V[x]
    BY <1>5, <1>18
  <2>2. W[top + 1] = Meaning(n1, <<W[x]>>, <<e.g[x].shape>>)
    <3>1. DOMAIN n1.args = {1} /\ n1.args[1] = x
      BY <1>8
    <3> QED BY <1>17, <3>1, UnaryValue
  <2>3. V[inner] = Meaning(graph[inner], <<V[x]>>, <<from>>)
    BY <1>3, <1>4, <1>17, UnaryOperand, UnaryValue DEF UnaryOps, x
  <2>4. V[outer] = Meaning(graph[outer], <<V[inner]>>, <<mid>>)
    BY <1>3, <1>17, UnaryOperand, UnaryValue DEF UnaryOps
  <2>5. Settled(V[x], from)
    BY <1>5, <1>17, <1>21, TermsSettle DEF GraphOK
  <2> HIDE DEF V, W, from, mid, to, p, q
  <2>6. V[inner] = Broadcast(p, from, V[x], mid)
    BY <1>3, <2>3, BroadcastMeaning DEF p, mid
  <2>7. V[outer] = Broadcast(q, mid, V[inner], to)
    BY <1>3, <2>4, BroadcastMeaning DEF q, to
  <2>8. W[top + 1] = Broadcast(dims, from, V[x], to)
    BY <1>8, <1>18, <2>1, <2>2, BroadcastMeaning DEF from, to
  <2>9. dims = Composed(q, p)
    BY <1>61 DEF p, q
  <2> QED BY <1>19, <1>21, <2>5, <2>6, <2>7, <2>8, <2>9, BroadcastComposes
<1>22. DimsFit(graph) => Computes(e.g, e.r) = Computes(graph, ret)
  BY <1>11, <1>13, <1>17, <1>21, ReplaceValues
<1>23. Records(graph, ret, e.g, e.r, {"constant", "broadcast"})
  <2>1. Yields(graph, outer) /\ \A m \in Boundaries : ~Bears(graph, outer, m)
    BY <1>3 DEF Yields, Firm, Stiff, Bears
  <2>2. \A k \in 1..Len(created) : /\ created[k].marks \cap Boundaries = {}
                                  /\ created[k].op \in {"constant", "broadcast"}
    BY <1>7, <1>8, <1>10 DEF Boundaries
  <2>3. \A d \in D : d = outer \/ graph[d].op \in {"constant", "broadcast"}
    BY <1>3
  <2> HIDE DEF D
  <2> QED BY <1>11, <1>13, <1>15, <2>1, <2>2, <2>3, RecordsIf
<1> QED BY <1>2, <1>16, <1>20, <1>22, <1>23 DEF Values

LEMMA ConstantFoldKeeps ==
  ASSUME GraphOK(graph, ret), StablehloConstantFold
  PROVE  /\ Keeps(graph, ret, graph', ret') /\ Values(graph, ret, graph', ret')
         /\ Records(graph, ret, graph', ret', {"constant", "broadcast"})
<1>1. PICK v \in ConstantPairs :
        Rewritten(ReplaceOp(v,
          <<New("constant", <<>>,
                <<Op(v)>> \o Attr(Arg(v, 1)) \o Attr(Arg(v, 2)), v)>>))
  BY DEF StablehloConstantFold
<1> DEFINE a == graph[v].args[1]
           b == graph[v].args[2]
           attr == <<Op(v)>> \o Attr(Arg(v, 1)) \o Attr(Arg(v, 2))
           top == Fresh(0)
           n1 == Node("constant", <<>>, attr, graph[v].shape, {})
           created == <<n1>>
           e == ReplaceOp(v, created)
           D == {v, a, b}
<1>2. graph' = e.g /\ ret' = e.r
  BY <1>1 DEF Rewritten, New, Shape
<1>3. /\ v \in DOMAIN graph /\ graph[v].op \in {"add", "multiply"}
      /\ graph[a].op = "constant" /\ graph[b].op = "constant"
  BY DEF ConstantPairs, Ops, Is, isConstantPair, Arg
<1>4. /\ ArgsOf(graph, v) = {a, b}
      /\ a \in Below(graph, v) /\ a \in DOMAIN graph
      /\ b \in Below(graph, v) /\ b \in DOMAIN graph
  BY <1>3, BinaryArgs DEF BinaryOps
<1>5. ArgsOf(graph, a) = {} /\ ArgsOf(graph, b) = {}
  BY <1>3, <1>4, NoArgs
<1>6. top \in Nat /\ (\A u \in DOMAIN graph : u <= top) /\ Fresh(1) = top + 1
  BY <1>3, TopFresh
<1>61. attr = <<graph[v].op>> \o graph[a].attr \o graph[b].attr
  BY DEF Op, Attr, Arg
<1> HIDE DEF attr
<1>7. Len(created) = 1 /\ DOMAIN created = 1..1 /\ created[1] = n1
  OBVIOUS
<1>8. n1.args = <<>> /\ n1.shape = graph[v].shape /\ n1.op = "constant"
      /\ n1.attr = attr /\ n1.marks = {}
  BY DEF Node
<1>9. Creatable(graph, v, top, 1, n1)
  <2>1. <<>> \in Seq(Below(graph, v) \cup (top + 1)..(top + 1 - 1))
    OBVIOUS
  <2>2. Arity(n1)
    BY DEF Arity, Node
  <2>3. /\ n1 = Node(n1.op, n1.args, n1.attr, n1.shape, n1.marks)
        /\ n1.op \notin Fixed /\ n1.marks \cap Kept = {}
    BY DEF Node, Fixed
  <2> HIDE DEF n1
  <2> QED BY <1>8, <2>1, <2>2, <2>3 DEF Creatable
<1> HIDE DEF n1, created
<1>10. \A k \in 1..1 : k = 1
  OBVIOUS
<1>11. Replacement(graph, v, Fresh(1), created, top)
  BY <1>3, <1>6, <1>7, <1>8, <1>9, <1>10 DEF Replacement, NoDenominator, StandsFor, Fixed
<1>12. Replaces(graph, ret, e.g, e.r, v, Fresh(1), created, top)
  BY <1>7, <1>11, ReplaceOpReplaces
<1>13. Drops(graph, v, Fresh(1), created, top, D)
  BY <1>3, <1>4, <1>5, <1>7, <1>10 DEF Drops
<1>14. Keeps(graph, ret, e.g, e.r)
  BY <1>12, <1>13, ReplaceKeeps
<1> HIDE DEF e
<1> DEFINE V == Denotation(graph)
           W == Denotation(e.g)
<1>15. Sound(graph, ret) /\ Sound(e.g, e.r) /\ e.g[top + 1] = n1 /\ top + 1 \in DOMAIN e.g
  <2>1. \A k \in 1..Len(created) : e.g[top + k] = created[k] /\ top + k \in DOMAIN e.g
    BY <1>12, CreatedOp
  <2>2. Sound(graph, ret) /\ Sound(e.g, e.r)
    BY <1>14 DEF Keeps, GraphOK, Sound
  <2> QED BY <1>7, <2>1, <2>2
<1>16. DimsFit(graph) => DimsFit(e.g)
  BY <1>7, <1>8, <1>10, <1>12, ReplaceDims
<1>17. Stood(graph, e.g, v, top + 1)
  <2>1. V[a] = Constant(graph[a].attr) /\ V[b] = Constant(graph[b].attr)
    BY <1>3, <1>4, <1>15, ConstantValue DEF GraphOK, NodesOK, Arity
  <2>2. W[top + 1] = Constant(attr)
    BY <1>8, <1>15, ConstantValue
  <2>3. V[v] = Meaning(graph[v], <<V[a], V[b]>>, <<graph[a].shape, graph[b].shape>>)
    BY <1>3, <1>15, BinaryOperands, BinaryValue DEF BinaryOps
  <2> HIDE DEF V, W, a, b
  <2>4. V[v] = Constant(<<graph[v].op>> \o graph[a].attr \o graph[b].attr)
    BY <1>3, <2>1, <2>3, FoldedConstants
  <2> QED BY <1>61, <2>2, <2>4 DEF Stood, V, W
<1>18. Computes(e.g, e.r) = Computes(graph, ret)
  BY <1>6, <1>12, <1>15, <1>17, ReplaceValues
<1>19. Records(graph, ret, e.g, e.r, {"constant", "broadcast"})
  <2>0. \A i \in {1, 2} : graph[graph[v].args[i]].op = "constant"
    BY <1>3
  <2>1. Yields(graph, v) /\ \A m \in Boundaries : ~Bears(graph, v, m)
    BY <1>3, <2>0 DEF Yields, Firm, Stiff, Bears, Anchored
  <2>2. \A k \in 1..Len(created) : created[k].marks \cap Boundaries = {}
    BY <1>7, <1>8, <1>10
  <2>3. \A d \in D : d = v \/ graph[d].op \in {"constant", "broadcast"}
    BY <1>3
  <2>4. graph[v].op \notin {"constant", "broadcast"} \cup {"arg"}
    BY <1>3
  <2> HIDE DEF D
  <2> QED BY <1>12, <1>13, <2>1, <2>2, <2>3, <2>4, RecordsIf
<1> QED BY <1>2, <1>14, <1>16, <1>18, <1>19 DEF Values

-----------------------------------------------------------------------------
(***************************************************************************)
(* The inductive invariant. Marks that the stage keeps true are made by    *)
(* passes after the first; by then no matmul is without a use, and none of *)
(* the rewrites leaves one without: the prior dot_general of an attention  *)
(* is never erased.                                                        *)
(***************************************************************************)
IInv ==
  /\ GraphOK(graph, ret)
  /\ at \in Nat
  /\ at < 2 => Early(graph)
  /\ at >= 2 => DotsLive(graph, ret)

LEMMA FirstPass == Stage[1] = "conv-bn-fusion" /\ DOMAIN Stage = 1..20
<1>1. /\ Pipeline!registerFusionPipeline[1] = "conv-bn-fusion"
      /\ DOMAIN Pipeline!registerFusionPipeline = 1..20
  BY DEF Pipeline!registerFusionPipeline
<1>2. /\ Pipeline!buildFusionStage[1] = "conv-bn-fusion"
      /\ DOMAIN Pipeline!buildFusionStage = 1..20
  BY DEF Pipeline!buildFusionStage
<1> QED BY <1>1, <1>2, Zenon DEF Stage

LEMMA LaterPass ==
  ASSUME at \in Nat, NEW p, Runs(p), p # "conv-bn-fusion"
  PROVE  at >= 2
BY FirstPass DEF Runs, Running

LEMMA InitIInv == Init => IInv
<1> SUFFICES ASSUME Init PROVE IInv
  OBVIOUS
<1> DEFINE p == Programs[source]
           ops == graph
<1>1. Verified(p) /\ graph = p.ops /\ ret = p.ret /\ at = 0
  BY ProgramsAssumption DEF Init
<1>2. /\ graph \in Seq({graph[v] : v \in DOMAIN graph}) /\ ret \in Seq(DOMAIN graph)
      /\ \A v \in DOMAIN graph :
           /\ graph[v] = Node(graph[v].op, graph[v].args, graph[v].attr, graph[v].shape, {})
           /\ graph[v].args \in Seq(1..(v - 1))
           /\ Arity(graph[v])
      /\ ShapesFit(graph)
  BY <1>1 DEF Verified
<1>3. DOMAIN graph = 1..Len(graph) /\ Len(graph) \in Nat
  BY <1>2
<1>4. \A v \in DOMAIN graph : graph[v].marks = {}
  <2>1. \A a, b, c, d : Node(a, b, c, d, {}).marks = {}
    BY DEF Node
  <2> QED BY <1>2, <2>1
<1>5. NodesOK(graph)
  BY <1>2, <1>4 DEF NodesOK
<1>6. ASSUME NEW v \in DOMAIN graph, NEW i \in DOMAIN graph[v].args
      PROVE  graph[v].args[i] \in 1..(v - 1)
  <2>1. graph[v].args \in Seq(1..(v - 1))
    BY <1>2
  <2> QED BY <2>1, ElementOfSequence
<1>7. Closed(graph, ret)
  <2>1. ASSUME NEW v \in DOMAIN graph PROVE graph[v].args \in Seq(DOMAIN graph)
    <3>1. 1..(v - 1) \subseteq DOMAIN graph
      BY <1>3
    <3>2. graph[v].args \in Seq(1..(v - 1))
      BY <1>2
    <3>3. \A S, T : S \subseteq T => Seq(S) \subseteq Seq(T)
      OBVIOUS
    <3> QED BY <3>1, <3>2, <3>3, Zenon
  <2> QED BY <1>2, <2>1 DEF Closed
<1>8. Numbered(graph)
  BY <1>3 DEF Numbered
<1>9. Ranks(graph) # {}
  <2> DEFINE rank == [v \in DOMAIN graph |-> v]
  <2>1. rank \in [DOMAIN graph -> Nat]
    BY <1>3
  <2>2. ASSUME NEW v \in DOMAIN graph, NEW u \in ArgsOf(graph, v) PROVE rank[u] < rank[v]
    <3>1. u \in 1..(v - 1)
      BY <1>6 DEF ArgsOf
    <3> QED BY <1>3, <3>1
  <2>3. rank \in Ranks(graph)
    BY <2>1, <2>2 DEF Ranks
  <2> QED BY <2>3
<1>10. SoftmaxOK(graph) /\ AttentionOK(graph) /\ Early(graph)
  BY <1>4 DEF SoftmaxOK, AttentionOK, Early
<1> QED BY <1>1, <1>2, <1>5, <1>7, <1>8, <1>9, <1>10 DEF IInv, GraphOK

LEMMA KeepsIInv ==
  ASSUME IInv, Keeps(graph, ret, graph', ret'), at' = at
  PROVE  IInv'
BY DEF IInv, Keeps

\* A mark whose meaning the stage does not keep, or a pass after the first.
LEMMA AnnotateIInv ==
  ASSUME IInv, NEW matches, NEW m, Annotate(matches, m),
         \A v \in matches : v \in DOMAIN graph /\ MarkFits(graph, v, m),
         m \notin Kept \/ at >= 2
  PROVE  IInv'
<1>1. PICK v \in matches : graph' = [graph EXCEPT ![v].marks = @ \cup {m}]
  BY DEF Annotate
<1>2. ret' = ret /\ at' = at
  BY DEF Annotate, UnchangedStage
<1>3. v \in DOMAIN graph /\ MarkFits(graph, v, m) /\ GraphOK(graph, ret)
  BY DEF IInv
<1>4. /\ GraphOK(graph', ret)
      /\ DotsLive(graph, ret) => DotsLive(graph', ret)
      /\ m \notin Kept => (Early(graph) => Early(graph'))
  <2> DEFINE h == [graph EXCEPT ![v].marks = @ \cup {m}]
  <2>1. h = [graph EXCEPT ![v].marks = @ \cup {m}] /\ graph' = h
    BY <1>1
  <2> HIDE DEF h
  <2>2. GraphOK(h, ret)
    BY <1>3, <2>1, MarkKeeps
  <2>3. DotsLive(graph, ret) => DotsLive(h, ret)
    BY <1>3, <2>1, MarkKeeps, ZenonT(60)
  <2>4. Remarked(graph, h, v, m)
    BY <1>3, <2>1, MarkNodes
  <2>5. ASSUME m \notin Kept, Early(graph) PROVE Early(h)
    BY <2>4, <2>5, MarkEarly
  <2> QED BY <2>1, <2>2, <2>3, <2>5
<1> QED BY <1>2, <1>4 DEF IInv

LEMMA PlainMark ==
  ASSUME NEW g, NEW v, NEW m, m \notin Kept
  PROVE  MarkFits(g, v, m)
BY DEF MarkFits, Kept

LEMMA SoftmaxIInv ==
  ASSUME IInv, SoftmaxLegalize
  PROVE  IInv'
<1>1. Annotate(SoftmaxDivides, Softmax) /\ at >= 2
  BY LaterPass DEF SoftmaxLegalize, Softmax, IInv
<1>2. ASSUME NEW d \in SoftmaxDivides
      PROVE  d \in DOMAIN graph /\ MarkFits(graph, d, Softmax)
  <2> DEFINE x == graph[d].args[1]
             b == graph[d].args[2]
             s == graph[b].args[1]
  <2>1. /\ d \in DOMAIN graph /\ graph[d].op = "divide" /\ graph[b].op = "broadcast"
        /\ graph[s].op = "reduce" /\ graph[s].args[1] = x
    BY DEF SoftmaxDivides, Unmarked, Ops, Is, isSoftmaxDivide, isReduceOf, Arg
  <2>2. ShapesFit(graph) /\ GraphOK(graph, ret)
    BY DEF IInv, GraphOK
  <2>3. graph[b].shape = graph[x].shape
    BY <2>1, <2>2 DEF ShapesFit
  <2>4. b \in DOMAIN graph
    BY <2>1, <2>2, BinaryArgs DEF BinaryOps
  <2>5. s \in DOMAIN graph
    BY <2>1, <2>2, <2>4, UnaryArgs DEF UnaryOps
  <2>6. graph[s].shape # graph[x].shape
    BY <2>1, <2>2, <2>5 DEF ShapesFit
  <2> QED BY <2>1, <2>3, <2>6 DEF MarkFits, Softmax, Attends, Flash
<1> QED BY <1>1, <1>2, AnnotateIInv

LEMMA AttentionIInv ==
  ASSUME IInv, AttentionLegalize
  PROVE  IInv'
<1>1. Annotate(AttentionDots, Attends) /\ at >= 2
  BY LaterPass DEF AttentionLegalize, Attends, IInv
<1>2. ASSUME NEW v \in AttentionDots
      PROVE  v \in DOMAIN graph /\ MarkFits(graph, v, Attends)
  BY DEF AttentionDots, Unmarked, Ops, Is, isAttentionDot, hasPriorDotGeneral, Arg,
         MarkFits, Softmax, Attends, Flash
<1> QED BY <1>1, <1>2, AnnotateIInv

LEMMA FlashIInv ==
  ASSUME IInv, FlashAttentionTile
  PROVE  IInv'
<1>1. Annotate(FlashDots, Flash) /\ at >= 2
  BY LaterPass DEF FlashAttentionTile, Flash, IInv
<1>2. ASSUME NEW v \in FlashDots
      PROVE  v \in DOMAIN graph /\ MarkFits(graph, v, Flash)
  BY DEF FlashDots, Unmarked, Ops, isMarkedAttention, MarkFits, Softmax, Attends, Flash
<1> QED BY <1>1, <1>2, AnnotateIInv

LEMMA PlainAnnotateIInv ==
  ASSUME IInv, NEW matches, NEW m, Annotate(matches, m), matches \subseteq DOMAIN graph,
         m \notin Kept
  PROVE  IInv'
<1>1. \A v \in matches : v \in DOMAIN graph /\ MarkFits(graph, v, m)
  BY PlainMark
<1> QED BY <1>1, AnnotateIInv

\* The driver erases no matmul that something rests on.
LEMMA EraseDeadKeeps ==
  ASSUME IInv, EraseDead
  PROVE  Keeps(graph, ret, graph', ret')
<1>1. PICK v \in Dead : graph' = [n \in DOMAIN graph \ {v} |-> graph[n]]
  BY DEF EraseDead
<1> DEFINE h == [n \in DOMAIN graph \ {v} |-> graph[n]]
<1>2. GraphOK(graph, ret) /\ Unused(graph, ret, v)
  BY NoUses DEF IInv, Dead
<1>3. DotsLive(graph, ret) \/ Early(graph)
  BY DEF IInv
<1>4. Keeps(graph, ret, h, ret)
  BY <1>2, <1>3, EraseKeeps
<1> HIDE DEF h
<1>5. graph' = h /\ ret' = ret
  BY <1>1 DEF EraseDead, h
<1> QED BY <1>4, <1>5

\* Where nothing is dead, every op but an argument is returned or used by an op.
LEMMA FixpointAlive ==
  ASSUME GraphOK(graph, ret), Dead = {}
  PROVE  Alive(graph, ret, {}, {})
<1> DEFINE L == {v \in DOMAIN graph : graph[v].op # "arg"}
<1>1. ASSUME NEW v \in L
      PROVE  (\E i \in DOMAIN ret : ret[i] = v) \/ \E u \in L : v \in ArgsOf(graph, u)
  <2>1. Uses(graph, ret, v) # {}
    BY DEF Dead, Is
  <2> DEFINE usesAt(n) == {<<n, i>> : i \in {j \in DOMAIN graph[n].args :
                                                graph[n].args[j] = v}}
             returned == {<<0, i>> : i \in {j \in DOMAIN ret : ret[j] = v}}
  <2>2. Uses(graph, ret, v) = (UNION {usesAt(n) : n \in DOMAIN graph}) \cup returned
    BY DEF Uses
  <2>3. CASE returned # {}
    BY <2>3
  <2>4. ASSUME NEW n \in DOMAIN graph, usesAt(n) # {}
        PROVE  \E u \in L : v \in ArgsOf(graph, u)
    <3>1. PICK i \in DOMAIN graph[n].args : graph[n].args[i] = v
      BY <2>4
    <3>2. v \in ArgsOf(graph, n)
      BY <3>1 DEF ArgsOf
    <3>3. n \in L
      BY <3>2, NoArgs
    <3> QED BY <3>2, <3>3
  <2> HIDE DEF usesAt, returned
  <2>5. CASE \E n \in DOMAIN graph : usesAt(n) # {}
    BY <2>4, <2>5
  <2>6. returned # {} \/ \E n \in DOMAIN graph : usesAt(n) # {}
    BY <2>1, <2>2
  <2> QED BY <2>3, <2>5, <2>6
<1>2. Supported(graph, ret, L)
  BY <1>1 DEF Supported
<1>3. \A v \in DOMAIN graph \ L : v \in {} \/ graph[v].op \in {} \cup {"arg"}
  OBVIOUS
<1> QED BY <1>2, <1>3 DEF Alive

LEMMA FixpointLive ==
  ASSUME GraphOK(graph, ret), Dead = {}
  PROVE  DotsLive(graph, ret)
<1>1. PICK L : /\ Supported(graph, ret, L)
               /\ \A v \in DOMAIN graph \ L : v \in {} \/ graph[v].op \in {} \cup {"arg"}
  BY FixpointAlive DEF Alive
<1>2. Dots(graph) \subseteq L
  BY <1>1 DEF Dots
<1> QED BY <1>1, <1>2 DEF DotsLive

LEMMA NextIInv == IInv /\ [Next]_vars => IInv'
<1> SUFFICES ASSUME IInv, [Next]_vars PROVE IInv'
  OBVIOUS
<1>0. GraphOK(graph, ret) /\ at \in Nat
  BY DEF IInv
<1>1. ASSUME UNCHANGED <<graph, ret, at>> PROVE IInv'
  BY <1>1 DEF IInv
<1>2. CASE BuildPipeline
  BY <1>2 DEF BuildPipeline, IInv
<1>3. CASE RefuseOptions
  BY <1>1, <1>3 DEF RefuseOptions
<1>4. CASE ConvBNFusion
  <2>1. at' = at
    BY <1>4 DEF ConvBNFusion, Rewritten, UnchangedStage
  <2> QED BY <1>0, <1>4, <2>1, ConvBNKeeps, KeepsIInv
<1>5. CASE ConvBNReluFusion
  <2>1. at' = at
    BY <1>5 DEF ConvBNReluFusion, Rewritten, UnchangedStage
  <2> QED BY <1>0, <1>5, <2>1, ConvBNReluKeeps, KeepsIInv
<1>6. CASE SoftmaxLegalize
  BY <1>6, SoftmaxIInv
<1>7. CASE RMSNormLegalize
  <2>1. RmsNormMultiplies \subseteq DOMAIN graph
    BY DEF RmsNormMultiplies, Unmarked, Ops
  <2>2. "rmsnorm_canonicalized" \notin Kept
    BY DEF Kept, Softmax, Attends, Flash
  <2> QED BY <1>7, <2>1, <2>2, PlainAnnotateIInv DEF RMSNormLegalize
<1>8. CASE AttentionLegalize
  BY <1>8, AttentionIInv
<1>9. CASE FlashAttentionTile
  BY <1>9, FlashIInv
<1>10. CASE RoPELegalize
  <2>1. RoPEAdds \subseteq DOMAIN graph
    BY DEF RoPEAdds, Unmarked, Ops
  <2>2. "rope_canonicalized" \notin Kept
    BY DEF Kept, Softmax, Attends, Flash
  <2> QED BY <1>10, <2>1, <2>2, PlainAnnotateIInv DEF RoPELegalize
<1>11. CASE LayerNormLegalize
  <2>1. LayerNormAdds \subseteq DOMAIN graph
    BY DEF LayerNormAdds, Unmarked, Ops
  <2>2. "layernorm_canonicalized" \notin Kept
    BY DEF Kept, Softmax, Attends, Flash
  <2> QED BY <1>11, <2>1, <2>2, PlainAnnotateIInv DEF LayerNormLegalize
<1>12. CASE GeluLegalize
  <2>1. GeluMultiplies \subseteq DOMAIN graph
    BY DEF GeluMultiplies, Unmarked, Ops
  <2>2. "gelu_canonicalized" \notin Kept
    BY DEF Kept, Softmax, Attends, Flash
  <2> QED BY <1>12, <2>1, <2>2, PlainAnnotateIInv DEF GeluLegalize
<1>13. CASE SwiGLULegalize
  <2>1. SwiGLUMultiplies \subseteq DOMAIN graph
    BY DEF SwiGLUMultiplies, Unmarked, Ops
  <2>2. "swiglu_canonicalized" \notin Kept
    BY DEF Kept, Softmax, Attends, Flash
  <2> QED BY <1>13, <2>1, <2>2, PlainAnnotateIInv DEF SwiGLULegalize
<1>14. CASE QdqLegalize
  <2>1. QdqDots \subseteq DOMAIN graph
    BY DEF QdqDots, Unmarked, Ops
  <2>2. "qdq_matmul_canonicalized" \notin Kept
    BY DEF Kept, Softmax, Attends, Flash
  <2> QED BY <1>14, <2>1, <2>2, PlainAnnotateIInv DEF QdqLegalize
<1>15. CASE MatMulBiasFusion
  <2>1. MatMulBiasAdds \subseteq DOMAIN graph
    BY DEF MatMulBiasAdds, Unmarked, Ops
  <2>2. "matmul_bias_fused" \notin Kept
    BY DEF Kept, Softmax, Attends, Flash
  <2> QED BY <1>15, <2>1, <2>2, PlainAnnotateIInv DEF MatMulBiasFusion
<1>16. CASE MatMulBiasAbort
  BY <1>1, <1>16 DEF MatMulBiasAbort
<1>17. CASE HorizontalGemmFusion
  <2>1. HorizontalGemms \subseteq DOMAIN graph
    BY DEF HorizontalGemms, Unmarked, Ops
  <2>2. "horizontal_gemm_fused" \notin Kept
    BY DEF Kept, Softmax, Attends, Flash
  <2> QED BY <1>17, <2>1, <2>2, PlainAnnotateIInv DEF HorizontalGemmFusion
<1>18. CASE ElementwiseReluFold
  <2>1. at' = at
    BY <1>18 DEF ElementwiseReluFold, Rewritten, UnchangedStage
  <2> QED BY <1>0, <1>18, <2>1, ElementwiseReluKeeps, KeepsIInv
<1>19. CASE ElementwiseChainClamp
  <2>1. ChainClamps \subseteq DOMAIN graph
    BY DEF ChainClamps, Unmarked, Ops
  <2>2. "elementwise_chain_fused" \notin Kept
    BY DEF Kept, Softmax, Attends, Flash
  <2> QED BY <1>19, <2>1, <2>2, PlainAnnotateIInv DEF ElementwiseChainClamp
<1>20. CASE ProducerConsumerLegalize
  <2>1. at' = at
    BY <1>20 DEF ProducerConsumerLegalize, Rewritten, UnchangedStage
  <2> QED BY <1>0, <1>20, <2>1, ProducerConsumerKeeps, KeepsIInv
<1>21. CASE LayoutBridgeLegalize
  <2>1. LayoutBridges \subseteq DOMAIN graph
    BY DEF LayoutBridges, Unmarked, Ops
  <2>2. "layout_folded" \notin Kept
    BY DEF Kept, Softmax, Attends, Flash
  <2> QED BY <1>21, <2>1, <2>2, PlainAnnotateIInv DEF LayoutBridgeLegalize
<1>22. CASE LayoutFoldNchw
  <2>1. at' = at
    BY <1>22 DEF LayoutFoldNchw, Rewritten, UnchangedStage
  <2> QED BY <1>0, <1>22, <2>1, LayoutFoldNchwKeeps, KeepsIInv
<1>23. CASE LayoutFoldSimple
  <2>1. at' = at
    BY <1>23 DEF LayoutFoldSimple, Rewritten, UnchangedStage
  <2> QED BY <1>0, <1>23, <2>1, LayoutFoldSimpleKeeps, KeepsIInv
<1>24. CASE KVCacheLegalize
  BY <1>1, <1>24 DEF KVCacheLegalize
<1>25. CASE BroadcastIdentity
  <2>1. at' = at
    BY <1>25 DEF BroadcastIdentity, Rewritten, UnchangedStage
  <2> QED BY <1>0, <1>25, <2>1, BroadcastIdentityKeeps, KeepsIInv
<1>26. CASE BroadcastNested
  <2>1. at' = at
    BY <1>26 DEF BroadcastNested, Rewritten, UnchangedStage
  <2> QED BY <1>0, <1>26, <2>1, BroadcastNestedKeeps, KeepsIInv
<1>27. CASE StablehloConstantFold
  <2>1. at' = at
    BY <1>27 DEF StablehloConstantFold, Rewritten, UnchangedStage
  <2> QED BY <1>0, <1>27, <2>1, ConstantFoldKeeps, KeepsIInv
<1>28. CASE EraseDead
  <2>1. at' = at
    BY <1>28 DEF EraseDead, UnchangedStage
  <2> QED BY <1>28, <2>1, EraseDeadKeeps, KeepsIInv
<1>29. CASE EndPass
  <2>1. DotsLive(graph, ret)
    BY <1>0, <1>29, FixpointLive DEF EndPass, AtFixpoint
  <2>2. at >= 1
    BY <1>0, <1>29, FirstPass DEF EndPass, AtFixpoint, Running
  <2>3. graph' = graph /\ ret' = ret /\ at' = at + 1
    BY <1>29 DEF EndPass
  <2> QED BY <1>0, <2>1, <2>2, <2>3 DEF IInv
<1>30. CASE VerifierRejects
  BY <1>1, <1>30 DEF VerifierRejects
<1>31. CASE UNCHANGED vars
  BY <1>1, <1>31 DEF vars
<1> QED
  BY <1>2, <1>3, <1>4, <1>5, <1>6, <1>7, <1>8, <1>9, <1>10, <1>11, <1>12, <1>13, <1>14,
     <1>15, <1>16, <1>17, <1>18, <1>19, <1>20, <1>21, <1>22, <1>23, <1>24, <1>25, <1>26,
     <1>27, <1>28, <1>29, <1>30, <1>31 DEF Next

LEMMA InvariantHolds == Spec => []IInv
BY InitIInv, NextIInv, PTL DEF Spec

-----------------------------------------------------------------------------
(***************************************************************************)
(* No pass of the fusion stage erases an op that something still uses:     *)
(* neither the convolution under a batch norm, the subtraction under an    *)
(* exponential and the convolution under a transpose, which the patterns   *)
(* erase themselves, nor what the greedy driver erases. Whatever verified  *)
(* function the stage is given, every operand and every result exists.     *)
(***************************************************************************)
THEOREM NothingErasedIsUsed == Spec => []NoUseOfErased
<1>1. IInv => NoUseOfErased
  <2> SUFFICES ASSUME IInv PROVE NoUseOfErased
    OBVIOUS
  <2>1. Closed(graph, ret)
    BY DEF IInv, GraphOK
  <2>2. ASSUME NEW n \in DOMAIN graph, NEW i \in DOMAIN graph[n].args
        PROVE  graph[n].args[i] \in DOMAIN graph
    BY <2>1, ElementOfSequence DEF Closed
  <2>3. ASSUME NEW i \in DOMAIN ret PROVE ret[i] \in DOMAIN graph
    BY <2>1, ElementOfSequence DEF Closed
  <2> QED BY <2>2, <2>3 DEF NoUseOfErased
<1> QED BY <1>1, InvariantHolds, PTL

-----------------------------------------------------------------------------
(***************************************************************************)
(* What a marked divide divides by. It was marked by the third pass; until *)
(* then every divide by a reduction is as the source has it, and after     *)
(* that no rewrite gives a marked one another denominator.                 *)
(***************************************************************************)
TotalOK(ops, g, d) ==
  g[Total(g, d)].attr = <<"sum">> \/ DividesByOther(ops, Total(g, d))

TInv ==
  /\ \A d \in DOMAIN graph :
       Softmax \in graph[d].marks => TotalOK(Programs[source].ops, graph, d)
  /\ at < 4 => \A d \in DOMAIN graph :
       Divides(graph, d) => TotalOK(Programs[source].ops, graph, d)

LEMMA InitTInv == Init => TInv
<1> SUFFICES ASSUME Init PROVE TInv
  OBVIOUS
<1> DEFINE ops == Programs[source].ops
<1>1. Verified(Programs[source]) /\ graph = ops
  BY ProgramsAssumption DEF Init
<1>2. GraphOK(graph, ret) /\ Early(graph)
  BY InitIInv DEF IInv, Init
<1>3. ASSUME NEW d \in DOMAIN graph, Divides(graph, d)
      PROVE  TotalOK(ops, graph, d)
  <2>1. graph[d].op = "divide" /\ graph[graph[d].args[2]].op = "broadcast"
        /\ graph[Total(graph, d)].op = "reduce"
    BY <1>3 DEF Divides
  <2>2. Total(graph, d) \in DOMAIN graph
    BY <1>2, <2>1, DividesWithin
  <2>3. graph[graph[d].args[2]].args[1] = Total(graph, d)
    BY DEF Total
  <2>4. ASSUME graph[Total(graph, d)].attr # <<"sum">>
        PROVE  DividesByOther(graph, Total(graph, d))
    BY <2>1, <2>2, <2>3, <2>4 DEF DividesByOther
  <2> QED BY <1>1, <2>4 DEF TotalOK
<1>4. \A d \in DOMAIN graph : Softmax \notin graph[d].marks
  BY <1>2 DEF Early, Kept
<1> QED BY <1>3, <1>4 DEF TInv

\* A step that keeps the denominators: those of the marked divides, and in the
\* first three passes those of all.
LEMMA TotalsStep ==
  ASSUME TInv, SameTotals(graph, graph'), source' = source, at' = at,
         at < 4 => OldTotals(graph, graph')
  PROVE  TInv'
<1> DEFINE ops == Programs[source].ops
           h == graph'
<1>1. ASSUME NEW d \in DOMAIN h, Softmax \in h[d].marks PROVE TotalOK(ops, h, d)
  <2>1. /\ d \in DOMAIN graph /\ Softmax \in graph[d].marks
        /\ Total(h, d) = Total(graph, d)
        /\ h[Total(graph, d)].attr = graph[Total(graph, d)].attr
    BY <1>1 DEF SameTotals
  <2>2. TotalOK(ops, graph, d)
    BY <2>1 DEF TInv
  <2> HIDE DEF ops, h
  <2> QED BY <2>1, <2>2 DEF TotalOK
<1>2. ASSUME at < 4, NEW d \in DOMAIN h, Divides(h, d) PROVE TotalOK(ops, h, d)
  <2>1. /\ d \in DOMAIN graph /\ Divides(graph, d)
        /\ Total(h, d) = Total(graph, d)
        /\ h[Total(graph, d)].attr = graph[Total(graph, d)].attr
    BY <1>2 DEF OldTotals
  <2>2. TotalOK(ops, graph, d)
    BY <1>2, <2>1 DEF TInv
  <2> HIDE DEF ops, h
  <2> QED BY <2>1, <2>2 DEF TotalOK
<1> QED BY <1>1, <1>2 DEF TInv, TotalOK

LEMMA AfterSoftmax ==
  ASSUME at \in Nat, NEW p, Runs(p),
         p \notin {"conv-bn-fusion", "conv-bn-relu-fusion", "softmax-legalize"}
  PROVE  at >= 4
<1>1. Stage[1] = "conv-bn-fusion" /\ Stage[2] = "conv-bn-relu-fusion"
      /\ Stage[3] = "softmax-legalize"
  BY Zenon DEF Stage, Pipeline!registerFusionPipeline, Pipeline!buildFusionStage
<1> QED BY <1>1, FirstPass DEF Runs, Running

LEMMA OneSoftmax == \A i \in DOMAIN Stage : Stage[i] = "softmax-legalize" => i = 3
<1>1. \A i \in 1..20 :
        Pipeline!registerFusionPipeline[i] = "softmax-legalize" => i = 3
  BY DEF Pipeline!registerFusionPipeline
<1>2. \A i \in 1..20 : Pipeline!buildFusionStage[i] = "softmax-legalize" => i = 3
  BY DEF Pipeline!buildFusionStage
<1> QED BY <1>1, <1>2, FirstPass, Zenon DEF Stage

\* An annotation: a new softmax mark goes where the source divides the same way.
LEMMA AnnotateTInv ==
  ASSUME IInv, IInv', TInv, NEW matches, NEW m, Annotate(matches, m),
         matches \subseteq DOMAIN graph,
         m # Softmax \/ (at < 4 /\ \A v \in matches : Divides(graph, v))
  PROVE  TInv'
<1>1. PICK v \in matches : graph' = [graph EXCEPT ![v].marks = @ \cup {m}]
  BY DEF Annotate
<1>2. ret' = ret /\ at' = at /\ source' = source
  BY DEF Annotate, UnchangedStage
<1>3. v \in DOMAIN graph /\ GraphOK(graph, ret) /\ GraphOK(graph', ret)
  BY <1>2 DEF IInv
<1> DEFINE h == graph'
<1>4. h = [graph EXCEPT ![v].marks = @ \cup {m}]
  BY <1>1
<1> HIDE DEF h
<1>5. Remarked(graph, h, v, m)
  BY <1>3, <1>4, MarkNodes
<1>6. OldTotals(graph, h)
  BY <1>3, <1>5, RemarkedTotals DEF h
<1>7. CASE m # Softmax
  <2>1. SameTotals(graph, h)
    BY <1>3, <1>5, <1>7, MarkTotals
  <2> QED BY <1>2, <1>6, <2>1, TotalsStep DEF h
<1>8. CASE at < 4 /\ Divides(graph, v)
  <2> DEFINE ops == Programs[source].ops
  <2>1. ASSUME NEW d \in DOMAIN h, Divides(h, d) PROVE TotalOK(ops, h, d)
    <3>1. /\ d \in DOMAIN graph /\ Divides(graph, d)
          /\ Total(h, d) = Total(graph, d)
          /\ h[Total(graph, d)].attr = graph[Total(graph, d)].attr
      BY <1>6, <2>1 DEF OldTotals
    <3>2. TotalOK(ops, graph, d)
      BY <1>8, <3>1 DEF TInv
    <3> HIDE DEF ops
    <3> QED BY <3>1, <3>2 DEF TotalOK
  <2>2. ASSUME NEW d \in DOMAIN h, Softmax \in h[d].marks PROVE Divides(h, d)
    <3>1. SoftmaxOK(h)
      BY <1>3 DEF GraphOK, h
    <3> QED BY <2>2, <3>1 DEF SoftmaxOK, Divides, Total
  <2>3. \A d \in DOMAIN h : Softmax \in h[d].marks => TotalOK(ops, h, d)
    BY <2>1, <2>2
  <2> QED BY <1>2, <2>1, <2>3 DEF TInv, TotalOK, h
<1> QED BY <1>7, <1>8

LEMMA KeepsTInv ==
  ASSUME IInv, TInv, Keeps(graph, ret, graph', ret'), UnchangedStage,
         NEW p, Runs(p),
         p \notin {"conv-bn-fusion", "conv-bn-relu-fusion", "softmax-legalize"}
  PROVE  TInv'
<1>1. at >= 4 /\ at \in Nat
  BY AfterSoftmax DEF IInv
<1>2. SameTotals(graph, graph') /\ source' = source /\ at' = at
  BY DEF Keeps, UnchangedStage
<1> QED BY <1>1, <1>2, TotalsStep

LEMMA NextTInv == IInv /\ IInv' /\ TInv /\ [Next]_vars => TInv'
<1> SUFFICES ASSUME IInv, IInv', TInv, [Next]_vars PROVE TInv'
  OBVIOUS
<1>0. GraphOK(graph, ret) /\ at \in Nat
  BY DEF IInv
<1>1. ASSUME graph' = graph, source' = source, at' = at \/ at' = at + 1 PROVE TInv'
  <2>1. at' < 4 => at < 4
    BY <1>0, <1>1
  <2> QED BY <1>1, <2>1 DEF TInv, TotalOK, Divides, Total
<1>2. ASSUME NEW matches, NEW m, Annotate(matches, m), matches \subseteq DOMAIN graph,
             m # Softmax
      PROVE  TInv'
  BY <1>2, AnnotateTInv
<1>3. CASE ConvBNFusion
  <2>1. at' = at /\ source' = source
    BY <1>3 DEF ConvBNFusion, Rewritten, UnchangedStage
  <2>2. SameTotals(graph, graph') /\ OldTotals(graph, graph')
    BY <1>0, <1>3, ConvBNKeeps DEF Keeps
  <2> QED BY <2>1, <2>2, TotalsStep
<1>4. CASE ConvBNReluFusion
  <2>1. at' = at /\ source' = source
    BY <1>4 DEF ConvBNReluFusion, Rewritten, UnchangedStage
  <2>2. SameTotals(graph, graph') /\ OldTotals(graph, graph')
    BY <1>0, <1>4, ConvBNReluKeeps DEF Keeps
  <2> QED BY <2>1, <2>2, TotalsStep
<1>5. CASE SoftmaxLegalize
  <2>1. at = 3 /\ Annotate(SoftmaxDivides, Softmax)
    BY <1>5, OneSoftmax DEF SoftmaxLegalize, Runs, Running, Softmax
  <2>2. \A d \in SoftmaxDivides : d \in DOMAIN graph /\ Divides(graph, d)
    BY DEF SoftmaxDivides, Unmarked, Ops, Is, isSoftmaxDivide, isReduceOf, Arg, Divides,
           Total
  <2> QED BY <2>1, <2>2, AnnotateTInv
<1>6. CASE RMSNormLegalize
  <2>1. RmsNormMultiplies \subseteq DOMAIN graph
    BY DEF RmsNormMultiplies, Unmarked, Ops
  <2> QED BY <1>2, <1>6, <2>1 DEF RMSNormLegalize, Softmax
<1>7. CASE AttentionLegalize
  <2>1. AttentionDots \subseteq DOMAIN graph
    BY DEF AttentionDots, Unmarked, Ops
  <2> QED BY <1>2, <1>7, <2>1 DEF AttentionLegalize, Softmax
<1>8. CASE FlashAttentionTile
  <2>1. FlashDots \subseteq DOMAIN graph
    BY DEF FlashDots, Unmarked, Ops
  <2> QED BY <1>2, <1>8, <2>1 DEF FlashAttentionTile, Softmax
<1>9. CASE RoPELegalize
  <2>1. RoPEAdds \subseteq DOMAIN graph
    BY DEF RoPEAdds, Unmarked, Ops
  <2> QED BY <1>2, <1>9, <2>1 DEF RoPELegalize, Softmax
<1>10. CASE LayerNormLegalize
  <2>1. LayerNormAdds \subseteq DOMAIN graph
    BY DEF LayerNormAdds, Unmarked, Ops
  <2> QED BY <1>2, <1>10, <2>1 DEF LayerNormLegalize, Softmax
<1>11. CASE GeluLegalize
  <2>1. GeluMultiplies \subseteq DOMAIN graph
    BY DEF GeluMultiplies, Unmarked, Ops
  <2> QED BY <1>2, <1>11, <2>1 DEF GeluLegalize, Softmax
<1>12. CASE SwiGLULegalize
  <2>1. SwiGLUMultiplies \subseteq DOMAIN graph
    BY DEF SwiGLUMultiplies, Unmarked, Ops
  <2> QED BY <1>2, <1>12, <2>1 DEF SwiGLULegalize, Softmax
<1>13. CASE QdqLegalize
  <2>1. QdqDots \subseteq DOMAIN graph
    BY DEF QdqDots, Unmarked, Ops
  <2> QED BY <1>2, <1>13, <2>1 DEF QdqLegalize, Softmax
<1>14. CASE MatMulBiasFusion
  <2>1. MatMulBiasAdds \subseteq DOMAIN graph
    BY DEF MatMulBiasAdds, Unmarked, Ops
  <2> QED BY <1>2, <1>14, <2>1 DEF MatMulBiasFusion, Softmax
<1>15. CASE HorizontalGemmFusion
  <2>1. HorizontalGemms \subseteq DOMAIN graph
    BY DEF HorizontalGemms, Unmarked, Ops
  <2> QED BY <1>2, <1>15, <2>1 DEF HorizontalGemmFusion, Softmax
<1>16. CASE ElementwiseChainClamp
  <2>1. ChainClamps \subseteq DOMAIN graph
    BY DEF ChainClamps, Unmarked, Ops
  <2> QED BY <1>2, <1>16, <2>1 DEF ElementwiseChainClamp, Softmax
<1>17. CASE LayoutBridgeLegalize
  <2>1. LayoutBridges \subseteq DOMAIN graph
    BY DEF LayoutBridges, Unmarked, Ops
  <2> QED BY <1>2, <1>17, <2>1 DEF LayoutBridgeLegalize, Softmax
<1>18. CASE ElementwiseReluFold
  <2>1. Keeps(graph, ret, graph', ret')
    BY <1>0, <1>18, ElementwiseReluKeeps
  <2> QED BY <1>18, <2>1, KeepsTInv DEF ElementwiseReluFold, Rewritten
<1>19. CASE ProducerConsumerLegalize
  <2>1. Keeps(graph, ret, graph', ret')
    BY <1>0, <1>19, ProducerConsumerKeeps
  <2> QED BY <1>19, <2>1, KeepsTInv DEF ProducerConsumerLegalize, Rewritten
<1>20. CASE LayoutFoldNchw
  <2>1. Keeps(graph, ret, graph', ret')
    BY <1>0, <1>20, LayoutFoldNchwKeeps
  <2> QED BY <1>20, <2>1, KeepsTInv DEF LayoutFoldNchw, Rewritten
<1>21. CASE LayoutFoldSimple
  <2>1. Keeps(graph, ret, graph', ret')
    BY <1>0, <1>21, LayoutFoldSimpleKeeps
  <2> QED BY <1>21, <2>1, KeepsTInv DEF LayoutFoldSimple, Rewritten
<1>22. CASE BroadcastIdentity
  <2>1. Keeps(graph, ret, graph', ret')
    BY <1>0, <1>22, BroadcastIdentityKeeps
  <2> QED BY <1>22, <2>1, KeepsTInv DEF BroadcastIdentity, Rewritten
<1>23. CASE BroadcastNested
  <2>1. Keeps(graph, ret, graph', ret')
    BY <1>0, <1>23, BroadcastNestedKeeps
  <2> QED BY <1>23, <2>1, KeepsTInv DEF BroadcastNested, Rewritten
<1>24. CASE StablehloConstantFold
  <2>1. Keeps(graph, ret, graph', ret')
    BY <1>0, <1>24, ConstantFoldKeeps
  <2> QED BY <1>24, <2>1, KeepsTInv DEF StablehloConstantFold, Rewritten
<1>25. CASE EraseDead
  <2>1. at' = at /\ source' = source /\ ret' = ret
    BY <1>25 DEF EraseDead, UnchangedStage
  <2>2. SameTotals(graph, graph') /\ GraphOK(graph', ret)
    BY <1>25, <2>1, EraseDeadKeeps DEF Keeps
  <2>3. PICK v \in Dead : graph' = [k \in DOMAIN graph \ {v} |-> graph[k]]
    BY <1>25 DEF EraseDead
  <2>4. OldTotals(graph, graph')
    BY <2>2, <2>3, EraseTotals
  <2> QED BY <2>1, <2>2, <2>4, TotalsStep
<1>26. CASE \/ BuildPipeline \/ RefuseOptions \/ MatMulBiasAbort \/ KVCacheLegalize
           \/ EndPass \/ VerifierRejects \/ UNCHANGED vars
  BY <1>0, <1>1, <1>26
     DEF BuildPipeline, RefuseOptions, MatMulBiasAbort, KVCacheLegalize, EndPass,
         VerifierRejects, vars
<1> QED
  BY <1>3, <1>4, <1>5, <1>6, <1>7, <1>8, <1>9, <1>10, <1>11, <1>12, <1>13, <1>14,
     <1>15, <1>16, <1>17, <1>18, <1>19, <1>20, <1>21, <1>22, <1>23, <1>24, <1>25,
     <1>26 DEF Next

(***************************************************************************)
(* A divide that SoftmaxLegalize has marked divides by a reduction of its  *)
(* own numerator to the end of the stage: the rewrites that follow it      *)
(* replace the numerator in both places, and no broadcast is taken out of  *)
(* the denominator, because a reduction never has the shape it is          *)
(* broadcast to. The reduction is a sum, as Passes.td:36 has it, unless    *)
(* the function the stage was given divides by that reduction already.     *)
(***************************************************************************)
THEOREM SoftmaxKeepsNumerator == Spec => []SoftmaxSharesNumerator
<1>1. IInv /\ TInv => SoftmaxSharesNumerator
  BY DEF IInv, TInv, TotalOK, Total, GraphOK, SoftmaxOK, SoftmaxSharesNumerator, Arg,
         Attr, Is, Softmax
<1>2. Spec => [](IInv /\ TInv)
  BY InitIInv, InitTInv, NextIInv, NextTInv, PTL DEF Spec
<1> QED BY <1>1, <1>2, PTL

(***************************************************************************)
(* An op that FlashAttentionTile has marked stays an attention product: it *)
(* is marked as attention, its left operand is the divide of a marked      *)
(* softmax, and a dot_general before it is still there.                    *)
(***************************************************************************)
THEOREM FlashStaysAttention == Spec => []FlashIsAttention
<1>1. IInv => FlashIsAttention
  BY DEF IInv, GraphOK, AttentionOK, FlashIsAttention, isMarkedAttention, Is, Op, Ops, Arg,
         Softmax, Attends, Flash
<1> QED BY <1>1, InvariantHolds, PTL

-----------------------------------------------------------------------------
(***************************************************************************)
(* What the function returns. A rewrite replaces an op by ops that compute *)
(* the same, an annotation changes no value, and nothing uses what is      *)
(* erased. That nested broadcasts compose rests on their dimensions being  *)
(* those of the operand and of the result, which every rewrite keeps.      *)
(***************************************************************************)
StepComputes ==
  /\ DimsFit(graph')
  /\ Computed' = Computed \/ FoldsLayout \/ TurnsShift \/ DropsPermutation

LEMMA ValuesStep ==
  ASSUME DimsFit(graph), Values(graph, ret, graph', ret')
  PROVE  StepComputes
BY DEF Values, StepComputes, Computed

LEMMA AnnotateStep ==
  ASSUME IInv, IInv', DimsFit(graph), NEW matches, matches \subseteq DOMAIN graph, NEW m,
         Annotate(matches, m)
  PROVE  StepComputes
<1>1. PICK v \in matches : graph' = [graph EXCEPT ![v].marks = @ \cup {m}]
  BY DEF Annotate
<1>2. ret' = ret /\ GraphOK(graph, ret) /\ GraphOK(graph', ret')
  BY DEF Annotate, IInv
<1> DEFINE h == [graph EXCEPT ![v].marks = @ \cup {m}]
<1>3. Remarked(graph, h, v, m)
  BY <1>2, MarkNodes
<1>4. graph' = h
  BY <1>1
<1> HIDE DEF h
<1>5. Values(graph, ret, graph', ret')
  BY <1>2, <1>3, <1>4, MarkValues
<1> QED BY <1>5, ValuesStep

LEMMA UnchangedValues ==
  ASSUME DimsFit(graph), UNCHANGED <<graph, ret>>
  PROVE  StepComputes
BY DEF StepComputes, Computed

LEMMA EraseDeadStep ==
  ASSUME IInv, IInv', DimsFit(graph), EraseDead
  PROVE  StepComputes
<1>1. PICK v \in Dead : graph' = [n \in DOMAIN graph \ {v} |-> graph[n]]
  BY DEF EraseDead
<1> DEFINE h == [n \in DOMAIN graph \ {v} |-> graph[n]]
<1>2. /\ GraphOK(graph, ret) /\ Unused(graph, ret, v) /\ GraphOK(graph', ret')
      /\ graph' = h /\ ret' = ret
  BY <1>1, NoUses DEF IInv, Dead, EraseDead
<1>3. Values(graph, ret, h, ret)
  BY <1>2, EraseValues
<1> HIDE DEF h
<1> QED BY <1>2, <1>3, ValuesStep

LEMMA NextComputes ==
  IInv /\ DimsFit(graph) /\ [Next]_vars => StepComputes
<1> SUFFICES ASSUME IInv, DimsFit(graph), [Next]_vars PROVE StepComputes
  OBVIOUS
<1>0. IInv' /\ GraphOK(graph, ret)
  BY NextIInv DEF IInv
<1>1. CASE ConvBNFusion
  BY <1>0, <1>1, ConvBNKeeps, ValuesStep
<1>2. CASE ConvBNReluFusion
  BY <1>0, <1>2, ConvBNReluKeeps, ValuesStep
<1>3. CASE ElementwiseReluFold
  BY <1>0, <1>3, ElementwiseReluKeeps, ValuesStep
<1>4. CASE BroadcastNested
  BY <1>0, <1>4, BroadcastNestedKeeps, ValuesStep
<1>5. CASE StablehloConstantFold
  BY <1>0, <1>5, ConstantFoldKeeps, ValuesStep
<1>6. CASE ProducerConsumerLegalize
  BY <1>0, <1>6, ProducerConsumerKeeps DEF StepComputes
<1>7. CASE BroadcastIdentity
  BY <1>0, <1>7, BroadcastIdentityKeeps DEF StepComputes
<1>8. CASE LayoutFoldNchw
  BY <1>0, <1>8, LayoutFoldNchwKeeps DEF StepComputes, FoldsLayout
<1>9. CASE LayoutFoldSimple
  BY <1>0, <1>9, LayoutFoldSimpleKeeps DEF StepComputes, FoldsLayout
<1>10. CASE SoftmaxLegalize
  <2>1. SoftmaxDivides \subseteq DOMAIN graph
    BY DEF SoftmaxDivides, Unmarked, Ops
  <2> QED BY <1>0, <1>10, <2>1, AnnotateStep DEF SoftmaxLegalize
<1>11. CASE RMSNormLegalize
  <2>1. RmsNormMultiplies \subseteq DOMAIN graph
    BY DEF RmsNormMultiplies, Unmarked, Ops
  <2> QED BY <1>0, <1>11, <2>1, AnnotateStep DEF RMSNormLegalize
<1>12. CASE AttentionLegalize
  <2>1. AttentionDots \subseteq DOMAIN graph
    BY DEF AttentionDots, Unmarked, Ops
  <2> QED BY <1>0, <1>12, <2>1, AnnotateStep DEF AttentionLegalize
<1>13. CASE FlashAttentionTile
  <2>1. FlashDots \subseteq DOMAIN graph
    BY DEF FlashDots, Unmarked, Ops
  <2> QED BY <1>0, <1>13, <2>1, AnnotateStep DEF FlashAttentionTile
<1>14. CASE RoPELegalize
  <2>1. RoPEAdds \subseteq DOMAIN graph
    BY DEF RoPEAdds, Unmarked, Ops
  <2> QED BY <1>0, <1>14, <2>1, AnnotateStep DEF RoPELegalize
<1>15. CASE LayerNormLegalize
  <2>1. LayerNormAdds \subseteq DOMAIN graph
    BY DEF LayerNormAdds, Unmarked, Ops
  <2> QED BY <1>0, <1>15, <2>1, AnnotateStep DEF LayerNormLegalize
<1>16. CASE GeluLegalize
  <2>1. GeluMultiplies \subseteq DOMAIN graph
    BY DEF GeluMultiplies, Unmarked, Ops
  <2> QED BY <1>0, <1>16, <2>1, AnnotateStep DEF GeluLegalize
<1>17. CASE SwiGLULegalize
  <2>1. SwiGLUMultiplies \subseteq DOMAIN graph
    BY DEF SwiGLUMultiplies, Unmarked, Ops
  <2> QED BY <1>0, <1>17, <2>1, AnnotateStep DEF SwiGLULegalize
<1>18. CASE QdqLegalize
  <2>1. QdqDots \subseteq DOMAIN graph
    BY DEF QdqDots, Unmarked, Ops
  <2> QED BY <1>0, <1>18, <2>1, AnnotateStep DEF QdqLegalize
<1>19. CASE MatMulBiasFusion
  <2>1. MatMulBiasAdds \subseteq DOMAIN graph
    BY DEF MatMulBiasAdds, Unmarked, Ops
  <2> QED BY <1>0, <1>19, <2>1, AnnotateStep DEF MatMulBiasFusion
<1>20. CASE HorizontalGemmFusion
  <2>1. HorizontalGemms \subseteq DOMAIN graph
    BY DEF HorizontalGemms, Unmarked, Ops
  <2> QED BY <1>0, <1>20, <2>1, AnnotateStep DEF HorizontalGemmFusion
<1>21. CASE ElementwiseChainClamp
  <2>1. ChainClamps \subseteq DOMAIN graph
    BY DEF ChainClamps, Unmarked, Ops
  <2> QED BY <1>0, <1>21, <2>1, AnnotateStep DEF ElementwiseChainClamp
<1>22. CASE LayoutBridgeLegalize
  <2>1. LayoutBridges \subseteq DOMAIN graph
    BY DEF LayoutBridges, Unmarked, Ops
  <2> QED BY <1>0, <1>22, <2>1, AnnotateStep DEF LayoutBridgeLegalize
<1>23. CASE EraseDead
  BY <1>0, <1>23, EraseDeadStep
<1>24. CASE \/ BuildPipeline \/ RefuseOptions \/ MatMulBiasAbort
         \/ KVCacheLegalize \/ EndPass \/ VerifierRejects
  BY <1>24, UnchangedValues
     DEF BuildPipeline, RefuseOptions, MatMulBiasAbort, KVCacheLegalize, EndPass, VerifierRejects
<1>25. CASE UNCHANGED vars
  BY <1>25, UnchangedValues DEF vars
<1> QED
  BY <1>1, <1>2, <1>3, <1>4, <1>5, <1>6, <1>7, <1>8, <1>9, <1>10, <1>11, <1>12,
     <1>13, <1>14, <1>15, <1>16, <1>17, <1>18, <1>19, <1>20, <1>21, <1>22, <1>23,
     <1>24, <1>25 DEF Next

LEMMA DimensionsFit == Spec => []DimsFit(graph)
<1>1. Init => DimsFit(graph)
  BY ProgramsAssumption DEF Init, Verified
<1>2. IInv /\ DimsFit(graph) /\ [Next]_vars => DimsFit(graph)'
  BY NextComputes DEF StepComputes
<1> QED BY <1>1, <1>2, InvariantHolds, PTL DEF Spec

(***************************************************************************)
(* Every verified function computes at the end of the stage, and at every  *)
(* point of it, what it computed at the start, as far as arithmetic is     *)
(* exact: no rewrite, annotation or erasure of the twenty passes changes   *)
(* the term of a returned value, but the folding of a layout and the two   *)
(* rewrites whose other value PreservesFunction gives. The subtraction     *)
(* that ProducerConsumerLegalize reads the other way round is given for    *)
(* its one use: it is erased with it.                                      *)
(***************************************************************************)
THEOREM RewritesPreserveFunction == Spec => PreservesFunction
<1>1. IInv /\ DimsFit(graph) /\ [Next]_vars =>
        [\/ Computed' = Computed
         \/ FoldsLayout \/ TurnsShift \/ DropsPermutation]_vars
  BY NextComputes DEF StepComputes
<1> QED BY <1>1, InvariantHolds, DimensionsFit, PTL DEF Spec, PreservesFunction

-----------------------------------------------------------------------------
(***************************************************************************)
(* What the stage records. At the end of a pass every op is used; what a   *)
(* pass leaves without a use are constants and broadcasts, in the three    *)
(* passes named here, and nothing in the others: the greedy driver never   *)
(* erases an op that bears a mark, and no pattern replaces one but for an  *)
(* op with the same mark.                                                  *)
(***************************************************************************)
Loosening == {"elementwise-chain-legalize", "broadcast-simplify", "stablehlo-constant-fold"}

Loose == IF at \in DOMAIN Stage /\ Stage[at] \in Loosening
         THEN {"constant", "broadcast"} ELSE {}

RInv ==
  /\ MarksOK(graph)
  /\ at < 2 => RecordedIn(graph) = {}
  /\ at >= 2 => Alive(graph, ret, Loose, {})

RStep == RInv' /\ RecordedIn(graph) \subseteq RecordedIn(graph')

LEMMA SameLoose ==
  ASSUME at' = at, entry' = entry
  PROVE  Loose' = Loose
BY DEF Loose, Stage

LEMMA AliveLooser ==
  ASSUME NEW g, NEW r, Alive(g, r, {}, {}), NEW X
  PROVE  Alive(g, r, X, {})
BY DEF Alive

LEMMA OneFirst == \A i \in DOMAIN Stage : Stage[i] = "conv-bn-fusion" => i = 1
<1>1. \A i \in 1..20 : Pipeline!registerFusionPipeline[i] = "conv-bn-fusion" => i = 1
  BY DEF Pipeline!registerFusionPipeline
<1>2. \A i \in 1..20 : Pipeline!buildFusionStage[i] = "conv-bn-fusion" => i = 1
  BY DEF Pipeline!buildFusionStage
<1> QED BY <1>1, <1>2, FirstPass, Zenon DEF Stage

LEMMA UnmarkedRInv ==
  ASSUME NEW g, RecordedIn(g) = {}
  PROVE  MarksOK(g)
BY DEF RecordedIn, MarksOK

LEMMA InitRInv == Init => RInv
<1> SUFFICES ASSUME Init PROVE RInv
  OBVIOUS
<1>1. Verified(Programs[source]) /\ graph = Programs[source].ops /\ at = 0
  BY ProgramsAssumption DEF Init
<1>2. \A v \in DOMAIN graph : graph[v].marks = {}
  <2>1. \A a, b, c, d : Node(a, b, c, d, {}).marks = {}
    BY DEF Node
  <2>2. \A v \in DOMAIN graph :
          graph[v] = Node(graph[v].op, graph[v].args, graph[v].attr, graph[v].shape, {})
    BY <1>1 DEF Verified
  <2> QED BY <2>1, <2>2
<1>3. RecordedIn(graph) = {}
  BY <1>2 DEF RecordedIn
<1> QED BY <1>1, <1>3, UnmarkedRInv DEF RInv

LEMMA RewriteRecords ==
  ASSUME IInv, RInv, NEW p, Runs(p), p # "conv-bn-fusion", UnchangedStage,
         Records(graph, ret, graph', ret',
                 IF p \in Loosening THEN {"constant", "broadcast"} ELSE {})
  PROVE  RStep
<1>1. at >= 2 /\ at' = at /\ entry' = entry
  BY LaterPass DEF IInv, UnchangedStage
<1>2. Loose = IF p \in Loosening THEN {"constant", "broadcast"} ELSE {}
  BY DEF Loose, Runs, Running
<1>3. /\ MarksOK(graph') /\ RecordedIn(graph) \subseteq RecordedIn(graph')
      /\ Alive(graph', ret', Loose, {})
  BY <1>1, <1>2 DEF RInv, Records
<1>4. Loose' = Loose
  BY <1>1, SameLoose
<1>5. RInv'
  BY <1>1, <1>3, <1>4 DEF RInv, IInv
<1> QED BY <1>3, <1>5 DEF RStep

LEMMA AnnotateRecords ==
  ASSUME IInv, RInv, NEW p, Runs(p), p # "conv-bn-fusion",
         NEW matches, NEW m, Annotate(matches, m),
         \A v \in matches : v \in DOMAIN graph /\ Bears(graph, v, m)
  PROVE  RStep
<1>1. PICK v \in matches : graph' = [graph EXCEPT ![v].marks = @ \cup {m}]
  BY DEF Annotate
<1>2. ret' = ret /\ UnchangedStage
  BY DEF Annotate
<1> DEFINE h == [graph EXCEPT ![v].marks = @ \cup {m}]
<1>3. GraphOK(graph, ret) /\ MarksOK(graph) /\ v \in DOMAIN graph /\ Bears(graph, v, m)
  BY DEF IInv, RInv
<1>4. Remarked(graph, h, v, m)
  BY <1>3, MarkNodes
<1>5. graph' = h
  BY <1>1
<1> HIDE DEF h
<1>6. MarksOK(h) /\ RecordedIn(graph) \subseteq RecordedIn(h)
  BY <1>3, <1>4, MarkRecords
<1>7. \A X : Alive(graph, ret, X, {}) => Alive(h, ret, X, {})
  BY <1>4, MarkAlive
<1>8. Records(graph, ret, graph', ret',
              IF p \in Loosening THEN {"constant", "broadcast"} ELSE {})
  BY <1>2, <1>5, <1>6, <1>7 DEF Records
<1> QED BY <1>2, <1>8, RewriteRecords

LEMMA EraseDeadRecords ==
  ASSUME IInv, RInv, EraseDead
  PROVE  RStep
<1>1. PICK x \in Dead : graph' = [n \in DOMAIN graph \ {x} |-> graph[n]]
  BY DEF EraseDead
<1> DEFINE h == [n \in DOMAIN graph \ {x} |-> graph[n]]
<1>2. /\ GraphOK(graph, ret) /\ x \in DOMAIN graph /\ Unused(graph, ret, x)
      /\ MarksOK(graph) /\ at \in Nat
  BY NoUses DEF IInv, RInv, Dead
<1>3. graph' = h /\ ret' = ret /\ at' = at /\ Loose' = Loose
  BY <1>1, SameLoose DEF EraseDead, UnchangedStage
<1>4. /\ MarksOK(h)
      /\ \A m \in RecordedIn(graph) : m \in RecordedIn(h) \/ m \in graph[x].marks
  BY <1>2, EraseRecords
<1>5. CASE at < 2
  <2>1. RecordedIn(graph) = {}
    BY <1>5 DEF RInv
  <2>2. RecordedIn(h) = {}
    BY <2>1 DEF RecordedIn
  <2> HIDE DEF h
  <2> QED BY <1>2, <1>3, <1>4, <1>5, <2>1, <2>2 DEF RStep, RInv
<1>6. CASE at >= 2
  <2>1. Alive(graph, ret, Loose, {})
    BY <1>6 DEF RInv
  <2>2. Alive(h, ret, Loose, {} \ {x}) /\ (x \in {} \/ graph[x].op \in Loose \cup {"arg"})
    BY <1>2, <2>1, EraseAlive
  <2>3. \A m \in Boundaries : ~Bears(graph, x, m)
    BY <2>2 DEF Loose, Bears
  <2>4. RecordedIn(graph) \subseteq RecordedIn(h)
    BY <1>2, <1>4, <2>3 DEF MarksOK, RecordedIn
  <2>5. {} \ {x} = {}
    OBVIOUS
  <2> HIDE DEF h
  <2> QED BY <1>2, <1>3, <1>4, <1>6, <2>2, <2>4, <2>5 DEF RStep, RInv
<1> QED BY <1>2, <1>5, <1>6

LEMMA NextRecords == IInv /\ RInv /\ [Next]_vars => RStep
<1> SUFFICES ASSUME IInv, RInv, [Next]_vars PROVE RStep
  OBVIOUS
<1>0. GraphOK(graph, ret) /\ at \in Nat
  BY DEF IInv
<1>1. CASE SoftmaxLegalize
  <2>1. \A v \in SoftmaxDivides : v \in DOMAIN graph /\ Bears(graph, v, "softmax_canonicalized")
    BY DEF SoftmaxDivides, Unmarked, Ops, Is, Bears
  <2> QED BY <1>1, <2>1, AnnotateRecords DEF SoftmaxLegalize
<1>2. CASE RMSNormLegalize
  <2>1. ASSUME NEW v \in RmsNormMultiplies
        PROVE  v \in DOMAIN graph /\ Bears(graph, v, "rmsnorm_canonicalized")
    <3>1. v \in DOMAIN graph /\ graph[v].op = "multiply" /\ isRmsNormMultiply(v)
      BY DEF RmsNormMultiplies, Unmarked, Ops, Is
    <3>2. PICK i \in 1..2 : isRmsNormDivide(graph[v].args[i])
      BY <3>1 DEF isRmsNormMultiply, Arg
    <3>3. Firm(graph, graph[v].args[i]) /\ i \in {1, 2}
      BY <3>2 DEF isRmsNormDivide, Is, Firm
    <3> QED BY <3>1, <3>3 DEF Bears, Anchored
  <2>2. \A v \in RmsNormMultiplies : v \in DOMAIN graph /\ Bears(graph, v, "rmsnorm_canonicalized")
    BY <2>1
  <2> QED BY <1>2, <2>2, AnnotateRecords DEF RMSNormLegalize
<1>3. CASE AttentionLegalize
  <2>1. \A v \in AttentionDots : v \in DOMAIN graph /\ Bears(graph, v, "scaled_dot_product_attention")
    BY DEF AttentionDots, Unmarked, Ops, Is, Bears
  <2> QED BY <1>3, <2>1, AnnotateRecords DEF AttentionLegalize
<1>4. CASE FlashAttentionTile
  <2>1. \A v \in FlashDots : v \in DOMAIN graph /\ Bears(graph, v, "flash_tile")
    BY DEF FlashDots, Unmarked, Ops, Is, Bears
  <2> QED BY <1>4, <2>1, AnnotateRecords DEF FlashAttentionTile
<1>5. CASE RoPELegalize
  <2>1. ASSUME NEW v \in RoPEAdds
        PROVE  v \in DOMAIN graph /\ Bears(graph, v, "rope_canonicalized")
    <3>1. v \in DOMAIN graph /\ graph[v].op = "add" /\ isRoPEAdd(v)
      BY DEF RoPEAdds, Unmarked, Ops, Is
    <3>2. \A mul, base : rotates(mul, base) =>
            \E k \in {1, 2} : graph[graph[mul].args[k]].op = "concatenate"
      BY DEF rotates, isRotateHalf, Is, Arg
    <3>3. /\ graph[Arg(v, 1)].op = "multiply" /\ graph[Arg(v, 2)].op = "multiply"
          /\ \/ \E base : rotates(Arg(v, 1), base)
             \/ \E base : rotates(Arg(v, 2), base)
      BY <3>1 DEF isRoPEAdd, Is
    <3>4. \E i \in {1, 2} : Stiff(graph, graph[v].args[i])
      BY <3>2, <3>3 DEF Stiff, Firm, Arg
    <3> QED BY <3>1, <3>4 DEF Bears, Anchored
  <2>2. \A v \in RoPEAdds : v \in DOMAIN graph /\ Bears(graph, v, "rope_canonicalized")
    BY <2>1
  <2> QED BY <1>5, <2>2, AnnotateRecords DEF RoPELegalize
<1>6. CASE LayerNormLegalize
  <2>1. ASSUME NEW v \in LayerNormAdds
        PROVE  v \in DOMAIN graph /\ Bears(graph, v, "layernorm_canonicalized")
    <3>1. v \in DOMAIN graph /\ graph[v].op = "add" /\ isLayerNormAdd(v)
      BY DEF LayerNormAdds, Unmarked, Ops, Is
    <3>2. PICK i \in {1, 2} : isLayerNormScaledMul(graph[v].args[i])
      BY <3>1 DEF isLayerNormAdd, Arg
    <3>4. PICK j \in 1..2 : isLayerNormDivide(graph[graph[v].args[i]].args[j])
      BY <3>2 DEF isLayerNormScaledMul, Arg
    <3>5. \A u : isLayerNormDivide(u) => Firm(graph, u)
      BY DEF isLayerNormDivide, Is, Firm
    <3>6. Stiff(graph, graph[v].args[i])
      BY <3>2, <3>4, <3>5 DEF isLayerNormScaledMul, Is, Stiff
    <3> QED BY <3>1, <3>6 DEF Bears, Anchored
  <2>2. \A v \in LayerNormAdds : v \in DOMAIN graph /\ Bears(graph, v, "layernorm_canonicalized")
    BY <2>1
  <2> QED BY <1>6, <2>2, AnnotateRecords DEF LayerNormLegalize
<1>7. CASE GeluLegalize
  <2>1. ASSUME NEW v \in GeluMultiplies
        PROVE  v \in DOMAIN graph /\ Bears(graph, v, "gelu_canonicalized")
    <3>1. v \in DOMAIN graph /\ graph[v].op = "multiply" /\ isGeluMultiply(v)
      BY DEF GeluMultiplies, Unmarked, Ops, Is
    <3>2. PICK i \in {1, 2}, input \in DOMAIN graph : isGeluInner(Arg(v, 3 - i), input)
      BY <3>1 DEF isGeluMultiply
    <3>3. /\ 3 - i \in {1, 2} /\ graph[Arg(v, 3 - i)].op = "add"
          /\ \E k \in {1, 2} : isErfOf(Arg(Arg(v, 3 - i), 3 - k), input)
      BY <3>2 DEF isGeluInner, Is
    <3>4. \E k \in {1, 2} : graph[graph[Arg(v, 3 - i)].args[k]].op = "erf"
      <4>1. \A k \in {1, 2} : 3 - k \in {1, 2}
        OBVIOUS
      <4> QED BY <3>3, <4>1 DEF isErfOf, Is, Arg
    <3>5. Stiff(graph, Arg(v, 3 - i))
      BY <3>3, <3>4 DEF Stiff, Firm
    <3> QED BY <3>1, <3>3, <3>5 DEF Bears, Anchored, Arg
  <2>2. \A v \in GeluMultiplies : v \in DOMAIN graph /\ Bears(graph, v, "gelu_canonicalized")
    BY <2>1
  <2> QED BY <1>7, <2>2, AnnotateRecords DEF GeluLegalize
<1>8. CASE SwiGLULegalize
  <2>1. ASSUME NEW v \in SwiGLUMultiplies
        PROVE  v \in DOMAIN graph /\ Bears(graph, v, "swiglu_canonicalized")
    <3>1. v \in DOMAIN graph /\ graph[v].op = "multiply" /\ isSwiGLUMultiply(v)
      BY DEF SwiGLUMultiplies, Unmarked, Ops, Is
    <3>2. PICK i \in {1, 2} : matchSilu(graph[v].args[i])
      BY <3>1 DEF isSwiGLUMultiply, Arg
    <3>3. Stiff(graph, graph[v].args[i])
      BY <3>2 DEF matchSilu, Is, Arg, Stiff, Firm
    <3> QED BY <3>1, <3>3 DEF Bears, Anchored
  <2>2. \A v \in SwiGLUMultiplies : v \in DOMAIN graph /\ Bears(graph, v, "swiglu_canonicalized")
    BY <2>1
  <2> QED BY <1>8, <2>2, AnnotateRecords DEF SwiGLULegalize
<1>9. CASE QdqLegalize
  <2>1. \A v \in QdqDots : v \in DOMAIN graph /\ Bears(graph, v, "qdq_matmul_canonicalized")
    BY DEF QdqDots, Unmarked, Ops, Is, Bears
  <2> QED BY <1>9, <2>1, AnnotateRecords DEF QdqLegalize
<1>10. CASE MatMulBiasFusion
  <2>1. ASSUME NEW v \in MatMulBiasAdds
        PROVE  v \in DOMAIN graph /\ Bears(graph, v, "matmul_bias_fused")
    <3>1. v \in DOMAIN graph /\ graph[v].op = "add" /\ testsBias(v)
      BY DEF MatMulBiasAdds, Unmarked, Ops, Is, isMatMulBiasAdd
    <3> QED BY <3>1 DEF testsBias, Is, Arg, Bears, Anchored, Firm
  <2>2. \A v \in MatMulBiasAdds : v \in DOMAIN graph /\ Bears(graph, v, "matmul_bias_fused")
    BY <2>1
  <2> QED BY <1>10, <2>2, AnnotateRecords DEF MatMulBiasFusion
<1>11. CASE HorizontalGemmFusion
  <2>1. \A v \in HorizontalGemms : v \in DOMAIN graph /\ Bears(graph, v, "horizontal_gemm_fused")
    BY DEF HorizontalGemms, Unmarked, Ops, Is, Bears
  <2> QED BY <1>11, <2>1, AnnotateRecords DEF HorizontalGemmFusion
<1>12. CASE ElementwiseChainClamp
  <2>1. \A v \in ChainClamps : v \in DOMAIN graph /\ Bears(graph, v, "elementwise_chain_fused")
    BY DEF ChainClamps, Unmarked, Ops, Is, Bears
  <2> QED BY <1>12, <2>1, AnnotateRecords DEF ElementwiseChainClamp
<1>13. CASE LayoutBridgeLegalize
  <2>1. \A v \in LayoutBridges : v \in DOMAIN graph /\ Bears(graph, v, "layout_folded")
    BY DEF LayoutBridges, Unmarked, Ops, Is, Bears
  <2> QED BY <1>13, <2>1, AnnotateRecords DEF LayoutBridgeLegalize
<1>14. CASE ConvBNReluFusion
  <2>1. Runs("conv-bn-relu-fusion") /\ UnchangedStage
    BY <1>14 DEF ConvBNReluFusion, Rewritten
  <2>2. Records(graph, ret, graph', ret', {})
    BY <1>0, <1>14, ConvBNReluKeeps
  <2> QED BY <2>1, <2>2, RewriteRecords DEF Loosening
<1>15. CASE ElementwiseReluFold
  <2>1. Runs("elementwise-chain-legalize") /\ UnchangedStage
    BY <1>15 DEF ElementwiseReluFold, Rewritten
  <2>2. Records(graph, ret, graph', ret', {"constant", "broadcast"})
    BY <1>0, <1>15, ElementwiseReluKeeps
  <2> QED BY <2>1, <2>2, RewriteRecords DEF Loosening
<1>16. CASE ProducerConsumerLegalize
  <2>1. Runs("producer-consumer-legalize") /\ UnchangedStage
    BY <1>16 DEF ProducerConsumerLegalize, Rewritten
  <2>2. Records(graph, ret, graph', ret', {})
    BY <1>0, <1>16, ProducerConsumerKeeps
  <2> QED BY <2>1, <2>2, RewriteRecords DEF Loosening
<1>17. CASE LayoutFoldNchw
  <2>1. Runs("layout-fold") /\ UnchangedStage
    BY <1>17 DEF LayoutFoldNchw, Rewritten
  <2>2. Records(graph, ret, graph', ret', {})
    BY <1>0, <1>17, LayoutFoldNchwKeeps
  <2> QED BY <2>1, <2>2, RewriteRecords DEF Loosening
<1>18. CASE LayoutFoldSimple
  <2>1. Runs("layout-fold") /\ UnchangedStage
    BY <1>18 DEF LayoutFoldSimple, Rewritten
  <2>2. Records(graph, ret, graph', ret', {})
    BY <1>0, <1>18, LayoutFoldSimpleKeeps
  <2> QED BY <2>1, <2>2, RewriteRecords DEF Loosening
<1>19. CASE BroadcastIdentity
  <2>1. Runs("broadcast-simplify") /\ UnchangedStage
    BY <1>19 DEF BroadcastIdentity, Rewritten
  <2>2. Records(graph, ret, graph', ret', {"constant", "broadcast"})
    BY <1>0, <1>19, BroadcastIdentityKeeps
  <2> QED BY <2>1, <2>2, RewriteRecords DEF Loosening
<1>20. CASE BroadcastNested
  <2>1. Runs("broadcast-simplify") /\ UnchangedStage
    BY <1>20 DEF BroadcastNested, Rewritten
  <2>2. Records(graph, ret, graph', ret', {"constant", "broadcast"})
    BY <1>0, <1>20, BroadcastNestedKeeps
  <2> QED BY <2>1, <2>2, RewriteRecords DEF Loosening
<1>21. CASE StablehloConstantFold
  <2>1. Runs("stablehlo-constant-fold") /\ UnchangedStage
    BY <1>21 DEF StablehloConstantFold, Rewritten
  <2>2. Records(graph, ret, graph', ret', {"constant", "broadcast"})
    BY <1>0, <1>21, ConstantFoldKeeps
  <2> QED BY <2>1, <2>2, RewriteRecords DEF Loosening
<1>22. CASE ConvBNFusion
  <2>1. at = 1 /\ at' = at
    BY <1>0, <1>22, FirstPass, OneFirst DEF ConvBNFusion, Runs, Running, Rewritten, UnchangedStage
  <2>2. RecordedIn(graph) = {} /\ RecordedIn(graph') = {}
    BY <1>0, <1>22, <2>1, ConvBNKeeps DEF RInv
  <2>3. MarksOK(graph')
    BY <2>2, UnmarkedRInv
  <2> QED BY <2>1, <2>2, <2>3 DEF RStep, RInv
<1>23. CASE EraseDead
  BY <1>23, EraseDeadRecords
<1>24. CASE EndPass
  <2>1. graph' = graph /\ ret' = ret /\ at' = at + 1 /\ Dead = {} /\ at >= 1
    BY <1>0, <1>24, FirstPass DEF EndPass, AtFixpoint, Running
  <2>2. Alive(graph, ret, Loose', {})
    BY <1>0, <2>1, FixpointAlive, AliveLooser
  <2> QED BY <1>0, <2>1, <2>2 DEF RStep, RInv
<1>25. CASE BuildPipeline
  BY <1>25 DEF BuildPipeline, RStep, RInv
<1>26. CASE UNCHANGED <<graph, ret, at, entry>>
  BY <1>26, SameLoose DEF RStep, RInv
<1>27. CASE RefuseOptions \/ MatMulBiasAbort \/ KVCacheLegalize \/ VerifierRejects
  BY <1>26, <1>27 DEF RefuseOptions, MatMulBiasAbort, KVCacheLegalize, VerifierRejects
<1>28. CASE UNCHANGED vars
  BY <1>26, <1>28 DEF vars
<1> QED
  BY <1>1, <1>2, <1>3, <1>4, <1>5, <1>6, <1>7, <1>8, <1>9, <1>10, <1>11, <1>12,
     <1>13, <1>14, <1>15, <1>16, <1>17, <1>18, <1>19, <1>20, <1>21, <1>22, <1>23,
     <1>24, <1>25, <1>27, <1>28 DEF Next

(***************************************************************************)
(* A boundary that a pass has recorded stays recorded to the end of the    *)
(* stage: a rewrite takes only ops that bear no mark, or carries the mark  *)
(* over to what it puts in their place, and what the greedy driver erases  *)
(* bears none.                                                             *)
(***************************************************************************)
THEOREM RewritesKeepBoundaries == Spec => BoundariesSurvive
<1>1. IInv /\ RInv /\ [Next]_vars => RInv'
  BY NextRecords DEF RStep
<1>2. Spec => []RInv
  BY <1>1, InitRInv, InvariantHolds, PTL DEF Spec
<1>3. RecordedIn(graph) = Recorded /\ RecordedIn(graph)' = Recorded'
  BY DEF RecordedIn, Recorded
<1>4. IInv /\ RInv /\ [Next]_vars => [Recorded \subseteq Recorded']_vars
  BY <1>3, NextRecords DEF RStep
<1> QED BY <1>2, <1>4, InvariantHolds, PTL DEF Spec, BoundariesSurvive
=============================================================================
