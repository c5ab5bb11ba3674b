--------------------------- MODULE StablehloGraph ---------------------------
(***************************************************************************)
(* The body of a StableHLO function as the fusion passes see it: a graph   *)
(* of pure ops in SSA form, the edits a pattern rewriter makes to it, and  *)
(* what it computes. An op is named by a number; the numbers of the source *)
(* program's ops grow in the order of the block.                           *)
(***************************************************************************)
EXTENDS Integers, Sequences, FiniteSets

VARIABLES
  graph,   \* the ops: each with its name, operands, attributes, shape, marks
  ret      \* the values the function returns

Op(v) == graph[v].op
Is(v, name) == graph[v].op = name
Arg(v, i) == graph[v].args[i]
Attr(v) == graph[v].attr
Shape(v) == graph[v].shape

Ops(name) == {v \in DOMAIN graph : Is(v, name)}

\* m_Constant with a splat value: a constant all of whose elements are c.
Splat(v, c) == Is(v, "constant") /\ Attr(v) = <<c>>

\* unwrapBroadcast: what a broadcast_in_dim broadcasts, else the value itself.
Unwrap(v) == IF Is(v, "broadcast") THEN Arg(v, 1) ELSE v

\* The operand positions, and the returned values, that use v.
Uses(g, r, v) ==
  (UNION {{<<n, i>> : i \in {j \in DOMAIN g[n].args : g[n].args[j] = v}} :
            n \in DOMAIN g})
    \cup {<<0, i>> : i \in {j \in DOMAIN r : r[j] = v}}

\* Ops with no effect and no use, which the greedy driver erases.
Dead == {v \in DOMAIN graph : ~Is(v, "arg") /\ Uses(graph, ret, v) = {}}

\* A shape with its dimensions, numbered from 0, in another order.
Permuted(shape, perm) == [d \in DOMAIN perm |-> shape[perm[d] + 1]]

\* What the verifier asks of a convolution with a 1x1 kernel: the features of
\* the input are the kernel's, and the spatial extents of the result the
\* input's, each at the place the layout gives it.
WellTyped(conv) ==
  LET x == Shape(Arg(conv, 1))
      w == Shape(Arg(conv, 2))
      y == Shape(conv)
  IN  IF Attr(conv) = <<"bf01">>
        THEN x[2] = w[2] /\ y = <<x[1], w[1], x[3], x[4]>>
        ELSE x[4] = w[3] /\ y = <<x[1], x[2], x[3], w[4]>>

-----------------------------------------------------------------------------
(***************************************************************************)
(* Edits. New ops are given as a sequence; each sees the numbers of the    *)
(* ones before it through Fresh.                                           *)
(***************************************************************************)
Node(name, args, attr, shape, marks) ==
  [op |-> name, args |-> args, attr |-> attr, shape |-> shape, marks |-> marks]

\* The number of the i-th op a rewrite creates.
Fresh(i) == i + CHOOSE m \in DOMAIN graph : \A n \in DOMAIN graph : n <= m

Rename(s, old, new) == [i \in DOMAIN s |-> IF s[i] = old THEN new ELSE s[i]]

\* replaceOp: create the ops in created, make every use of old use the last
\* of them instead, and erase old.
ReplaceOp(old, created) ==
  LET new == Fresh(Len(created))
      all == [n \in DOMAIN graph \cup {Fresh(i) : i \in DOMAIN created} |->
                IF n \in DOMAIN graph THEN graph[n]
                                      ELSE created[n - Fresh(0)]]
  IN  [g |-> [n \in DOMAIN all \ {old} |->
                [all[n] EXCEPT !.args = Rename(@, old, new)]],
       r |-> Rename(ret, old, new)]

\* replaceOp with a value that exists already.
ReplaceBy(old, new) ==
  [g |-> [n \in DOMAIN graph \ {old} |->
            [graph[n] EXCEPT !.args = Rename(@, old, new)]],
   r |-> Rename(ret, old, new)]

EraseOp(e, v) == [e EXCEPT !.g = [n \in DOMAIN e.g \ {v} |-> e.g[n]]]

-----------------------------------------------------------------------------
(***************************************************************************)
(* What an op computes from the terms of its operands: its name, its       *)
(* attributes and these terms. Terms that are equal over the reals are     *)
(* made equal: a maximum with zero and a clamp between zero and infinity;  *)
(* exp(a) * exp(-b) and exp(a - b); a constant sum or product and its      *)
(* value; a chain of broadcasts and one broadcast, or none; batch          *)
(* normalisation of a convolution and the scaled convolution with a bias.  *)
(* A convolution keeps its layout, and a broadcast the shape it starts     *)
(* from.                                                                   *)
(***************************************************************************)
Term(op, attr, operands) == <<op, attr, operands>>
Constant(value) == Term("constant", value, <<>>)

IsA(a, op) == a[1] = op
Operand(a, i) == a[3][i]

Zero == Constant(<<"zero">>)
ZeroTerm(a) == a = Zero \/ (IsA(a, "broadcast") /\ Operand(a, 1) = Zero)

Relu(a) == Term("relu", <<>>, <<IF ZeroTerm(a) THEN Zero ELSE a>>)

\* The dimensions of an outer result that an inner operand's map to.
Composed(outer, inner) == [d \in DOMAIN inner |-> outer[inner[d] + 1]]

Identity(shape) == [d \in DOMAIN shape |-> d - 1]

\* A broadcast of a, of shape from, along dims to the shape to.
Broadcast(dims, from, a, to) ==
  LET chain == IsA(a, "broadcast")
      all == IF chain THEN Composed(dims, a[2][1]) ELSE dims
      start == IF chain THEN a[2][2] ELSE from
      x == IF chain THEN Operand(a, 1) ELSE a
  IN  IF start = to /\ all = Identity(to) THEN x
      ELSE Term("broadcast", <<all, start>>, <<x>>)

FeatureOf(layout) == IF layout = <<"bf01">> THEN <<1>> ELSE <<3>>

Scaled(w, params) == <<"scaled">> \o w \o params
Shift(params) == <<"shift">> \o params

\* Batch normalisation with constant parameters: a convolution with constant
\* weights takes the scale of its features into them.
Normalised(x, params, feature) ==
  IF /\ IsA(x, "convolution") /\ feature = FeatureOf(x[2])
     /\ IsA(Operand(x, 2), "constant")
  THEN Term("convolution", x[2],
            <<Operand(x, 1), Constant(Scaled(Operand(x, 2)[2], params))>>)
  ELSE Term("scale", params, <<x>>)

\* exp(a) * exp(-b)
IsShiftedExp(a) == /\ \A i \in 1..2 : IsA(a[i], "exponential")
                   /\ IsA(Operand(a[2], 1), "negate")

Meaning(n, a, from) ==
  CASE n.op = "maximum" /\ (\E i \in 1..2 : ZeroTerm(a[i])) ->
         Relu(a[IF ZeroTerm(a[2]) THEN 1 ELSE 2])
    [] n.op = "clamp" /\ ZeroTerm(a[1]) /\ a[3] = Constant(<<"inf">>) -> Relu(a[2])
    [] n.op = "multiply" /\ IsShiftedExp(a) ->
         Term("exponential", <<>>, <<Term("subtract", <<>>,
           <<Operand(a[1], 1), Operand(Operand(a[2], 1), 1)>>)>>)
    [] n.op \in {"add", "multiply"} /\ (\A i \in 1..2 : IsA(a[i], "constant")) ->
         Constant(<<n.op>> \o a[1][2] \o a[2][2])
    [] n.op = "broadcast" -> Broadcast(n.attr, from[1], a[1], n.shape)
    [] n.op = "batch_norm" /\ IsA(a[2], "constant") ->
         Term("add", <<>>,
              <<Normalised(a[1], a[2][2], n.attr),
                Broadcast(n.attr, from[2], Constant(Shift(a[2][2])), n.shape)>>)
    [] OTHER -> Term(n.op, n.attr, a)

Denotation(g) ==
  LET value[v \in DOMAIN g] ==
        LET args == g[v].args
        IN  Meaning(g[v], [i \in DOMAIN args |-> value[args[i]]],
                    [i \in DOMAIN args |-> g[args[i]].shape])
  IN  value

\* What the function returns.
Computes(g, r) == LET value == Denotation(g) IN [i \in DOMAIN r |-> value[r[i]]]
=============================================================================
