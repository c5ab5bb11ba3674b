------------------------ MODULE BufferPromotionProofs ------------------------
(***************************************************************************)
(* Promotion to the stack keeps a function's frees, returns and leaks      *)
(* right, for functions of every length, every mix of shapes and every     *)
(* order in which the driver visits the allocations.                       *)
(***************************************************************************)
EXTENDS BufferPromotion, WellFoundedInduction, TLAPS

-----------------------------------------------------------------------------
(***************************************************************************)
(* Induction over the positions of a function.                             *)
(***************************************************************************)

\* A set that holds 0 and every successor of its members holds Nat.
LEMMA NatSetInduction ==
  ASSUME NEW S, 0 \in S, \A n \in Nat : n \in S => n + 1 \in S
  PROVE  Nat \subseteq S
<1>1. SUFFICES ASSUME Nat \ S # {} PROVE FALSE
  OBVIOUS
<1> DEFINE R == OpToRel(<, Nat)
<1>2. IsWellFoundedOn(R, Nat)
  BY NatLessThanWellFounded, Zenon
<1>3. \A x, y \in Nat : x < y => <<x, y>> \in R
  BY Zenon DEF OpToRel
<1> HIDE DEF R
<1>4. PICK x \in Nat \ S : \A y \in Nat \ S : ~(<<y, x>> \in R)
  BY <1>1, <1>2, WFMin, Zenon
<1>5. x # 0
  OBVIOUS
<1>6. x - 1 \in Nat /\ x - 1 < x
  BY <1>5
<1>7. x - 1 \in S
  BY <1>3, <1>4, <1>6
<1> QED
  BY <1>4, <1>6, <1>7

\* A position that is in S once all earlier ones are: all positions are.
LEMMA PositionInduction ==
  ASSUME NEW n \in Nat, NEW S,
         \A m \in 1..n : (\A k \in 1..(m - 1) : k \in S) => m \in S
  PROVE  \A m \in 1..n : m \in S
<1> DEFINE T == {m \in Nat : m <= n => \A k \in 1..m : k \in S}
<1>1. 0 \in T
  OBVIOUS
<1>2. ASSUME NEW m \in Nat, m \in T PROVE m + 1 \in T
  <2> SUFFICES ASSUME m + 1 <= n, NEW k \in 1..(m + 1) PROVE k \in S
    OBVIOUS
  <2>1. \A j \in 1..m : j \in S
    BY <1>2
  <2>2. m + 1 \in 1..n /\ (m + 1) - 1 = m
    BY <1>2
  <2>3. m + 1 \in S
    BY <2>1, <2>2
  <2>4. k \in 1..m \/ k = m + 1
    BY <1>2
  <2> QED
    BY <2>1, <2>3, <2>4
<1> HIDE DEF T
<1>3. Nat \subseteq T
  BY <1>1, <1>2, NatSetInduction
<1>4. n \in T
  BY <1>3
<1> QED
  BY <1>4 DEF T

(***************************************************************************)
(* Following a chain of ops: f says of each op what its chain starts from, *)
(* through the ops of the kinds K, which take an earlier op's result.      *)
(***************************************************************************)
Follows(f, p, K, base) ==
  f = [i \in DOMAIN p |-> IF p[i].op \in K THEN f[p[i].of] ELSE base[i]]

Backward(p, K) ==
  \A i \in DOMAIN p : p[i].op \in K => p[i].of \in 1..(i - 1)

LEMMA ChainExists ==
  ASSUME NEW p, NEW n \in Nat, DOMAIN p = 1..n, NEW K, NEW base, Backward(p, K)
  PROVE  \E f : Follows(f, p, K, base)
<1> DEFINE Body(f, i) == IF p[i].op \in K THEN f[p[i].of] ELSE base[i]
           T == {m \in Nat : m <= n => \E f : f = [i \in 1..m |-> Body(f, i)]}
<1>1. 0 \in T
  <2> DEFINE f == [i \in 1..0 |-> base[i]]
  <2>1. f = [i \in 1..0 |-> Body(f, i)]
    OBVIOUS
  <2> QED
    BY <2>1
<1>2. ASSUME NEW m \in Nat, m \in T PROVE m + 1 \in T
  <2> SUFFICES ASSUME m + 1 <= n PROVE \E f : f = [i \in 1..(m + 1) |-> Body(f, i)]
    OBVIOUS
  <2>1. PICK f : f = [i \in 1..m |-> Body(f, i)]
    BY <1>2
  <2> DEFINE g == [i \in 1..(m + 1) |-> Body(f, i)]
  <2>2. \A i \in 1..m : g[i] = f[i]
    BY <2>1
  <2>3. \A i \in 1..(m + 1) : p[i].op \in K => p[i].of \in 1..m
    <3> SUFFICES ASSUME NEW i \in 1..(m + 1), p[i].op \in K
                 PROVE  p[i].of \in 1..m
      OBVIOUS
    <3>1. i \in DOMAIN p
      OBVIOUS
    <3>2. p[i].of \in 1..(i - 1)
      BY <3>1 DEF Backward
    <3> QED
      BY <3>2
  <2>4. \A i \in 1..(m + 1) : Body(f, i) = Body(g, i)
    BY <2>2, <2>3
  <2>5. g = [i \in 1..(m + 1) |-> Body(g, i)]
    BY <2>4
  <2> QED
    BY <2>5
<1> HIDE DEF T
<1>3. n \in T
  BY <1>1, <1>2, NatSetInduction
<1>4. PICK f : f = [i \in 1..n |-> Body(f, i)]
  BY <1>3 DEF T
<1>5. Follows(f, p, K, base)
  BY <1>4 DEF Follows
<1> QED
  BY <1>5

(***************************************************************************)
(* q extends p, and the ops of p are on its chains what they are on p's.   *)
(***************************************************************************)
Extends(q, base2, p, base, K) ==
  /\ \E n \in Nat : DOMAIN p = 1..n
  /\ DOMAIN p \subseteq DOMAIN q
  /\ \A i \in DOMAIN p : /\ q[i].op \in K <=> p[i].op \in K
                         /\ q[i].of = p[i].of
                         /\ base2[i] = base[i]

\* Appending an op or changing ops off the chains keeps where a chain starts.
LEMMA ChainsAgree ==
  ASSUME NEW p, NEW K, NEW base, Backward(p, K),
         NEW q, NEW base2, Extends(q, base2, p, base, K),
         NEW f, Follows(f, p, K, base), NEW g, Follows(g, q, K, base2)
  PROVE  \A i \in DOMAIN p : g[i] = f[i]
<1>1. PICK n \in Nat : DOMAIN p = 1..n
  BY DEF Extends
<1> DEFINE S == {i \in 1..n : g[i] = f[i]}
<1>2. ASSUME NEW m \in 1..n, \A k \in 1..(m - 1) : k \in S PROVE m \in S
  <2>1. f[m] = IF p[m].op \in K THEN f[p[m].of] ELSE base[m]
    BY <1>1 DEF Follows
  <2>2. g[m] = IF q[m].op \in K THEN g[q[m].of] ELSE base2[m]
    BY <1>1 DEF Follows, Extends
  <2>3. p[m].op \in K => p[m].of \in 1..(m - 1)
    BY <1>1 DEF Backward
  <2>4. /\ q[m].op \in K <=> p[m].op \in K
        /\ q[m].of = p[m].of
        /\ base2[m] = base[m]
    BY <1>1 DEF Extends
  <2> QED
    BY <1>2, <2>1, <2>2, <2>3, <2>4
<1> HIDE DEF S
<1>3. \A m \in 1..n : m \in S
  BY <1>2, PositionInduction
<1> QED
  BY <1>1, <1>3 DEF S

-----------------------------------------------------------------------------
(***************************************************************************)
(* The inductive invariant.                                                *)
(***************************************************************************)
Kinds == Forward \cup {"alloc", "alloca", "dealloc", "erased", "return"}

Operation == [op : Kinds, of : Nat, shape : Shapes \cup {NoShape}]

Last == Len(prog)

\* Values are used after they are defined, buffers freed once, by their alloc.
ProgOK ==
  /\ prog \in Seq(Operation)
  /\ \A i \in DOMAIN prog :
       prog[i].op \in Forward => prog[i].of \in Values /\ prog[i].of < i
  /\ \A d \in Ops("dealloc") : prog[d].of \in Ops("alloc") /\ prog[d].of < d
  /\ \A d, e \in Ops("dealloc") : prog[d].of = prog[e].of => d = e
  /\ \A i \in Ops("return") :
       i = Last /\ (prog[i].of # 0 => prog[i].of \in Values /\ prog[i].of < i)

\* A heap buffer is freed or returned and, once promoted, does not escape.
Owned ==
  /\ \A a \in Ops("alloc") :
       \/ \E d \in Ops("dealloc") : prog[d].of = a
       \/ prog[Last].of # 0 /\ buffer[prog[Last].of] = a
  /\ prog[Last].of # 0 =>
       \A d \in Ops("dealloc") : prog[d].of # buffer[prog[Last].of]
  /\ \A a \in Ops("alloca") : ~mayEscape(a)

\* The memory behind the buffer b when the op at i is executed next.
MemoryAt(b, i) ==
  CASE b >= i -> "none"
    [] b < i /\ prog[b].op = "alloca" -> "stack"
    [] b < i /\ prog[b].op = "alloc" ->
         IF \E d \in Ops("dealloc") : d < i /\ prog[d].of = b
         THEN "freed" ELSE "heap"

Inv ==
  /\ ProgOK
  /\ phase \in {"build", "pass", "run", "done", "crash"}
  /\ phase = "build" => Ops("return") = {} /\ Ops("alloca") = {}
  /\ phase # "build" => Last \in Ops("return") /\ Owned
  /\ phase # "done" => fault = "none"
  /\ phase \in {"build", "pass"} => at = 1
  /\ phase = "run" =>
       /\ at \in 1..Last
       /\ DOMAIN mem = Ops("alloc") \cup Ops("alloca")
       /\ \A b \in DOMAIN mem : mem[b] = MemoryAt(b, at)
  /\ NoLeak
  /\ MemorySafeOutsideLoops

-----------------------------------------------------------------------------
(***************************************************************************)
(* Chains of views, of forwarded buffers and of values behind a loop.      *)
(***************************************************************************)
Identity == [i \in DOMAIN prog |-> i]

IsLoop == [i \in DOMAIN prog |-> prog[i].op = "loop"]

LEMMA ProgDomain ==
  ASSUME ProgOK
  PROVE  /\ Last \in Nat /\ DOMAIN prog = 1..Last
         /\ \A i \in DOMAIN prog : prog[i] \in Operation
BY DEF ProgOK, Last

LEMMA ProgBackward ==
  ASSUME ProgOK, NEW K \in SUBSET Forward
  PROVE  Backward(prog, K)
<1> SUFFICES ASSUME NEW i \in DOMAIN prog, prog[i].op \in K
             PROVE  prog[i].of \in 1..(i - 1)
  BY DEF Backward
<1>1. prog[i].of \in Values /\ prog[i].of < i /\ i \in Nat
  BY ProgDomain DEF ProgOK
<1> QED
  BY <1>1, ProgDomain DEF Values

LEMMA ViewSourceFollows ==
  ASSUME ProgOK
  PROVE  Follows(viewSource, prog, {"view"}, Identity)
<1>1. Backward(prog, {"view"})
  BY ProgBackward DEF Forward
<1>2. \E f : Follows(f, prog, {"view"}, Identity)
  BY <1>1, ProgDomain, ChainExists
<1>3. \E f : f = [i \in DOMAIN prog |->
                    IF prog[i].op = "view" THEN f[prog[i].of] ELSE i]
  BY <1>2 DEF Follows, Identity
<1>4. viewSource = [i \in DOMAIN prog |->
                      IF prog[i].op = "view" THEN viewSource[prog[i].of] ELSE i]
  BY <1>3 DEF viewSource
<1> QED
  BY <1>4 DEF Follows, Identity

LEMMA BufferFollows ==
  ASSUME ProgOK
  PROVE  Follows(buffer, prog, Forward, Identity)
<1>1. \E f : Follows(f, prog, Forward, Identity)
  BY ProgBackward, ProgDomain, ChainExists
<1>2. \E f : f = [i \in DOMAIN prog |->
                    IF prog[i].op \in Forward THEN f[prog[i].of] ELSE i]
  BY <1>1 DEF Follows, Identity
<1>3. buffer = [i \in DOMAIN prog |->
                  IF prog[i].op \in Forward THEN buffer[prog[i].of] ELSE i]
  BY <1>2 DEF buffer
<1> QED
  BY <1>3 DEF Follows, Identity

LEMMA ThroughLoopFollows ==
  ASSUME ProgOK
  PROVE  Follows(ThroughLoop, prog, Forward \ {"loop"}, IsLoop)
<1>1. \E f : Follows(f, prog, Forward \ {"loop"}, IsLoop)
  BY ProgBackward, ProgDomain, ChainExists
<1>2. \E f : f = [v \in DOMAIN prog |->
                    IF prog[v].op \in Forward \ {"loop"} THEN f[prog[v].of]
                    ELSE prog[v].op = "loop"]
  BY <1>1 DEF Follows, IsLoop
<1>3. ThroughLoop = [v \in DOMAIN prog |->
                       IF prog[v].op \in Forward \ {"loop"}
                       THEN ThroughLoop[prog[v].of]
                       ELSE prog[v].op = "loop"]
  BY <1>2 DEF ThroughLoop
<1> QED
  BY <1>3 DEF Follows, IsLoop

\* The same of the function a step leaves behind.
LEMMA ViewSourceFollowsNext ==
  (ProgOK => Follows(viewSource, prog, {"view"}, Identity))'
<1>1. ProgOK => Follows(viewSource, prog, {"view"}, Identity)
  BY ViewSourceFollows
<1> QED
  BY <1>1, PTL

LEMMA BufferFollowsNext ==
  (ProgOK => Follows(buffer, prog, Forward, Identity))'
<1>1. ProgOK => Follows(buffer, prog, Forward, Identity)
  BY BufferFollows
<1> QED
  BY <1>1, PTL

\* Behind every value stands an allocation that precedes it.
LEMMA BufferIsAllocation ==
  ASSUME ProgOK, NEW v \in Values
  PROVE  buffer[v] \in Ops("alloc") \cup Ops("alloca") /\ buffer[v] <= v
<1> DEFINE S == {i \in DOMAIN prog :
                   i \in Values => /\ buffer[i] \in Ops("alloc") \cup Ops("alloca")
                                   /\ buffer[i] <= i}
<1>1. ASSUME NEW m \in 1..Last, \A k \in 1..(m - 1) : k \in S PROVE m \in S
  <2> SUFFICES ASSUME m \in Values
               PROVE  buffer[m] \in Ops("alloc") \cup Ops("alloca") /\ buffer[m] <= m
    BY ProgDomain
  <2>1. buffer[m] = IF prog[m].op \in Forward THEN buffer[prog[m].of] ELSE m
    BY BufferFollows, ProgDomain DEF Follows, Identity
  <2>2. CASE prog[m].op \in Forward
    <3>1. prog[m].of \in Values /\ prog[m].of \in 1..(m - 1)
      BY <2>2, ProgDomain DEF ProgOK, Values
    <3>2. /\ buffer[prog[m].of] \in Ops("alloc") \cup Ops("alloca")
          /\ buffer[prog[m].of] <= prog[m].of
      BY <1>1, <3>1
    <3>3. buffer[prog[m].of] \in Nat
      BY <3>2, ProgDomain DEF Ops
    <3> QED
      BY <2>1, <2>2, <3>1, <3>2, <3>3
  <2>3. CASE prog[m].op \notin Forward
    BY <2>1, <2>3, ProgDomain DEF Values, Ops
  <2> QED
    BY <2>2, <2>3
<1> HIDE DEF S
<1>2. Last \in Nat /\ v \in 1..Last
  BY ProgDomain DEF Values
<1>3. v \in S
  BY <1>1, <1>2, PositionInduction
<1> QED
  BY <1>3 DEF S

(***************************************************************************)
(* A value that went through no loop and whose buffer does not escape is a *)
(* view of that buffer: any other way on is a use mayEscape() counts.      *)
(***************************************************************************)
LEMMA UnescapedIsView ==
  ASSUME ProgOK, NEW v \in Values, ~mayEscape(buffer[v]), ~ThroughLoop[v]
  PROVE  viewSource[v] = buffer[v]
<1> DEFINE S == {i \in DOMAIN prog :
                   i \in Values /\ ~mayEscape(buffer[i]) /\ ~ThroughLoop[i]
                     => viewSource[i] = buffer[i]}
<1>1. ASSUME NEW m \in 1..Last, \A k \in 1..(m - 1) : k \in S PROVE m \in S
  <2> SUFFICES ASSUME m \in Values, ~mayEscape(buffer[m]), ~ThroughLoop[m]
               PROVE  viewSource[m] = buffer[m]
    BY ProgDomain
  <2>1. buffer[m] = IF prog[m].op \in Forward THEN buffer[prog[m].of] ELSE m
    BY BufferFollows, ProgDomain DEF Follows, Identity
  <2>2. viewSource[m] = IF prog[m].op = "view" THEN viewSource[prog[m].of] ELSE m
    BY ViewSourceFollows, ProgDomain DEF Follows, Identity
  <2>3. ThroughLoop[m] = IF prog[m].op \in Forward \ {"loop"}
                         THEN ThroughLoop[prog[m].of] ELSE prog[m].op = "loop"
    BY ThroughLoopFollows, ProgDomain DEF Follows, IsLoop
  <2>4. CASE prog[m].op \notin Forward
    BY <2>1, <2>2, <2>4 DEF Forward
  <2>5. CASE prog[m].op = "loop"
    BY <2>3, <2>5
  <2>6. CASE prog[m].op \in Forward \ {"loop"}
    <3>1. prog[m].of \in Values /\ prog[m].of \in 1..(m - 1)
      BY <2>6, ProgDomain DEF ProgOK, Values
    <3>2. viewSource[prog[m].of] = buffer[prog[m].of]
      BY <1>1, <2>1, <2>3, <2>6, <3>1
    <3>3. CASE prog[m].op = "view"
      BY <2>1, <2>2, <2>6, <3>2, <3>3
    <3>4. CASE prog[m].op \in {"call", "branch", "yield"}
      <4>1. prog[m].of # 0 /\ viewSource[prog[m].of] = buffer[m]
        BY <2>1, <2>6, <3>1, <3>2
      <4>2. mayEscape(buffer[m])
        BY <3>4, <4>1, ProgDomain DEF mayEscape
      <4> QED
        BY <4>2
    <3> QED
      BY <2>6, <3>3, <3>4 DEF Forward
  <2> QED
    BY <2>4, <2>5, <2>6
<1> HIDE DEF S
<1>2. Last \in Nat /\ v \in 1..Last
  BY ProgDomain DEF Values
<1>3. v \in S
  BY <1>1, <1>2, PositionInduction
<1> QED
  BY <1>3 DEF S

-----------------------------------------------------------------------------
(***************************************************************************)
(* Building the function.                                                  *)
(***************************************************************************)
LEMMA InitInv == Init => Inv
BY DEF Init, Inv, ProgOK, Ops, NoLeak, MemorySafeOutsideLoops

\* What an emitted op changes.
LEMMA Emitted ==
  ASSUME ProgOK, NEW o \in Operation, prog' = Append(prog, o)
  PROVE  /\ prog' \in Seq(Operation)
         /\ Last' = Last + 1 /\ DOMAIN prog' = 1..(Last + 1)
         /\ prog'[Last + 1] = o
         /\ \A i \in 1..Last : prog'[i] = prog[i]
         /\ \A k : Ops(k)' = Ops(k) \cup IF o.op = k THEN {Last + 1} ELSE {}
         /\ Values \subseteq Values'
<1>1. /\ prog' \in Seq(Operation)
      /\ Last' = Last + 1 /\ DOMAIN prog' = 1..(Last + 1)
      /\ prog'[Last + 1] = o
      /\ \A i \in 1..Last : prog'[i] = prog[i]
  BY DEF ProgOK, Last
<1>2. \A k : Ops(k)' = Ops(k) \cup IF o.op = k THEN {Last + 1} ELSE {}
  BY <1>1, ProgDomain DEF Ops
<1>3. Values \subseteq Values'
  BY <1>1, ProgDomain DEF Values
<1> QED
  BY <1>1, <1>2, <1>3

LEMMA EmitProgOK ==
  ASSUME ProgOK, Ops("return") = {},
         NEW o \in Operation, prog' = Append(prog, o),
         o.op \in Forward => o.of \in Values,
         o.op = "dealloc" => /\ o.of \in Ops("alloc")
                             /\ \A d \in Ops("dealloc") : prog[d].of # o.of,
         o.op = "return" /\ o.of # 0 => o.of \in Values
  PROVE  ProgOK'
<1> USE Emitted, ProgDomain
<1>1. \A i \in DOMAIN prog' : i \in 1..Last \/ i = Last + 1
  OBVIOUS
<1>2. \A v \in Values : v < Last + 1
  BY DEF Values
<1>3. \A i \in DOMAIN prog' : prog'[i].op \in Forward =>
        prog'[i].of \in Values' /\ prog'[i].of < i
  <2> SUFFICES ASSUME NEW i \in DOMAIN prog', prog'[i].op \in Forward
               PROVE  prog'[i].of \in Values' /\ prog'[i].of < i
    OBVIOUS
  <2>1. CASE i \in 1..Last
    <3>1. prog[i].of \in Values /\ prog[i].of < i
      BY <2>1 DEF ProgOK
    <3> QED
      BY <2>1, <3>1
  <2>2. CASE i = Last + 1
    BY <1>2, <2>2
  <2> QED
    BY <1>1, <2>1, <2>2
<1>4. \A d \in Ops("dealloc")' :
        d \in Ops("dealloc") \/ (d = Last + 1 /\ o.op = "dealloc")
  OBVIOUS
<1>5. \A d \in Ops("dealloc") : d \in 1..Last /\ prog'[d] = prog[d]
  BY DEF Ops
<1>6. \A d \in Ops("dealloc")' : prog'[d].of \in Ops("alloc")' /\ prog'[d].of < d
  <2>1. \A a \in Ops("alloc") : a < Last + 1
    BY DEF Ops
  <2> QED
    BY <1>4, <1>5, <2>1 DEF ProgOK
<1>7. \A d, e \in Ops("dealloc")' : prog'[d].of = prog'[e].of => d = e
  BY <1>4, <1>5 DEF ProgOK
<1>8. \A i \in Ops("return")' :
        i = Last' /\ (prog'[i].of # 0 => prog'[i].of \in Values' /\ prog'[i].of < i)
  <2> SUFFICES ASSUME NEW i \in Ops("return")'
               PROVE  /\ i = Last'
                      /\ prog'[i].of # 0 => prog'[i].of \in Values' /\ prog'[i].of < i
    OBVIOUS
  <2>1. i = Last + 1 /\ o.op = "return"
    OBVIOUS
  <2> QED
    BY <1>2, <2>1
<1> QED
  BY <1>3, <1>6, <1>7, <1>8 DEF ProgOK

\* The buffers of the values of a function stay when an op is emitted.
LEMMA EmitKeepsBuffers ==
  ASSUME ProgOK, ProgOK', NEW o \in Operation, prog' = Append(prog, o)
  PROVE  \A v \in DOMAIN prog : buffer'[v] = buffer[v]
<1>1. Follows(buffer, prog, Forward, Identity)
  BY BufferFollows
<1>2. Follows(buffer', prog', Forward, Identity')
  BY BufferFollowsNext
<1>3. Backward(prog, Forward)
  BY ProgBackward
<1>4. Extends(prog', Identity', prog, Identity, Forward)
  BY Emitted, ProgDomain DEF Identity, Extends
<1> QED
  BY <1>1, <1>2, <1>3, <1>4, ChainsAgree

\* Each dealloc frees the buffer it names: the freed ones are those named.
LEMMA FreedIsNamed ==
  ASSUME ProgOK
  PROVE  /\ \A a \in Ops("alloc") : buffer[a] = a
         /\ Freed = {prog[d].of : d \in Ops("dealloc")}
<1>1. \A a \in Ops("alloc") : buffer[a] = a
  <2> SUFFICES ASSUME NEW a \in Ops("alloc") PROVE buffer[a] = a
    OBVIOUS
  <2>1. a \in DOMAIN prog /\ prog[a].op \notin Forward
    BY DEF Ops, Forward
  <2> QED
    BY <2>1, BufferFollows DEF Follows, Identity
<1>2. \A d \in Ops("dealloc") : buffer[prog[d].of] = prog[d].of
  BY <1>1 DEF ProgOK
<1> QED
  BY <1>1, <1>2 DEF Freed

LEMMA AddOpInv ==
  ASSUME Inv, AddOp
  PROVE  Inv'
<1>1. /\ ProgOK /\ phase = "build" /\ phase' = "build"
      /\ Ops("return") = {} /\ Ops("alloca") = {}
      /\ at' = 1 /\ fault' = "none"
  BY DEF Inv, AddOp, Emit
<1> DEFINE Added(o) ==
             /\ prog' = Append(prog, o)
             /\ o.op \notin {"return", "alloca"}
             /\ o.op \in Forward => o.of \in Values
             /\ o.op = "dealloc" =>
                  /\ o.of \in Ops("alloc")
                  /\ \A d \in Ops("dealloc") : prog[d].of # o.of
<1>2. \E o \in Operation : Added(o)
  <2>1. ASSUME NEW s \in Shapes, Emit(Op("alloc", 0, s))
        PROVE  \E o \in Operation : Added(o)
    <3>1. Op("alloc", 0, s) \in Operation /\ Added(Op("alloc", 0, s))
      BY <2>1 DEF Emit, Op, Operation, Kinds, Forward
    <3> QED
      BY <3>1
  <2>2. ASSUME NEW kind \in Forward, NEW v \in Values, Emit(Op(kind, v, NoShape))
        PROVE  \E o \in Operation : Added(o)
    <3>1. v \in Nat
      BY <1>1, ProgDomain DEF Values
    <3>2. Op(kind, v, NoShape) \in Operation /\ Added(Op(kind, v, NoShape))
      BY <2>2, <3>1 DEF Emit, Op, Operation, Kinds, Forward
    <3> QED
      BY <3>2
  <2>3. ASSUME NEW v \in Ops("alloc") \ Freed, Emit(Op("dealloc", v, NoShape))
        PROVE  \E o \in Operation : Added(o)
    <3>1. v \in Nat
      BY <1>1, ProgDomain DEF Ops
    <3>2. \A d \in Ops("dealloc") : prog[d].of # v
      BY <1>1, FreedIsNamed
    <3>3. /\ Op("dealloc", v, NoShape) \in Operation
          /\ Added(Op("dealloc", v, NoShape))
      BY <2>3, <3>1, <3>2 DEF Emit, Op, Operation, Kinds, Forward
    <3> QED
      BY <3>3
  <2> QED
    BY <2>1, <2>2, <2>3 DEF AddOp
<1>3. PICK o \in Operation : Added(o)
  BY <1>2
<1>4. ProgOK'
  BY <1>1, <1>3, EmitProgOK
<1>5. Ops("return")' = {} /\ Ops("alloca")' = {}
  BY <1>1, <1>3, Emitted
<1> QED
  BY <1>1, <1>4, <1>5 DEF Inv, NoLeak, MemorySafeOutsideLoops

\* The buffers that are not freed are returned.
LEMMA AddReturnInv ==
  ASSUME Inv, AddReturn
  PROVE  Inv'
<1>1. /\ ProgOK /\ phase = "build" /\ phase' = "pass"
      /\ Ops("return") = {} /\ Ops("alloca") = {}
      /\ at' = 1 /\ fault' = "none"
  BY DEF Inv, AddReturn, Emit
<1> DEFINE Added(o) ==
             /\ prog' = Append(prog, o) /\ o.op = "return"
             /\ o.of = 0 => Ops("alloc") \subseteq Freed
             /\ o.of # 0 => /\ o.of \in Values
                           /\ Ops("alloc") \ Freed = {buffer[o.of]}
<1>2. \E o \in Operation : Added(o)
  <2>1. ASSUME Ops("alloc") \subseteq Freed, Emit(Op("return", 0, NoShape))
        PROVE  \E o \in Operation : Added(o)
    <3>1. Op("return", 0, NoShape) \in Operation /\ Added(Op("return", 0, NoShape))
      BY <2>1 DEF Emit, Op, Operation, Kinds
    <3> QED
      BY <3>1
  <2>2. ASSUME NEW v \in Values, Ops("alloc") \ Freed = {buffer[v]},
               Emit(Op("return", v, NoShape))
        PROVE  \E o \in Operation : Added(o)
    <3>1. v \in Nat /\ v # 0
      BY <1>1, ProgDomain DEF Values
    <3>2. Op("return", v, NoShape) \in Operation /\ Added(Op("return", v, NoShape))
      BY <2>2, <3>1 DEF Emit, Op, Operation, Kinds
    <3> QED
      BY <3>2
  <2> QED
    BY <2>1, <2>2 DEF AddReturn
<1>3. PICK o \in Operation : Added(o)
  BY <1>2
<1>4. ProgOK'
  BY <1>1, <1>3, EmitProgOK DEF Forward
<1>5. /\ Last' = Last + 1 /\ Last' \in Ops("return")'
      /\ Ops("alloca")' = {} /\ Ops("alloc")' = Ops("alloc")
      /\ Ops("dealloc")' = Ops("dealloc") /\ prog'[Last'] = o
      /\ \A i \in 1..Last : prog'[i] = prog[i]
  <2>1. \A k : Ops(k)' = Ops(k) \cup IF "return" = k THEN {Last + 1} ELSE {}
    BY <1>1, <1>3, Emitted
  <2>2. Ops("return")' = {Last + 1} /\ Ops("alloca")' = {}
    BY <1>1, <2>1
  <2>3. Ops("alloc")' = Ops("alloc") /\ Ops("dealloc")' = Ops("dealloc")
    BY <2>1
  <2> QED
    BY <1>1, <1>3, <2>2, <2>3, Emitted
<1>6. \A d \in Ops("dealloc") : prog'[d].of = prog[d].of
  BY <1>1, <1>5, ProgDomain DEF Ops
<1>7. Freed = {prog[d].of : d \in Ops("dealloc")}
  BY <1>1, FreedIsNamed
<1>8. o.of # 0 => o.of \in Values /\ buffer'[o.of] = buffer[o.of]
  BY <1>1, <1>3, <1>4, EmitKeepsBuffers DEF Values
<1>9. Owned'
  <2>1. \A a \in Ops("alloc") : \/ \E d \in Ops("dealloc") : prog'[d].of = a
                                \/ o.of # 0 /\ buffer'[o.of] = a
    BY <1>3, <1>6, <1>7, <1>8
  <2>2. o.of # 0 => \A d \in Ops("dealloc") : prog'[d].of # buffer'[o.of]
    BY <1>3, <1>6, <1>7, <1>8
  <2> QED
    BY <1>5, <2>1, <2>2 DEF Owned
<1> QED
  BY <1>1, <1>4, <1>5, <1>9 DEF Inv, NoLeak, MemorySafeOutsideLoops

-----------------------------------------------------------------------------
(***************************************************************************)
(* The pass.                                                               *)
(***************************************************************************)

\* A promotion changes the alloc, and the one dealloc that names it.
LEMMA PromoteShape ==
  ASSUME ProgOK, NEW a \in DOMAIN prog, Promote(a)
  PROVE  /\ a \in Ops("alloc")
         /\ Last' = Last /\ DOMAIN prog' = DOMAIN prog
         /\ \A i \in DOMAIN prog :
              /\ prog'[i].of = prog[i].of /\ prog'[i].shape = prog[i].shape
              /\ prog'[i] \in Operation
              /\ prog'[i].op = CASE i = a -> "alloca"
                                 [] prog[i].op = "dealloc" /\ prog[i].of = a -> "erased"
                                 [] OTHER -> prog[i].op
<1>1. a \in Ops("alloc")
  BY DEF Promote, Promotable, Ops
<1> DEFINE D == {d \in Ops("dealloc") : prog[d].of = a}
           P == [i \in DOMAIN prog |->
                   CASE i = a -> [prog[a] EXCEPT !.op = "alloca"]
                     [] i \in D /\ \A d \in D : d <= i ->
                          [prog[i] EXCEPT !.op = "erased"]
                     [] OTHER -> prog[i]]
<1>2. prog' = P
  BY DEF Promote
<1>3. \A i \in DOMAIN prog :
        (i \in D /\ \A d \in D : d <= i) <=> (prog[i].op = "dealloc" /\ prog[i].of = a)
  <2>1. \A d, e \in D : d = e
    BY DEF ProgOK
  <2>2. \A d \in D : d \in Nat
    BY ProgDomain DEF Ops
  <2>3. \A i \in DOMAIN prog : i \in D <=> prog[i].op = "dealloc" /\ prog[i].of = a
    BY DEF Ops
  <2> HIDE DEF D
  <2> QED
    BY <2>1, <2>2, <2>3
<1>4. ASSUME NEW i \in DOMAIN prog
      PROVE  /\ P[i].of = prog[i].of /\ P[i].shape = prog[i].shape
             /\ P[i] \in Operation
             /\ P[i].op = CASE i = a -> "alloca"
                            [] prog[i].op = "dealloc" /\ prog[i].of = a -> "erased"
                            [] OTHER -> prog[i].op
  <2>1. prog[i] \in Operation /\ prog[a] \in Operation
    BY ProgDomain
  <2>2. CASE i = a
    <3>1. prog[a].op = "alloc"
      BY <1>1 DEF Ops
    <3>2. P[i] = [prog[a] EXCEPT !.op = "alloca"]
      BY <1>3, <2>2, <3>1
    <3> HIDE DEF P
    <3> QED
      BY <2>1, <2>2, <3>1, <3>2 DEF Operation, Kinds
  <2>3. CASE i # a /\ prog[i].op = "dealloc" /\ prog[i].of = a
    <3>1. P[i] = [prog[i] EXCEPT !.op = "erased"]
      BY <1>3, <2>3
    <3> QED
      BY <2>1, <2>3, <3>1 DEF Operation, Kinds
  <2>4. CASE i # a /\ ~(prog[i].op = "dealloc" /\ prog[i].of = a)
    <3>1. P[i] = prog[i]
      BY <1>3, <2>4
    <3> QED
      BY <2>1, <2>4, <3>1
  <2> QED
    BY <2>2, <2>3, <2>4
<1>5. DOMAIN P = DOMAIN prog /\ Last' = Last
  <2>1. DOMAIN P = DOMAIN prog
    OBVIOUS
  <2>2. Len(P) = Last
    BY <2>1, ProgDomain DEF Last
  <2> QED
    BY <1>2, <2>1, <2>2 DEF Last
<1> HIDE DEF P
<1> QED
  BY <1>1, <1>2, <1>4, <1>5

LEMMA PromoteOps ==
  ASSUME ProgOK, NEW a \in DOMAIN prog, Promote(a)
  PROVE  /\ Ops("alloc")' = Ops("alloc") \ {a}
         /\ Ops("alloca")' = Ops("alloca") \cup {a}
         /\ Ops("dealloc")' = {d \in Ops("dealloc") : prog[d].of # a}
         /\ Ops("return")' = Ops("return")
         /\ Values' = Values
         /\ \A i \in DOMAIN prog : \A k \in Forward \cup {"return"} :
              prog'[i].op = k <=> prog[i].op = k
<1>1. a \in DOMAIN prog /\ prog[a].op = "alloc"
  BY PromoteShape DEF Ops
<1>2. \A i \in DOMAIN prog : \A k \in Forward \cup {"return"} :
        prog'[i].op = k <=> prog[i].op = k
  BY <1>1, PromoteShape DEF Forward
<1>3. Values' = Values
  <2>1. \A i \in DOMAIN prog :
          prog'[i].op \in Forward \cup {"alloc", "alloca"} <=>
          prog[i].op \in Forward \cup {"alloc", "alloca"}
    BY <1>1, PromoteShape DEF Forward
  <2> QED
    BY <2>1, PromoteShape DEF Values
<1>4. Ops("return")' = Ops("return")
  BY <1>2, PromoteShape DEF Ops
<1>5. Ops("alloc")' = Ops("alloc") \ {a} /\ Ops("alloca")' = Ops("alloca") \cup {a}
  BY <1>1, PromoteShape DEF Ops
<1>6. Ops("dealloc")' = {d \in Ops("dealloc") : prog[d].of # a}
  BY <1>1, PromoteShape DEF Ops
<1> QED
  BY <1>2, <1>3, <1>4, <1>5, <1>6

LEMMA PromoteProgOK ==
  ASSUME ProgOK, NEW a \in DOMAIN prog, Promote(a)
  PROVE  ProgOK'
<1>1. prog' \in Seq(Operation)
  <2>1. /\ DOMAIN prog' = 1..Last /\ Last \in Nat
        /\ prog' = [i \in DOMAIN prog' |-> prog'[i]]
    BY PromoteShape, ProgDomain DEF Promote
  <2>2. prog' \in [1..Last -> Operation]
    BY <2>1, PromoteShape
  <2> QED
    BY <2>1, <2>2
<1>2. \A i \in DOMAIN prog' :
        prog'[i].op \in Forward => prog'[i].of \in Values' /\ prog'[i].of < i
  BY PromoteShape, PromoteOps DEF ProgOK
<1>3. \A d \in Ops("dealloc")' : prog'[d].of \in Ops("alloc")' /\ prog'[d].of < d
  BY PromoteShape, PromoteOps DEF ProgOK, Ops
<1>4. \A d, e \in Ops("dealloc")' : prog'[d].of = prog'[e].of => d = e
  <2>1. \A d \in Ops("dealloc")' : d \in Ops("dealloc") /\ prog'[d].of = prog[d].of
    BY PromoteShape, PromoteOps DEF Ops
  <2> QED
    BY <2>1 DEF ProgOK
<1>5. \A i \in Ops("return")' :
        i = Last' /\ (prog'[i].of # 0 => prog'[i].of \in Values' /\ prog'[i].of < i)
  <2>1. \A i \in Ops("return")' : i \in Ops("return") /\ prog'[i].of = prog[i].of
    BY PromoteShape, PromoteOps DEF Ops
  <2> QED
    BY <2>1, PromoteShape, PromoteOps DEF ProgOK
<1> QED
  BY <1>1, <1>2, <1>3, <1>4, <1>5 DEF ProgOK

\* Views and forwarded buffers, hence escapes, are what they were.
LEMMA PromoteKeepsChains ==
  ASSUME ProgOK, NEW a \in DOMAIN prog, Promote(a)
  PROVE  /\ \A i \in DOMAIN prog : /\ viewSource'[i] = viewSource[i]
                                   /\ buffer'[i] = buffer[i]
         /\ \A b : mayEscape(b)' <=> mayEscape(b)
<1>1. ProgOK'
  BY PromoteProgOK
<1>2. ASSUME NEW K \in {{"view"}, Forward}
      PROVE  Extends(prog', Identity', prog, Identity, K) /\ Backward(prog, K)
  <2>1. \A i \in DOMAIN prog : prog'[i].op \in K <=> prog[i].op \in K
    BY <1>2, PromoteOps DEF Forward
  <2>2. Identity' = Identity
    BY PromoteShape DEF Identity
  <2>3. Backward(prog, K)
    BY <1>2, ProgBackward DEF Forward
  <2> QED
    BY <2>1, <2>2, <2>3, PromoteShape, ProgDomain DEF Extends
<1>3. \A i \in DOMAIN prog : viewSource'[i] = viewSource[i]
  <2>1. /\ Follows(viewSource, prog, {"view"}, Identity)
        /\ Follows(viewSource', prog', {"view"}, Identity')
    BY <1>1, ViewSourceFollows, ViewSourceFollowsNext
  <2> QED
    BY <1>2, <2>1, ChainsAgree
<1>4. \A i \in DOMAIN prog : buffer'[i] = buffer[i]
  <2>1. /\ Follows(buffer, prog, Forward, Identity)
        /\ Follows(buffer', prog', Forward, Identity')
    BY <1>1, BufferFollows, BufferFollowsNext
  <2> QED
    BY <1>2, <2>1, ChainsAgree
<1>5. ASSUME NEW b PROVE mayEscape(b)' <=> mayEscape(b)
  <2>1. \A u \in DOMAIN prog :
          /\ prog'[u].op \in {"return", "call", "branch", "yield"} <=>
             prog[u].op \in {"return", "call", "branch", "yield"}
          /\ prog'[u].of = prog[u].of
    BY PromoteShape, PromoteOps DEF Forward
  <2>2. ASSUME NEW u \in DOMAIN prog, prog[u].of # 0,
               prog[u].op \in {"return", "call", "branch", "yield"}
        PROVE  viewSource'[prog[u].of] = viewSource[prog[u].of]
    <3>1. prog[u].of \in Values
      BY <2>2 DEF ProgOK, Forward, Ops
    <3> QED
      BY <1>3, <3>1 DEF Values
  <2> QED
    BY <2>1, <2>2, PromoteShape DEF mayEscape
<1> QED
  BY <1>3, <1>4, <1>5

LEMMA PromoteInv ==
  ASSUME Inv, NEW a \in DOMAIN prog, Promote(a)
  PROVE  Inv'
<1>1. /\ ProgOK /\ phase = "pass" /\ phase' = "pass" /\ Owned
      /\ Last \in Ops("return") /\ at' = 1 /\ fault' = "none" /\ ~mayEscape(a)
  BY DEF Inv, Promote, Promotable
<1>2. Owned'
  <2>1. Last \in DOMAIN prog /\ prog[Last].op = "return"
    BY <1>1 DEF Ops
  <2>2. prog'[Last'].of = prog[Last].of
    BY <1>1, <2>1, PromoteShape
  <2>3. prog[Last].of # 0 => buffer'[prog[Last].of] = buffer[prog[Last].of]
    <3>1. prog[Last].of # 0 => prog[Last].of \in DOMAIN prog
      BY <1>1 DEF ProgOK, Values
    <3> QED
      BY <1>1, <3>1, PromoteKeepsChains
  <2>4. \A d \in Ops("dealloc") : prog'[d].of = prog[d].of
    BY <1>1, PromoteShape DEF Ops
  <2>5. \A b \in Ops("alloc")' : \/ \E d \in Ops("dealloc")' : prog'[d].of = b
                                 \/ prog'[Last'].of # 0 /\ buffer'[prog'[Last'].of] = b
    BY <1>1, <2>2, <2>3, <2>4, PromoteOps DEF Owned
  <2>6. prog'[Last'].of # 0 =>
          \A d \in Ops("dealloc")' : prog'[d].of # buffer'[prog'[Last'].of]
    BY <1>1, <2>2, <2>3, <2>4, PromoteOps DEF Owned
  <2>7. \A b \in Ops("alloca")' : ~mayEscape(b)'
    BY <1>1, PromoteOps, PromoteKeepsChains DEF Owned
  <2> QED
    BY <2>5, <2>6, <2>7 DEF Owned
<1>3. ProgOK'
  BY <1>1, PromoteProgOK
<1>4. Last' \in Ops("return")'
  BY <1>1, PromoteShape, PromoteOps
<1> QED
  BY <1>1, <1>2, <1>3, <1>4 DEF Inv, NoLeak, MemorySafeOutsideLoops

\* What depends on the function alone stays while the function does.
LEMMA SameProg ==
  ASSUME prog' = prog
  PROVE  /\ Last' = Last /\ Values' = Values /\ \A k : Ops(k)' = Ops(k)
         /\ buffer' = buffer /\ ThroughLoop' = ThroughLoop
         /\ \A b : mayEscape(b)' <=> mayEscape(b)
         /\ \A b, i : MemoryAt(b, i)' = MemoryAt(b, i)
         /\ ProgOK' <=> ProgOK
         /\ Owned' <=> Owned
<1>1. /\ Last' = Last /\ Values' = Values /\ \A k : Ops(k)' = Ops(k)
      /\ buffer' = buffer /\ ThroughLoop' = ThroughLoop
      /\ viewSource' = viewSource
  BY DEF Last, Values, Ops, buffer, ThroughLoop, viewSource
<1>2. \A b : mayEscape(b)' <=> mayEscape(b)
  BY <1>1 DEF mayEscape
<1>3. \A b, i : MemoryAt(b, i)' = MemoryAt(b, i)
  BY <1>1 DEF MemoryAt
<1>4. ProgOK' <=> ProgOK
  BY <1>1 DEF ProgOK
<1>5. Owned' <=> Owned
  BY <1>1, <1>2 DEF Owned
<1> QED
  BY <1>1, <1>2, <1>3, <1>4, <1>5

LEMMA AssertWidthInv ==
  ASSUME Inv, AssertWidth
  PROVE  Inv'
BY SameProg DEF Inv, AssertWidth, NoLeak, MemorySafeOutsideLoops

\* Execution starts with no buffer allocated.
LEMMA EndPassInv ==
  ASSUME Inv, EndPass
  PROVE  Inv'
<1>1. /\ ProgOK /\ Owned /\ Last \in Ops("return") /\ at = 1 /\ at' = 1
      /\ fault' = "none" /\ phase' = "run" /\ prog' = prog
      /\ mem' = [b \in Ops("alloc") \cup Ops("alloca") |-> "none"]
  BY DEF Inv, EndPass
<1>2. \A b \in Ops("alloc") \cup Ops("alloca") : MemoryAt(b, 1) = "none"
  <2>1. \A b \in Ops("alloc") \cup Ops("alloca") : b \in Nat /\ b >= 1
    BY <1>1, ProgDomain DEF Ops
  <2> QED
    BY <2>1 DEF MemoryAt
<1>3. at' \in 1..Last
  BY <1>1, ProgDomain DEF Ops
<1> QED
  BY <1>1, <1>2, <1>3, SameProg DEF Inv, NoLeak, MemorySafeOutsideLoops

-----------------------------------------------------------------------------
(***************************************************************************)
(* The execution.                                                          *)
(***************************************************************************)

\* What holds while the promoted function runs.
LEMMA Running ==
  ASSUME Inv, phase = "run"
  PROVE  /\ ProgOK /\ Owned /\ Last \in Ops("return") /\ fault = "none"
         /\ at \in 1..Last /\ at \in DOMAIN prog /\ Last \in Nat
         /\ DOMAIN mem = Ops("alloc") \cup Ops("alloca")
         /\ \A b \in DOMAIN mem : mem[b] = MemoryAt(b, at) /\ b \in Nat
         /\ prog[at].op # "return" => at + 1 \in 1..Last
<1>1. /\ ProgOK /\ Owned /\ Last \in Ops("return") /\ fault = "none"
      /\ at \in 1..Last /\ DOMAIN mem = Ops("alloc") \cup Ops("alloca")
      /\ \A b \in DOMAIN mem : mem[b] = MemoryAt(b, at)
  BY DEF Inv
<1>2. /\ at \in DOMAIN prog /\ Last \in Nat /\ prog[Last].op = "return"
      /\ \A b \in DOMAIN mem : b \in Nat
  BY <1>1, ProgDomain DEF Ops
<1> QED
  BY <1>1, <1>2

\* Executing an op changes the buffer it allocates or frees and no other.
LEMMA MemoryStep ==
  ASSUME ProgOK, NEW i \in DOMAIN prog,
         NEW b \in Ops("alloc") \cup Ops("alloca"),
         i # b, prog[i].op = "dealloc" => prog[i].of # b
  PROVE  MemoryAt(b, i + 1) = MemoryAt(b, i)
<1>1. i \in Nat /\ b \in Nat
  BY ProgDomain DEF Ops
<1>2. b >= i + 1 <=> b >= i
  BY <1>1
<1>3. \A d \in Ops("dealloc") :
        d < i + 1 /\ prog[d].of = b <=> d < i /\ prog[d].of = b
  BY <1>1, ProgDomain DEF Ops
<1>4. b < i + 1 <=> b < i
  BY <1>1
<1>5. (\E d \in Ops("dealloc") : d < i + 1 /\ prog[d].of = b)
        <=> (\E d \in Ops("dealloc") : d < i /\ prog[d].of = b)
  BY <1>3
<1>6. CASE b >= i
  <2>1. b >= i + 1 /\ ~(b < i) /\ ~(b < i + 1)
    BY <1>1, <1>2, <1>6
  <2> QED
    BY <1>6, <2>1 DEF MemoryAt
<1>7. CASE b < i
  <2>1. ~(b >= i) /\ ~(b >= i + 1) /\ b < i + 1
    BY <1>1, <1>7
  <2>2. CASE prog[b].op = "alloca"
    BY <1>7, <2>1, <2>2 DEF MemoryAt
  <2>3. CASE prog[b].op = "alloc"
    BY <1>5, <1>7, <2>1, <2>3 DEF MemoryAt
  <2> QED
    BY <2>2, <2>3 DEF Ops
<1> QED
  BY <1>1, <1>6, <1>7

\* A step of the execution that moves on keeps the invariant.
LEMMA StepInv ==
  ASSUME Inv, phase = "run", prog[at].op # "return",
         prog' = prog, phase' = phase, fault' = fault, at' = at + 1,
         DOMAIN mem' = DOMAIN mem,
         \A b \in DOMAIN mem : mem'[b] = MemoryAt(b, at + 1)
  PROVE  Inv'
BY Running, SameProg DEF Inv, NoLeak, MemorySafeOutsideLoops

LEMMA AllocateInv ==
  ASSUME Inv, Allocate
  PROVE  Inv'
<1>1. /\ phase = "run" /\ prog[at].op \in {"alloc", "alloca"}
      /\ prog' = prog /\ phase' = phase /\ fault' = fault /\ at' = at + 1
      /\ mem' = [mem EXCEPT ![at] = IF prog[at].op = "alloc" THEN "heap" ELSE "stack"]
  BY DEF Allocate, Executing, Step
<1>2. \A b \in DOMAIN mem : b # at => MemoryAt(b, at + 1) = MemoryAt(b, at)
  BY <1>1, Running, MemoryStep
<1>3. MemoryAt(at, at + 1) = IF prog[at].op = "alloc" THEN "heap" ELSE "stack"
  <2>1. at \in Nat /\ ~(at >= at + 1) /\ at < at + 1
    BY <1>1, Running
  <2>2. \A d \in Ops("dealloc") : prog[d].of = at => ~(d < at + 1)
    <3>1. \A d \in Ops("dealloc") : prog[d].of < d /\ d \in Nat
      BY <1>1, Running, ProgDomain DEF ProgOK, Ops
    <3> QED
      BY <2>1, <3>1
  <2> QED
    BY <1>1, <2>1, <2>2 DEF MemoryAt
<1>4. \A b \in DOMAIN mem : mem'[b] = MemoryAt(b, at + 1)
  BY <1>1, <1>2, <1>3, Running
<1> QED
  BY <1>1, <1>4, StepInv

\* A dealloc finds its buffer on the heap.
LEMMA FreeInv ==
  ASSUME Inv, Free
  PROVE  Inv'
<1> DEFINE a == prog[at].of
<1>1. phase = "run" /\ prog[at].op = "dealloc" /\ ProgOK /\ at \in Nat
  <2>1. phase = "run" /\ prog[at].op = "dealloc"
    BY DEF Free, Executing
  <2> QED
    BY <2>1, Running
<1>2. /\ at \in Ops("dealloc") /\ a \in Ops("alloc") /\ a < at
      /\ a \in DOMAIN mem /\ buffer[a] = a /\ a \in Nat
  BY <1>1, Running, FreedIsNamed DEF Ops, ProgOK
<1>3. \A d \in Ops("dealloc") : prog[d].of = a => d = at
  BY <1>1, <1>2 DEF ProgOK
<1>4. mem[a] = "heap"
  <2>1. mem[a] = MemoryAt(a, at)
    BY <1>1, <1>2, Running
  <2> QED
    BY <1>1, <1>2, <1>3, <2>1 DEF MemoryAt, Ops
<1>5. /\ prog' = prog /\ phase' = phase /\ fault' = fault /\ at' = at + 1
      /\ mem' = [mem EXCEPT ![a] = "freed"]
  BY <1>2, <1>4 DEF Free, Step
<1>6. MemoryAt(a, at + 1) = "freed"
  <2>1. ~(a >= at + 1) /\ a < at + 1 /\ at < at + 1
    BY <1>1, <1>2
  <2> QED
    BY <1>2, <2>1 DEF MemoryAt, Ops
<1>7. \A b \in DOMAIN mem : b # a => MemoryAt(b, at + 1) = MemoryAt(b, at)
  <2>1. \A b \in DOMAIN mem : b # at
    BY <1>1, Running DEF Ops
  <2> QED
    BY <1>1, <2>1, Running, MemoryStep
<1>8. \A b \in DOMAIN mem : mem'[b] = MemoryAt(b, at + 1)
  BY <1>1, <1>5, <1>6, <1>7, Running
<1> QED
  BY <1>1, <1>5, <1>8, StepInv

LEMMA SkipInv ==
  ASSUME Inv, Skip
  PROVE  Inv'
<1>1. /\ phase = "run" /\ prog[at].op \in Forward \cup {"erased"}
      /\ prog' = prog /\ phase' = phase /\ fault' = fault /\ at' = at + 1
      /\ mem' = mem
  BY DEF Skip
<1>2. \A b \in DOMAIN mem : MemoryAt(b, at + 1) = MemoryAt(b, at)
  <2>1. \A b \in DOMAIN mem : b # at
    BY <1>1, Running DEF Ops, Forward
  <2> QED
    BY <1>1, <2>1, Running, MemoryStep DEF Forward
<1>3. \A b \in DOMAIN mem : mem'[b] = MemoryAt(b, at + 1)
  BY <1>1, <1>2, Running
<1> QED
  BY <1>1, <1>3, StepInv DEF Forward

(***************************************************************************)
(* At the return every heap buffer is freed but the one returned, and that *)
(* one is on the stack only if it went through a loop.                     *)
(***************************************************************************)
LEMMA ReturnInv ==
  ASSUME Inv, Return
  PROVE  Inv'
<1> DEFINE v == prog[at].of
<1>1. /\ phase = "run" /\ ProgOK /\ Owned /\ prog[at].op = "return"
      /\ at = Last /\ at \in Nat /\ phase' = "done" /\ prog' = prog /\ at' = at
      /\ at \in DOMAIN prog /\ fault = "none"
  <2>1. phase = "run" /\ prog[at].op = "return"
    BY DEF Return, Executing
  <2>2. phase' = "done" /\ prog' = prog /\ at' = at
    BY DEF Return, Fault
  <2>3. at \in Ops("return")
    BY <2>1, Running DEF Ops
  <2> QED
    BY <2>1, <2>2, <2>3, Running DEF ProgOK
<1>2. \A b \in Ops("alloc") \cup Ops("alloca") : b \in DOMAIN mem /\ mem[b] = MemoryAt(b, at)
  BY <1>1, Running
<1>3. \A b \in DOMAIN mem : b \in Nat /\ b < at
  <2>1. \A b \in DOMAIN mem : b \in 1..Last /\ b # Last
    BY <1>1, Running, ProgDomain DEF Ops
  <2> QED
    BY <1>1, <2>1
<1>4. \A d \in Ops("dealloc") : d < at
  <2>1. \A d \in Ops("dealloc") : d \in 1..Last /\ d # Last
    BY <1>1, ProgDomain DEF Ops
  <2> QED
    BY <1>1, <2>1
<1>5. \A b \in DOMAIN mem : b \in Ops("alloca") => mem[b] = "stack"
  BY <1>2, <1>3, Running DEF MemoryAt, Ops
<1>6. \A b \in Ops("alloc") :
        mem[b] = IF \E d \in Ops("dealloc") : prog[d].of = b THEN "freed" ELSE "heap"
  <2>1. \A b \in Ops("alloc") :
          (\E d \in Ops("dealloc") : d < at /\ prog[d].of = b)
            <=> (\E d \in Ops("dealloc") : prog[d].of = b)
    BY <1>4
  <2> QED
    BY <1>2, <1>3, <2>1 DEF MemoryAt, Ops
<1>7. v # 0 => /\ v \in Values /\ buffer[v] \in Ops("alloc") \cup Ops("alloca")
               /\ buffer[v] \in DOMAIN mem
  <2>1. v # 0 => v \in Values
    BY <1>1 DEF ProgOK, Ops
  <2> QED
    BY <1>1, <1>2, <2>1, BufferIsAllocation
<1>8. \A b \in DOMAIN mem : mem[b] = "heap" => v # 0 /\ b = buffer[v]
  BY <1>1, <1>5, <1>6, Running DEF Owned
<1>9. CASE v = 0 \/ mem[buffer[v]] = "heap"
  <2>1. /\ fault' = "none"
        /\ mem' = IF v = 0 THEN mem ELSE [mem EXCEPT ![buffer[v]] = "freed"]
    BY <1>1, <1>9 DEF Return
  <2>2. \A b \in DOMAIN mem' : mem'[b] # "heap"
    BY <1>7, <1>8, <2>1
  <2> QED
    BY <1>1, <2>1, <2>2, SameProg, Running DEF Inv, NoLeak, MemorySafeOutsideLoops
<1>10. CASE v # 0 /\ mem[buffer[v]] # "heap"
  <2>1. mem' = mem
    BY <1>10 DEF Return, Fault
  <2>2. buffer[v] \in Ops("alloca")
    BY <1>1, <1>6, <1>7, <1>10 DEF Owned
  <2>3. ThroughLoop[v]
    <3>1. SUFFICES ASSUME ~ThroughLoop[v] PROVE FALSE
      OBVIOUS
    <3>2. ~mayEscape(buffer[v])
      BY <1>1, <2>2 DEF Owned
    <3>3. viewSource[v] = buffer[v]
      BY <1>1, <1>7, <1>10, <3>1, <3>2, UnescapedIsView
    <3> QED
      BY <1>1, <1>10, <3>2, <3>3 DEF mayEscape
  <2>4. \A b \in DOMAIN mem' : mem'[b] # "heap"
    BY <1>8, <1>10, <2>1
  <2> QED
    BY <1>1, <2>3, <2>4, SameProg, Running DEF Inv, NoLeak, MemorySafeOutsideLoops
<1> QED
  BY <1>9, <1>10

-----------------------------------------------------------------------------
LEMMA NextInv ==
  ASSUME Inv, [Next]_vars
  PROVE  Inv'
<1>1. ASSUME UNCHANGED vars PROVE Inv'
  <2>1. /\ prog' = prog /\ phase' = phase /\ at' = at /\ mem' = mem
        /\ fault' = fault
    BY <1>1 DEF vars
  <2>2. (NoLeak' <=> NoLeak) /\ (MemorySafeOutsideLoops' <=> MemorySafeOutsideLoops)
    BY <2>1, SameProg DEF NoLeak, MemorySafeOutsideLoops
  <2>3. \A b \in DOMAIN mem : MemoryAt(b, at)' = MemoryAt(b, at)
    BY <2>1, SameProg
  <2> QED
    BY <2>1, <2>2, <2>3, SameProg DEF Inv
<1> QED
  BY <1>1, AddOpInv, AddReturnInv, AssertWidthInv, EndPassInv, PromoteInv,
     AllocateInv, FreeInv, SkipInv, ReturnInv
     DEF Next, Build, Pass, Execute

LEMMA InvHolds == Spec => []Inv
BY InitInv, NextInv, PTL DEF Spec

(***************************************************************************)
(* CustomBufferOpt promotes nothing that is freed or handed out of the     *)
(* function: whichever allocations the driver promotes, in whichever       *)
(* order, a promoted function faults only on a buffer that reached its     *)
(* return as the init operand of a loop, which mayEscape() does not        *)
(* follow.                                                                 *)
(***************************************************************************)
THEOREM PromotionIsMemorySafe == Spec => []MemorySafeOutsideLoops
<1>1. Inv => MemorySafeOutsideLoops
  BY DEF Inv
<1> QED
  BY <1>1, InvHolds, PTL

(***************************************************************************)
(* A promoted function leaks no heap buffer: each promotion takes away the *)
(* dealloc of the buffer it moves to the stack, and no other.              *)
(***************************************************************************)
THEOREM PromotionLeaksNothing == Spec => []NoLeak
<1>1. Inv => NoLeak
  BY DEF Inv
<1> QED
  BY <1>1, InvHolds, PTL

\* A step of the pass decides about one allocation and leaves the others.
LEMMA NextIndependent ==
  ASSUME Inv, [Next]_vars, phase = "pass", NEW c \in DOMAIN prog
  PROVE  Promotable(c)' <=> (Promotable(c) /\ prog'[c].op = "alloc")
<1>1. ProgOK
  BY DEF Inv
<1>2. CASE prog' = prog
  BY <1>2, SameProg DEF Promotable
<1>3. ASSUME NEW a \in DOMAIN prog, Promote(a)
      PROVE  Promotable(c)' <=> (Promotable(c) /\ prog'[c].op = "alloc")
  <2>1. /\ prog'[c].shape = prog[c].shape
        /\ prog'[c].op = "alloc" => prog[c].op = "alloc"
    BY <1>1, <1>3, PromoteShape
  <2>2. mayEscape(c)' <=> mayEscape(c)
    BY <1>1, <1>3, PromoteKeepsChains
  <2> QED
    BY <2>1, <2>2 DEF Promotable
<1> QED
  BY <1>2, <1>3 DEF Next, Build, AddOp, AddReturn, Pass, AssertWidth, EndPass,
     Execute, Allocate, Executing, Free, Skip, Return, Step, Fault, vars

(***************************************************************************)
(* The driver's order does not matter: promoting one allocation neither    *)
(* enables nor disables the promotion of another.                          *)
(***************************************************************************)
THEOREM PromotionsDoNotInteract == Spec => PromotionsIndependent
<1>1. Inv /\ [Next]_vars =>
        [phase = "pass" =>
           \A a \in DOMAIN prog :
             Promotable(a)' = (Promotable(a) /\ prog'[a].op = "alloc")]_vars
  <2> SUFFICES ASSUME Inv, [Next]_vars, phase = "pass", NEW a \in DOMAIN prog
               PROVE  Promotable(a)' = (Promotable(a) /\ prog'[a].op = "alloc")
    OBVIOUS
  <2>1. Promotable(a)' <=> (Promotable(a) /\ prog'[a].op = "alloc")
    BY NextIndependent
  <2>2. Promotable(a)' \in BOOLEAN
    BY DEF Promotable
  <2> QED
    BY <2>1, <2>2
<1> QED
  BY <1>1, InvHolds, PTL DEF Spec, PromotionsIndependent
=============================================================================
