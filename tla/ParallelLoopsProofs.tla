------------------------- MODULE ParallelLoopsProofs -------------------------
(***************************************************************************)
(* The parallel nests implement the linalg ops they replace, for every     *)
(* extent, every number of buffers and every interleaving.                 *)
(***************************************************************************)
EXTENDS ParallelLoops, TLAPS

(***************************************************************************)
(* What bufferization hands over: a matmul reads neither operand from its  *)
(* own output and has the default indexing maps.                           *)
(***************************************************************************)
WellFormed(o) ==
  /\ o.kind \in {"elementwise", "fill", "matmul"}
  /\ o.out \in Buffer
  /\ Len(o.ins) \in Nat
  /\ DOMAIN o.ins = 1..Len(o.ins)
  /\ o.depth \in Nat
  /\ \A n \in DOMAIN o.ins : o.ins[n].map \in {"identity", "transpose"}
  /\ o.kind = "matmul" =>
       /\ o.ins[1].map = "identity" /\ o.ins[1].buf # o.out
       /\ o.ins[2].map = "identity" /\ o.ins[2].buf # o.out

\* The values the iteration x would load from the memory before the nest.
Values(x) == Fetch(Distinct, Loads(x))

\* The memory once the iterations in S have stored their results.
MemoryAfter(S) ==
  [Distinct EXCEPT ![op.out] =
     [x \in Index |-> IF x \in S THEN Compute(op, Values(x))
                      ELSE Distinct[op.out][x]]]

Prefix(x) == \E k \in 0..Len(Loads(x)) : got[x] = [n \in 1..k |-> Values(x)[n]]

Inv ==
  /\ op \in Ops
  /\ phase \in {"linalg", "parallel", "upstream", "rejected", "done"}
  /\ DOMAIN got = Iterations
  /\ stored \subseteq Iterations
  /\ phase \in {"linalg", "upstream", "rejected"} => mem = Distinct
  /\ phase = "linalg" => stored = {} /\ got = [x \in Iterations |-> <<>>]
  /\ phase = "parallel" => /\ Matches
                           /\ mem = MemoryAfter(stored)
                           /\ \A x \in Iterations : Prefix(x)

LEMMA IterationsAreSpace == Iterations = Space(op)
BY DEF Iterations, Space

\* The loads of an iteration form a sequence.
LEMMA LoadsSequence ==
  ASSUME WellFormed(op), NEW x
  PROVE  Len(Loads(x)) \in Nat /\ DOMAIN Loads(x) = 1..Len(Loads(x))
<1>1. CASE op.kind = "elementwise"
  BY <1>1 DEF WellFormed, Loads
<1>2. CASE op.kind = "fill"
  BY <1>2 DEF WellFormed, Loads
<1>3. CASE op.kind = "matmul"
  BY <1>3 DEF WellFormed, Loads
<1> QED
  BY <1>1, <1>2, <1>3 DEF WellFormed

\* A matched op is loaded where its definition reads.
LEMMA LoadsAreReads ==
  ASSUME WellFormed(op), Matches, NEW x
  PROVE  Loads(x) = Reads(op, x)
<1>1. CASE op.kind = "elementwise"
  <2>1. \A n \in 1..Len(op.ins) : Element(op.ins[n], x) = <<op.ins[n].buf, x>>
    BY <1>1 DEF WellFormed, Matches, allIdentityMaps, Element
  <2>2. Reads(op, x) = [n \in 1..(Len(op.ins) + 1) |->
                          IF n <= Len(op.ins) THEN Element(op.ins[n], x)
                          ELSE <<op.out, x>>]
    BY <1>1 DEF Reads
  <2>3. Loads(x) = [n \in 1..(Len(op.ins) + 1) |->
                      IF n <= Len(op.ins) THEN <<op.ins[n].buf, x>>
                      ELSE <<op.out, x>>]
    BY <1>1 DEF Loads
  <2>4. \A n \in 1..(Len(op.ins) + 1) : n <= Len(op.ins) => n \in 1..Len(op.ins)
    BY DEF WellFormed
  <2> QED
    BY <2>1, <2>2, <2>3, <2>4
<1>2. CASE op.kind = "fill"
  BY <1>2 DEF Loads, Reads
<1>3. CASE op.kind = "matmul"
  <2>1. \A i : Element(op.ins[1], i) = <<op.ins[1].buf, i>>
    BY <1>3 DEF WellFormed, Element
  <2>2. \A i : Element(op.ins[2], i) = <<op.ins[2].buf, i>>
    BY <1>3 DEF WellFormed, Element
  <2> QED
    BY <1>3, <2>1, <2>2 DEF Loads, Reads
<1> QED
  BY <1>1, <1>2, <1>3 DEF WellFormed

\* No iteration loads the element another one stores.
LEMMA NoInterference ==
  ASSUME WellFormed(op), NEW x, NEW y, x # y, NEW n \in DOMAIN Loads(x)
  PROVE  Loads(x)[n][1] # op.out \/ Loads(x)[n][2] # y
<1>1. CASE op.kind = "elementwise"
  BY <1>1 DEF WellFormed, Loads
<1>2. CASE op.kind = "fill"
  BY <1>2 DEF WellFormed, Loads
<1>3. CASE op.kind = "matmul"
  <2>1. n \in 1..(2 * op.depth + 1) /\ op.depth \in Nat
    BY <1>3 DEF WellFormed, Loads
  <2>2. n = 1 \/ (n > 1 /\ n % 2 = 0) \/ (n > 1 /\ n % 2 = 1)
    BY <2>1
  <2>3. CASE n = 1
    BY <1>3, <2>1, <2>3 DEF Loads
  <2>4. CASE n > 1 /\ n % 2 = 0
    <3>1. Loads(x)[n][1] = op.ins[1].buf
      BY <1>3, <2>1, <2>4 DEF Loads
    <3> QED
      BY <1>3, <3>1 DEF WellFormed
  <2>5. CASE n > 1 /\ n % 2 = 1
    <3>1. Loads(x)[n][1] = op.ins[2].buf
      BY <1>3, <2>1, <2>5 DEF Loads
    <3> QED
      BY <1>3, <3>1 DEF WellFormed
  <2> QED
    BY <2>2, <2>3, <2>4, <2>5
<1> QED
  BY <1>1, <1>2, <1>3 DEF WellFormed

\* What an iteration loads next is what the memory before the nest held.
LEMMA LoadsOldValue ==
  ASSUME WellFormed(op), NEW S, NEW x \in Index, x \notin S,
         NEW n \in DOMAIN Loads(x)
  PROVE  MemoryAfter(S)[Loads(x)[n][1]][Loads(x)[n][2]] = Values(x)[n]
<1> DEFINE b == Loads(x)[n][1]
           i == Loads(x)[n][2]
<1>1. Values(x)[n] = Distinct[b][i]
  BY DEF Values, Fetch
<1>2. CASE b # op.out
  BY <1>1, <1>2 DEF MemoryAfter
<1>3. CASE b = op.out
  <2>1. i = x
    BY <1>3, NoInterference
  <2> QED
    BY <1>1, <1>3, <2>1 DEF MemoryAfter, WellFormed, Distinct
<1> QED
  BY <1>2, <1>3

\* What depends on the op alone stays while the op does.
LEMMA SameOp ==
  ASSUME op' = op
  PROVE  /\ Iterations' = Iterations
         /\ Matches' = Matches
         /\ \A x : Loads(x)' = Loads(x)
         /\ \A x : Values(x)' = Values(x)
         /\ \A S : MemoryAfter(S)' = MemoryAfter(S)
<1>1. Iterations' = Iterations
  BY DEF Iterations
<1>2. Matches' = Matches
  BY DEF Matches, allIdentityMaps
<1>3. \A x : Loads(x)' = Loads(x)
  BY DEF Loads
<1>4. \A x : Values(x)' = Values(x)
  BY <1>3 DEF Values, Fetch
<1>5. \A S : MemoryAfter(S)' = MemoryAfter(S)
  BY <1>4 DEF MemoryAfter, Compute
<1> QED
  BY <1>1, <1>2, <1>3, <1>4, <1>5

\* The specification of the op is the same seen through the instance.
LEMMA SameSemantics ==
  /\ Atomic!Distinct = Distinct
  /\ \A o, m : Atomic!Perform(o, m) = Perform(o, m)
<1>1. Atomic!Index = Index
  BY DEF Atomic!Index, Index
<1>2. \A o : Atomic!Space(o) = Space(o)
  BY <1>1 DEF Atomic!Space, Space
<1>3. \A o, x : Atomic!Reads(o, x) = Reads(o, x)
  BY DEF Atomic!Reads, Reads, Atomic!Element, Element
<1>4. \A o, x, m : Atomic!Compute(o, Atomic!Fetch(m, Atomic!Reads(o, x)))
                    = Compute(o, Fetch(m, Reads(o, x)))
  BY <1>3 DEF Atomic!Compute, Compute, Atomic!Fetch, Fetch
<1>5. \A o, m : Atomic!Perform(o, m) = Perform(o, m)
  BY <1>1, <1>2, <1>4 DEF Atomic!Perform, Perform
<1>6. Atomic!Distinct = Distinct
  BY <1>1 DEF Atomic!Distinct, Distinct
<1> QED
  BY <1>5, <1>6

LEMMA InitInv == (\A o \in Ops : WellFormed(o)) /\ Init => Inv
BY DEF Init, Inv

LEMMA NextInv ==
  ASSUME \A o \in Ops : WellFormed(o), Inv, [Next]_vars
  PROVE  Inv'
<1>1. WellFormed(op) /\ op \in Ops
  BY DEF Inv
<1>2. ASSUME Lower PROVE Inv'
  <2>1. mem = MemoryAfter({})
    BY <1>1, <1>2 DEF Lower, Inv, MemoryAfter, WellFormed, Distinct
  <2>2. \A x \in Iterations : Prefix(x)
    <3> SUFFICES ASSUME NEW x \in Iterations PROVE Prefix(x)
      OBVIOUS
    <3>1. got[x] = <<>>
      BY <1>2 DEF Lower, Inv
    <3>2. got[x] = [n \in 1..0 |-> Values(x)[n]]
      BY <3>1
    <3>3. 0 \in 0..Len(Loads(x))
      BY <1>1, LoadsSequence
    <3> QED
      BY <3>2, <3>3 DEF Prefix
  <2> QED
    <3>1. /\ op' = op /\ phase' = "parallel" /\ mem' = mem /\ got' = got
          /\ stored' = stored /\ stored = {} /\ Matches
          /\ DOMAIN got = Iterations
      BY <1>2 DEF Lower, Inv
    <3>2. \A x \in Iterations : Prefix(x)'
      BY <2>2, <3>1, SameOp DEF Prefix
    <3> QED
      BY <1>1, <2>1, <3>1, <3>2, SameOp DEF Inv
<1>3. ASSUME Reject \/ LeaveUpstream PROVE Inv'
  BY <1>3 DEF Reject, LeaveUpstream, Inv, Iterations
<1>4. ASSUME Upstream PROVE Inv'
  BY <1>4 DEF Upstream, Inv, Iterations
<1>5. ASSUME NEW x \in Iterations, Load(x) PROVE Inv'
  <2>1. PICK k \in 0..Len(Loads(x)) : got[x] = [n \in 1..k |-> Values(x)[n]]
    BY <1>5 DEF Load, Inv, Prefix
  <2>2. Len(got[x]) = k /\ k + 1 \in 1..Len(Loads(x)) /\ k \in Nat
    BY <1>1, <1>5, <2>1, LoadsSequence DEF Load
  <2> DEFINE v == mem[Loads(x)[k + 1][1]][Loads(x)[k + 1][2]]
  <2>3. v = Values(x)[k + 1]
    <3>1. x \in Index /\ x \notin stored /\ mem = MemoryAfter(stored)
      BY <1>5 DEF Load, Inv, Iterations
    <3>2. k + 1 \in DOMAIN Loads(x)
      BY <1>1, <2>2, LoadsSequence
    <3> QED
      BY <1>1, <3>1, <3>2, LoadsOldValue
  <2>4. got' = [got EXCEPT ![x] = Append(got[x], v)]
    BY <1>5, <2>2 DEF Load
  <2>5. Append(got[x], v) = [n \in 1..(k + 1) |-> Values(x)[n]]
    BY <2>1, <2>2, <2>3
  <2>6. got'[x] = [n \in 1..(k + 1) |-> Values(x)[n]]
        /\ \A y \in Iterations : y # x => got'[y] = got[y]
    BY <1>5, <2>4, <2>5 DEF Inv
  <2>7. \A y \in Iterations :
          \E m \in 0..Len(Loads(y)) : got'[y] = [n \in 1..m |-> Values(y)[n]]
    <3> SUFFICES ASSUME NEW y \in Iterations
                 PROVE  \E m \in 0..Len(Loads(y)) :
                          got'[y] = [n \in 1..m |-> Values(y)[n]]
      OBVIOUS
    <3>1. CASE y = x
      <4>1. k + 1 \in 0..Len(Loads(x))
        BY <1>1, <2>2, LoadsSequence
      <4> QED
        BY <2>6, <3>1, <4>1
    <3>2. CASE y # x
      BY <1>5, <2>6, <3>2 DEF Load, Inv, Prefix
    <3> QED
      BY <3>1, <3>2
  <2>8. /\ op' = op /\ phase' = phase /\ mem' = mem /\ stored' = stored
        /\ DOMAIN got' = Iterations /\ phase = "parallel"
    BY <1>5, <2>4 DEF Load, Inv
  <2>9. \A y \in Iterations : Prefix(y)'
    BY <2>7, <2>8, SameOp DEF Prefix
  <2> QED
    BY <2>8, <2>9, SameOp DEF Inv
<1>6. ASSUME NEW x \in Iterations, Store(x) PROVE Inv'
  <2>1. PICK k \in 0..Len(Loads(x)) : got[x] = [n \in 1..k |-> Values(x)[n]]
    BY <1>6 DEF Store, Inv, Prefix
  <2>2. k = Len(Loads(x))
    BY <1>1, <1>6, <2>1, LoadsSequence DEF Store
  <2>3. got[x] = Values(x)
    BY <1>1, <2>1, <2>2, LoadsSequence DEF Values, Fetch
  <2>4. mem = MemoryAfter(stored) /\ x \in Index
    BY <1>6 DEF Store, Inv, Iterations
  <2>5. mem' = MemoryAfter(stored \cup {x})
    <3>1. mem' = [mem EXCEPT ![op.out][x] = Compute(op, Values(x))]
      BY <1>6, <2>3 DEF Store
    <3>2. op.out \in Buffer
      BY <1>1 DEF WellFormed
    <3> QED
      BY <2>4, <3>1, <3>2 DEF MemoryAfter, Distinct
  <2>6. /\ op' = op /\ phase' = phase /\ got' = got /\ phase = "parallel"
        /\ stored' = stored \cup {x} /\ stored' \subseteq Iterations
    BY <1>6 DEF Store, Inv
  <2>7. \A y \in Iterations : Prefix(y)'
    BY <2>6, SameOp DEF Inv, Prefix
  <2> QED
    BY <2>5, <2>6, <2>7, SameOp DEF Inv
<1>7. ASSUME Finish PROVE Inv'
  BY <1>7 DEF Finish, Inv, Iterations
<1>8. ASSUME UNCHANGED vars PROVE Inv'
  <2>1. \A x \in Iterations : Prefix(x) => Prefix(x)'
    BY <1>8, SameOp DEF vars, Prefix
  <2> QED
    BY <1>8, <2>1, SameOp DEF vars, Inv
<1> QED
  BY <1>2, <1>3, <1>4, <1>5, <1>6, <1>7, <1>8 DEF Next

\* Only the last step of a nest, or of the upstream pass, shows.
LEMMA NextRefines ==
  ASSUME \A o \in Ops : WellFormed(o), Inv, [Next]_vars
  PROVE  [Atomic!Do]_(Atomic!vars)
<1> USE DEF Atomic!vars
<1>1. WellFormed(op)
  BY DEF Inv
<1>2. ASSUME Finish PROVE Atomic!Do
  <2>1. mem = MemoryAfter(Iterations) /\ Matches
    BY <1>2 DEF Finish, Inv
  <2>2. MemoryAfter(Iterations) = Perform(op, Distinct)
    <3>1. \A x \in Iterations : Values(x) = Fetch(Distinct, Reads(op, x))
      BY <1>1, <2>1, LoadsAreReads DEF Values
    <3> QED
      BY <3>1, IterationsAreSpace DEF MemoryAfter, Perform
  <2> QED
    BY <1>2, <2>1, <2>2, SameSemantics DEF Finish, Atomic!Do
<1>3. ASSUME Upstream PROVE Atomic!Do
  BY <1>3, SameSemantics DEF Upstream, Inv, Atomic!Do
<1>4. ASSUME Lower \/ Reject \/ LeaveUpstream PROVE UNCHANGED Atomic!vars
  BY <1>4 DEF Lower, Reject, LeaveUpstream
<1>5. ASSUME NEW x, Load(x) \/ Store(x) PROVE UNCHANGED Atomic!vars
  BY <1>5 DEF Load, Store
<1>6. ASSUME UNCHANGED vars PROVE UNCHANGED Atomic!vars
  BY <1>6 DEF vars
<1> QED
  BY <1>2, <1>3, <1>4, <1>5, <1>6 DEF Next

LEMMA InvHolds ==
  ASSUME \A o \in Ops : WellFormed(o)
  PROVE  Spec => []Inv
<1>1. Inv /\ [Next]_vars => Inv'
  BY NextInv
<1>2. Init => Inv
  BY InitInv
<1> QED
  BY <1>1, <1>2, PTL DEF Spec

(***************************************************************************)
(* At every point of a nest's run, each of its iterations has loaded a     *)
(* prefix of what its op reads, with the values from before the nest.      *)
(***************************************************************************)
THEOREM NestLoadsOldValues ==
  ASSUME \A o \in Ops : WellFormed(o)
  PROVE  Spec => []LoadsOldValues
<1>1. Inv => LoadsOldValues
  <2> SUFFICES ASSUME Inv, phase = "parallel", NEW x \in Iterations
               PROVE  LET values == Fetch(Distinct, Reads(op, x))
                      IN  /\ Len(got[x]) <= Len(values)
                          /\ \A n \in 1..Len(got[x]) : got[x][n] = values[n]
    BY DEF LoadsOldValues
  <2>1. WellFormed(op) /\ Matches
    BY DEF Inv
  <2>2. Fetch(Distinct, Reads(op, x)) = Values(x)
    BY <2>1, LoadsAreReads DEF Values
  <2>3. Len(Values(x)) = Len(Loads(x)) /\ Len(Loads(x)) \in Nat
    BY <2>1, LoadsSequence DEF Values, Fetch
  <2>4. PICK k \in 0..Len(Loads(x)) : got[x] = [n \in 1..k |-> Values(x)[n]]
    BY DEF Inv, Prefix
  <2>5. Len(got[x]) = k /\ \A n \in 1..k : got[x][n] = Values(x)[n]
    BY <2>3, <2>4
  <2> QED
    BY <2>2, <2>3, <2>4, <2>5
<1> QED
  BY <1>1, InvHolds, PTL

\* The length of what an iteration has loaded is a number.
LEMMA GotLength ==
  ASSUME \A o \in Ops : WellFormed(o), Inv, phase = "parallel",
         NEW x \in Iterations
  PROVE  Len(got[x]) \in Nat
<1>1. PICK k \in 0..Len(Loads(x)) : got[x] = [n \in 1..k |-> Values(x)[n]]
  BY DEF Inv, Prefix
<1>2. Len(Loads(x)) \in Nat
  BY LoadsSequence DEF Inv
<1> QED
  BY <1>1, <1>2

\* No step lets an iteration load an element another one has overwritten.
LEMMA NextNoRace ==
  ASSUME \A o \in Ops : WellFormed(o), Inv, Next, NEW x \in Iterations,
         Len(got[x]') > Len(got[x]), NEW y \in stored
  PROVE  Loads(x)[Len(got[x]')] # <<op.out, y>>
<1>1. WellFormed(op)
  BY DEF Inv
<1>2. ASSUME NEW z \in Iterations, Load(z)
      PROVE  Loads(x)[Len(got[x]')] # <<op.out, y>>
  <2>1. phase = "parallel" /\ z \notin stored /\ Len(got[z]) < Len(Loads(z))
    BY <1>2 DEF Load
  <2>2. z = x
    <3> SUFFICES ASSUME z # x PROVE FALSE
      OBVIOUS
    <3>1. got'[x] = got[x]
      BY <1>2 DEF Load, Inv
    <3> QED
      BY <2>1, <3>1, GotLength
  <2>3. PICK v : got' = [got EXCEPT ![x] = Append(got[x], v)]
    BY <1>2, <2>2 DEF Load
  <2>4. PICK k \in 0..Len(Loads(x)) : got[x] = [n \in 1..k |-> Values(x)[n]]
    BY <2>1 DEF Inv, Prefix
  <2>5. k \in Nat /\ Len(got[x]) = k /\ k + 1 \in DOMAIN Loads(x)
    BY <1>1, <2>1, <2>2, <2>4, LoadsSequence
  <2>6. Len(got'[x]) = k + 1
    <3>1. got'[x] = Append(got[x], v)
      BY <2>3 DEF Inv
    <3>2. Append(got[x], v) = [n \in 1..(k + 1) |->
                                 IF n = k + 1 THEN v ELSE Values(x)[n]]
      BY <2>4, <2>5
    <3> QED
      BY <2>5, <3>1, <3>2
  <2>7. x # y
    BY <2>1, <2>2
  <2>8. Loads(x)[k + 1][1] # op.out \/ Loads(x)[k + 1][2] # y
    BY <1>1, <2>5, <2>7, NoInterference
  <2> QED
    BY <2>6, <2>8
<1>3. ASSUME NEW z \in Iterations, Store(z) PROVE FALSE
  BY <1>3, GotLength DEF Store
<1>4. ASSUME Lower PROVE FALSE
  BY <1>4 DEF Lower, Inv
<1>5. ASSUME Reject \/ LeaveUpstream \/ Upstream PROVE FALSE
  BY <1>5 DEF Reject, LeaveUpstream, Upstream, Inv
<1>6. ASSUME Finish PROVE FALSE
  BY <1>6, GotLength DEF Finish
<1> QED
  BY <1>2, <1>3, <1>4, <1>5, <1>6 DEF Next

(***************************************************************************)
(* The iterations of a nest are independent, whatever their order: what an *)
(* iteration loads has not been overwritten by another's store.            *)
(***************************************************************************)
THEOREM IterationsDoNotRace ==
  ASSUME \A o \in Ops : WellFormed(o)
  PROVE  Spec => NoRace
<1>1. Inv /\ [Next]_vars =>
        [\A x \in Iterations :
           Len(got[x]') > Len(got[x]) =>
             \A y \in stored : Loads(x)[Len(got[x]')] # <<op.out, y>>]_vars
  BY NextNoRace
<1> QED
  BY <1>1, InvHolds, PTL DEF Spec, NoRace

(***************************************************************************)
(* A linalg op lowered by CustomLinalgToParallelLoops changes memory as    *)
(* the op itself does, all at once, whatever the order of its iterations.  *)
(***************************************************************************)
THEOREM ParallelLoopsImplementLinalg ==
  ASSUME \A o \in Ops : WellFormed(o)
  PROVE  Spec => LoweringIsAtomic
<1>1. Init => Atomic!Init
  BY SameSemantics DEF Init, Atomic!Init
<1>2. Inv /\ [Next]_vars => [Atomic!Do]_(Atomic!vars)
  BY NextRefines
<1> QED
  BY <1>1, <1>2, InvHolds, PTL DEF Spec, LoweringIsAtomic, Atomic!Spec
==============================================================================
