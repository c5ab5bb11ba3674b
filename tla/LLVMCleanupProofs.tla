------------------------- MODULE LLVMCleanupProofs -------------------------
(***************************************************************************)
(* For functions of every length: the cleanup pass leaves no op that uses  *)
(* an erased one, leaves what the source needs and no more, and the caller *)
(* cannot tell what is left from the source. Inductive are what the two    *)
(* lists may hold (Closed) and what is gone of the source (TrimInv); that  *)
(* nothing is noticed is an induction over the two runs, op by op.         *)
(***************************************************************************)
EXTENDS LLVMCleanup, WellFoundedInduction, TLAPS

Names == Defines \cup {"store", "return", "erased"}

\* A function: ops with operands by position.
IsFunction ==
  /\ prog \in Seq([op : Names, args : Seq(Nat)])
  /\ \A i \in DOMAIN prog : \A k \in DOMAIN prog[i].args :
       /\ prog[i].args[k] \in DOMAIN prog
       /\ prog[prog[i].args[k]].op \in Defines

Unused(i) == \A j \in DOMAIN prog : \A k \in DOMAIN prog[j].args :
               prog[j].args[k] # i

\* What the two walks may have collected.
ListsUnused ==
  /\ phase = "eraseStores" =>
       \A u \in dead : u[1] \in DOMAIN prog /\ prog[u[1]].op \in {"store", "erased"}
  /\ phase = "eraseOps" => \A i \in dead : i \in DOMAIN prog /\ Unused(i)

Closed == IsFunction /\ ListsUnused

\* An operand is a user: Users finds every use.
LEMMA UsersComplete ==
  ASSUME IsFunction, NEW j \in DOMAIN prog, NEW k \in DOMAIN prog[j].args
  PROVE  <<j, k>> \in Users(prog, prog[j].args[k])
  BY DEF Users

\* A user is an op of the function: Users finds nothing else.
LEMMA UsersSound ==
  ASSUME NEW v, NEW u \in Users(prog, v)
  PROVE  u[1] \in DOMAIN prog
  BY DEF Users

\* Erasing an op nobody uses keeps the function and what is unused so.
LEMMA EraseUnused ==
  ASSUME IsFunction, NEW i \in DOMAIN prog, Unused(i), Erase(i)
  PROVE  /\ IsFunction'
         /\ DOMAIN prog' = DOMAIN prog
         /\ \A j \in DOMAIN prog : Unused(j) => Unused(j)'
         /\ \A j \in DOMAIN prog : prog'[j].op = IF j = i THEN "erased" ELSE prog[j].op
<1>1. /\ DOMAIN prog' = DOMAIN prog
      /\ prog'[i] = Erased
      /\ \A j \in DOMAIN prog \ {i} : prog'[j] = prog[j]
      /\ Erased.op = "erased" /\ Erased.args = <<>>
  BY DEF Erase, IsFunction, Erased, Op
<1>2. prog' \in Seq([op : Names, args : Seq(Nat)])
  <2>1. Erased \in [op : Names, args : Seq(Nat)]
    BY DEF Erased, Op, Names
  <2> QED BY <2>1 DEF Erase, IsFunction
<1>3. \A j \in DOMAIN prog : \A k \in DOMAIN prog'[j].args :
        /\ j # i /\ k \in DOMAIN prog[j].args
        /\ prog'[j].args[k] = prog[j].args[k]
        /\ prog[j].args[k] # i
  BY <1>1 DEF Unused
<1>4. IsFunction'
  BY <1>1, <1>2, <1>3 DEF IsFunction
<1>5. \A j \in DOMAIN prog : Unused(j) => Unused(j)'
  BY <1>1, <1>3 DEF Unused
<1> QED BY <1>1, <1>4, <1>5

\* A new op whose operands are values of the function keeps the function.
LEMMA EmitKeepsFunction ==
  ASSUME IsFunction, NEW kind \in Names, NEW args \in Seq(Values),
         Emit(kind, args)
  PROVE  IsFunction'
<1>1. Values \subseteq Nat
  BY DEF Values, IsFunction
<1>2. DEFINE o == Op(kind, args)
<1>3. /\ o \in [op : Names, args : Seq(Nat)]
      /\ \A k \in DOMAIN o.args : o.args[k] \in Values
  <2>1. args \in Seq(Nat) /\ \A k \in DOMAIN args : args[k] \in Values
    <3>1. \A k \in 1..Len(args) : args[k] \in Values
      OBVIOUS
    <3>2. DOMAIN args = 1..Len(args) /\ Len(args) \in Nat
      OBVIOUS
    <3>3. args = [k \in 1..Len(args) |-> args[k]]
      OBVIOUS
    <3> QED BY <1>1, <3>1, <3>2, <3>3
  <2>2. o = [op |-> kind, args |-> args]
    BY DEF Op
  <2> HIDE DEF o
  <2> QED BY <2>1, <2>2
<1>4. prog' = Append(prog, o)
  BY DEF Emit
<1> HIDE DEF o
<1>5. prog' \in Seq([op : Names, args : Seq(Nat)])
  BY <1>3, <1>4 DEF IsFunction
<1>6. /\ DOMAIN prog' = (DOMAIN prog) \cup {Len(prog) + 1}
      /\ prog'[Len(prog) + 1] = o
      /\ \A j \in DOMAIN prog : prog'[j] = prog[j]
  BY <1>3, <1>4 DEF IsFunction
<1> QED BY <1>3, <1>5, <1>6 DEF IsFunction, Values

-----------------------------------------------------------------------------
LEMMA InitClosed == Init => Closed
  BY DEF Init, Closed, IsFunction, ListsUnused, Op, Names, Defines

LEMMA NextClosed == Closed /\ [Next]_vars => Closed'
<1> SUFFICES ASSUME Closed, [Next]_vars PROVE Closed'
  OBVIOUS
<1> USE DEF Closed
<1>1. CASE AddOp
  <2>1. PICK kind \in Names, args \in Seq(Values) : Emit(kind, args)
    <3>1. CASE \E kind \in {"alloca", "const"} : Emit(kind, <<>>)
      <4>1. PICK kind \in {"alloca", "const"} : Emit(kind, <<>>)
        BY <3>1
      <4>2. kind \in Names /\ <<>> \in Seq(Values)
        BY DEF Names, Defines
      <4> QED BY <4>1, <4>2
    <3>2. CASE \E kind \in {"load", "gep", "add", "call"}, v \in Values :
                 Emit(kind, <<v>>)
      <4>1. PICK kind \in {"load", "gep", "add", "call"}, v \in Values :
               Emit(kind, <<v>>)
        BY <3>2
      <4>2. kind \in Names /\ <<v>> \in Seq(Values)
        BY DEF Names, Defines
      <4> QED BY <4>1, <4>2
    <3>3. CASE \E v \in Values, p \in Values : Emit("store", <<v, p>>)
      <4>1. PICK v \in Values, p \in Values : Emit("store", <<v, p>>)
        BY <3>3
      <4>2. <<v, p>> \in Seq(Values) /\ "store" \in Names
        BY DEF Names
      <4> QED BY <4>1, <4>2
    <3> QED BY <1>1, <3>1, <3>2, <3>3 DEF AddOp
  <2> QED BY <1>1, <2>1, EmitKeepsFunction DEF AddOp, ListsUnused
<1>2. CASE AddReturn
  <2>1. PICK v \in Values : Emit("return", <<v>>)
    BY <1>2 DEF AddReturn
  <2>2. "return" \in Names /\ <<v>> \in Seq(Values)
    BY DEF Names
  <2> QED BY <1>2, <2>1, <2>2, EmitKeepsFunction DEF AddReturn, ListsUnused
<1>3. CASE CollectDeadStores
  <2>1. \A u \in DeadStores : u[1] \in DOMAIN prog /\ prog[u[1]].op = "store"
    BY UsersSound DEF DeadStores
  <2> QED BY <1>3, <2>1 DEF CollectDeadStores, ListsUnused, IsFunction
<1>4. CASE EraseStore
  <2>1. PICK u \in dead :
          /\ dead' = dead \ {u}
          /\ IF prog[u[1]] = Erased
             THEN phase' = "doubleErase" /\ UNCHANGED prog
             ELSE Erase(u[1]) /\ UNCHANGED phase
    BY <1>4 DEF EraseStore
  <2>2. phase = "eraseStores" /\ u[1] \in DOMAIN prog
        /\ prog[u[1]].op \in {"store", "erased"}
    BY <1>4 DEF EraseStore, ListsUnused
  <2>3. Unused(u[1])
    BY <2>2 DEF IsFunction, Unused, Defines
  <2>4. CASE prog[u[1]] = Erased
    BY <2>1, <2>4 DEF IsFunction, ListsUnused
  <2>5. CASE prog[u[1]] # Erased
    BY <2>1, <2>2, <2>3, <2>5, EraseUnused DEF ListsUnused
  <2> QED BY <2>4, <2>5
<1>5. CASE CollectDeadOps
  <2>1. \A i \in DeadOps : i \in DOMAIN prog /\ Unused(i)
    BY UsersComplete DEF DeadOps, Unused
  <2> QED BY <1>5, <2>1 DEF CollectDeadOps, ListsUnused, IsFunction, Unused
<1>6. CASE EraseOp
  <2>1. PICK i \in dead : Erase(i) /\ dead' = dead \ {i}
    BY <1>6 DEF EraseOp
  <2>2. phase = "eraseOps" /\ phase' = phase
    BY <1>6 DEF EraseOp
  <2> QED BY <2>1, <2>2, EraseUnused DEF ListsUnused
<1>7. CASE EndStores \/ EndRound \/ EndPass
  BY <1>7 DEF EndStores, EndRound, EndPass, ListsUnused, IsFunction
<1>8. CASE UNCHANGED vars
  BY <1>8 DEF vars, ListsUnused, IsFunction, Unused
<1> QED BY <1>1, <1>2, <1>3, <1>4, <1>5, <1>6, <1>7, <1>8 DEF Next, Pass

(***************************************************************************)
(* No op uses an erased one at any point of the pass, for functions of     *)
(* every length (eliminateDeadStores and eliminateDeadOps erase from lists *)
(* they do not look at again).                                             *)
(***************************************************************************)
THEOREM OperandsSurvive == Spec => []NoUseOfErased
<1>1. Closed => NoUseOfErased
  BY DEF Closed, IsFunction, NoUseOfErased, Defines
<1> QED BY <1>1, InitClosed, NextClosed, PTL DEF Spec

-----------------------------------------------------------------------------
(***************************************************************************)
(* The function the pass was given, and what it has erased of it so far.   *)
(***************************************************************************)
Arity(op) == CASE op \in {"param", "alloca", "const"}               -> 0
               [] op \in {"load", "gep", "add", "call", "return"} -> 1
               [] op = "store"                                    -> 2

\* Operands are values defined before; the first op is the parameter.
WellFormed(p) ==
  /\ p \in Seq([op : Names \ {"erased"}, args : Seq(Nat)])
  /\ Len(p) \in 1..MaxOps
  /\ \A i \in DOMAIN p : /\ p[i].op = "param" <=> i = 1
                         /\ p[i].op = "return" => i = Len(p)
                         /\ Len(p[i].args) = Arity(p[i].op)
                         /\ \A k \in DOMAIN p[i].args :
                              /\ p[i].args[k] \in 1..(i - 1)
                              /\ p[p[i].args[k]].op \in Defines

\* The slots only stores use, in whatever place: what the pass takes for slots
\* nobody reads.
OnlyStored == {a \in DOMAIN source :
                 /\ source[a].op = "alloca"
                 /\ \A u \in Users(source, a) : source[u[1]].op = "store"}

\* A store to, or of, such a slot.
IsDeadStore(i) ==
  source[i].op = "store" /\ \E k \in DOMAIN source[i].args :
                              source[i].args[k] \in OnlyStored

\* What is left is the source but for pure ops and dead stores.
Trimmed ==
  /\ DOMAIN prog = DOMAIN source
  /\ \A i \in DOMAIN source :
       \/ prog[i] = source[i]
       \/ prog[i] = Erased /\ (source[i].op \in EffectFree \/ IsDeadStore(i))

\* What a walk over the slots has found is still to go, and goes once unless
\* the function stores the address of a slot.
StoresListed ==
  /\ \A u \in dead :
       /\ u \in (DOMAIN source) \X {1, 2}
       /\ IsDeadStore(u[1])
       /\ ~StoresSlotAddress => u[2] = 2 /\ prog[u[1]] # Erased
  /\ \A i \in DOMAIN source : IsDeadStore(i) =>
       prog[i] = Erased \/ \E u \in dead : u[1] = i

StoresGone == \A i \in DOMAIN source : IsDeadStore(i) => prog[i] = Erased

TrimInv ==
  /\ phase \in {"build", "stores", "eraseStores", "ops", "eraseOps", "done",
                "doubleErase"}
  /\ phase = "build" => /\ WellFormed(prog) /\ Len(prog) < MaxOps
                        /\ \A i \in DOMAIN prog : prog[i].op # "return"
  /\ phase # "build" => /\ WellFormed(source)
                        /\ source[Len(source)].op = "return"
                        /\ Trimmed
  /\ phase = "stores" => prog = source
  /\ phase = "eraseStores" => StoresListed
  /\ phase \in {"ops", "eraseOps", "done"} => StoresGone
  /\ phase = "eraseOps" => \A i \in dead : prog[i].op \in EffectFree
  /\ phase = "done" => DeadOps = {}
  /\ phase = "doubleErase" => StoresSlotAddress

LEMMA InitTrim == Init => TrimInv
<1> SUFFICES ASSUME Init PROVE TrimInv
  OBVIOUS
<1>1. /\ Len(prog) = 1 /\ DOMAIN prog = {1}
      /\ prog[1].op = "param" /\ prog[1].args = <<>>
      /\ prog \in Seq([op : Names \ {"erased"}, args : Seq(Nat)])
  BY DEF Init, Op, Names, Defines
<1>2. Len(<<>>) = 0 /\ DOMAIN <<>> = {} /\ Arity("param") = 0
  BY DEF Arity
<1> QED
  BY <1>1, <1>2, CleanupAssumption DEF Init, TrimInv, WellFormed

\* A new op at the end of a function under construction.
LEMMA EmitKeepsWellFormed ==
  ASSUME WellFormed(prog), Len(prog) < MaxOps,
         \A i \in DOMAIN prog : prog[i].op # "return",
         NEW kind \in Names \ {"erased", "param"}, NEW args \in Seq(Values),
         Len(args) = Arity(kind), Emit(kind, args)
  PROVE  /\ WellFormed(prog')
         /\ Len(prog') = Len(prog) + 1
         /\ prog'[Len(prog')].op = kind
         /\ \A i \in DOMAIN prog' : prog'[i].op = "return" => kind = "return"
<1>1. /\ Values \subseteq 1..Len(prog)
      /\ \A v \in Values : prog[v].op \in Defines
  BY DEF Values, WellFormed
<1> DEFINE o == Op(kind, args)
           n == Len(prog)
<1>2. n \in Nat /\ n < MaxOps /\ n >= 1 /\ MaxOps \in Nat /\ DOMAIN prog = 1..n
  BY CleanupAssumption DEF WellFormed
<1>3. /\ o.op = kind /\ o.args = args
      /\ o \in [op : Names \ {"erased"}, args : Seq(Nat)]
  <2>1. \A k \in 1..Len(args) : args[k] \in Values
    OBVIOUS
  <2>2. DOMAIN args = 1..Len(args) /\ Len(args) \in Nat
        /\ args = [k \in 1..Len(args) |-> args[k]]
    OBVIOUS
  <2>3. args \in Seq(Nat)
    BY <1>1, <2>1, <2>2
  <2> QED
    BY <2>3 DEF Op
<1>4. \A k \in DOMAIN args : args[k] \in 1..n /\ prog[args[k]].op \in Defines
  <2>1. \A k \in 1..Len(args) : args[k] \in Values
    OBVIOUS
  <2>2. DOMAIN args = 1..Len(args)
    OBVIOUS
  <2> QED
    BY <1>1, <2>1, <2>2
<1>5. prog' = Append(prog, o)
  BY DEF Emit
<1> HIDE DEF o
<1>6. /\ prog' \in Seq([op : Names \ {"erased"}, args : Seq(Nat)])
      /\ Len(prog') = n + 1 /\ DOMAIN prog' = 1..(n + 1)
      /\ prog'[n + 1] = o
      /\ \A j \in 1..n : prog'[j] = prog[j]
  BY <1>2, <1>3, <1>5 DEF WellFormed
<1> HIDE DEF n
<1>7. Len(prog') \in 1..MaxOps
  BY <1>2, <1>6
<1>8. ASSUME NEW i \in DOMAIN prog'
      PROVE  /\ prog'[i].op = "param" <=> i = 1
             /\ prog'[i].op = "return" => i = Len(prog') /\ kind = "return"
             /\ Len(prog'[i].args) = Arity(prog'[i].op)
             /\ \A k \in DOMAIN prog'[i].args :
                  /\ prog'[i].args[k] \in 1..(i - 1)
                  /\ prog'[prog'[i].args[k]].op \in Defines
  <2>1. CASE i = n + 1
    <3>1. /\ prog'[i].op = kind /\ prog'[i].args = args
          /\ i # 1 /\ i - 1 = n /\ Len(prog') = i
      BY <1>2, <1>3, <1>6, <2>1
    <3>2. \A k \in DOMAIN args : prog'[args[k]].op \in Defines
      BY <1>4, <1>6
    <3> QED
      BY <1>4, <3>1, <3>2
  <2>2. CASE i \in 1..n
    <3>1. /\ prog[i].op = "param" <=> i = 1
          /\ prog[i].op # "return"
          /\ Len(prog[i].args) = Arity(prog[i].op)
          /\ \A k \in DOMAIN prog[i].args :
               /\ prog[i].args[k] \in 1..(i - 1)
               /\ prog[prog[i].args[k]].op \in Defines
      BY <1>2, <2>2 DEF WellFormed
    <3>2. \A j \in 1..(i - 1) : j \in 1..n
      BY <1>2, <2>2
    <3> QED
      BY <1>6, <2>2, <3>1, <3>2
  <2> QED
    BY <1>2, <1>6, <2>1, <2>2
<1> QED
  BY <1>3, <1>6, <1>7, <1>8 DEF WellFormed, n

\* What the source says of its slots stands while the source does.
LEMMA SourceStands ==
  ASSUME UNCHANGED source
  PROVE  /\ OnlyStored' = OnlyStored
         /\ \A i : IsDeadStore(i)' <=> IsDeadStore(i)
         /\ StoresSlotAddress' <=> StoresSlotAddress
<1>1. OnlyStored' = OnlyStored
  BY DEF OnlyStored
<1> QED
  BY <1>1 DEF IsDeadStore, StoresSlotAddress

\* An erasure within bounds leaves the function trimmed.
LEMMA EraseKeepsTrimmed ==
  ASSUME WellFormed(source), Trimmed, UNCHANGED source, NEW i \in DOMAIN source,
         source[i].op \in EffectFree \/ IsDeadStore(i), Erase(i)
  PROVE  /\ Trimmed'
         /\ prog'[i] = Erased
         /\ \A j \in DOMAIN source : j # i => prog'[j] = prog[j]
<1>1. /\ DOMAIN prog' = DOMAIN prog
      /\ prog'[i] = Erased
      /\ \A j \in DOMAIN source : j # i => prog'[j] = prog[j]
  BY DEF Erase, Trimmed
<1> QED
  BY <1>1, SourceStands DEF Trimmed

LEMMA NextTrim == Closed /\ TrimInv /\ [Next]_vars => TrimInv'
<1> SUFFICES ASSUME Closed, TrimInv, [Next]_vars PROVE TrimInv'
  OBVIOUS
<1>1. CASE AddOp
  <2>1. /\ phase = "build" /\ WellFormed(prog) /\ Len(prog) + 1 < MaxOps
        /\ \A i \in DOMAIN prog : prog[i].op # "return"
        /\ phase' = "build"
    BY <1>1 DEF AddOp, TrimInv
  <2>2. PICK kind \in Names \ {"erased", "param", "return"}, args \in Seq(Values) :
          Len(args) = Arity(kind) /\ Emit(kind, args)
    <3>1. CASE \E kind \in {"alloca", "const"} : Emit(kind, <<>>)
      <4>1. PICK kind \in {"alloca", "const"} : Emit(kind, <<>>)
        BY <3>1
      <4>2. kind \in Names \ {"erased", "param", "return"} /\ <<>> \in Seq(Values)
        BY DEF Names, Defines
      <4>3. Len(<<>>) = Arity(kind)
        BY DEF Arity
      <4> QED BY <4>1, <4>2, <4>3
    <3>2. CASE \E kind \in {"load", "gep", "add", "call"}, v \in Values :
                 Emit(kind, <<v>>)
      <4>1. PICK kind \in {"load", "gep", "add", "call"}, v \in Values :
               Emit(kind, <<v>>)
        BY <3>2
      <4>2. kind \in Names \ {"erased", "param", "return"} /\ <<v>> \in Seq(Values)
        BY DEF Names, Defines
      <4>3. Len(<<v>>) = Arity(kind)
        BY DEF Arity
      <4> QED BY <4>1, <4>2, <4>3
    <3>3. CASE \E v \in Values, p \in Values : Emit("store", <<v, p>>)
      <4>1. PICK v \in Values, p \in Values : Emit("store", <<v, p>>)
        BY <3>3
      <4>2. <<v, p>> \in Seq(Values) /\ "store" \in Names
        BY DEF Names
      <4>3. Len(<<v, p>>) = Arity("store")
        BY DEF Arity
      <4> QED BY <4>1, <4>2, <4>3
    <3> QED BY <1>1, <3>1, <3>2, <3>3 DEF AddOp
  <2>3. Len(prog) \in Nat /\ MaxOps \in Nat
    BY <2>1, CleanupAssumption DEF WellFormed
  <2>4. /\ WellFormed(prog') /\ Len(prog') = Len(prog) + 1
        /\ \A i \in DOMAIN prog' : prog'[i].op # "return"
    BY <2>1, <2>2, <2>3, EmitKeepsWellFormed
  <2> QED BY <2>1, <2>4 DEF TrimInv
<1>2. CASE AddReturn
  <2>1. /\ phase = "build" /\ WellFormed(prog) /\ Len(prog) < MaxOps
        /\ \A i \in DOMAIN prog : prog[i].op # "return"
        /\ phase' = "stores" /\ source' = prog'
    BY <1>2 DEF AddReturn, TrimInv
  <2>2. PICK v \in Values : Emit("return", <<v>>)
    BY <1>2 DEF AddReturn
  <2>3. /\ "return" \in Names \ {"erased", "param"} /\ <<v>> \in Seq(Values)
        /\ Len(<<v>>) = Arity("return")
    BY DEF Names, Arity
  <2>4. WellFormed(prog') /\ prog'[Len(prog')].op = "return"
    BY <2>1, <2>2, <2>3, EmitKeepsWellFormed
  <2> QED BY <2>1, <2>4 DEF TrimInv, Trimmed
<1>3. CASE CollectDeadStores
  <2>1. /\ phase = "stores" /\ phase' = "eraseStores" /\ dead' = DeadStores
        /\ UNCHANGED <<prog, source>>
        /\ prog = source /\ WellFormed(source)
    BY <1>3 DEF CollectDeadStores, TrimInv
  <2>2. {b \in Slots : ~hasLoad(b)} = OnlyStored
    BY <2>1 DEF Slots, hasLoad, OnlyStored
  <2>3. DeadStores = UNION {{u \in Users(source, a) : source[u[1]].op = "store"} :
                              a \in OnlyStored}
    BY <2>1, <2>2 DEF DeadStores
  <2>4. ASSUME NEW u \in DeadStores
        PROVE  /\ u \in (DOMAIN source) \X {1, 2}
               /\ IsDeadStore(u[1])
               /\ ~StoresSlotAddress => u[2] = 2 /\ source[u[1]] # Erased
    <3>1. PICK a \in OnlyStored : u \in Users(source, a) /\ source[u[1]].op = "store"
      BY <2>3
    <3>7. PICK i \in DOMAIN source :
            \E k \in DOMAIN source[i].args : u = <<i, k>> /\ source[i].args[k] = a
      BY <3>1 DEF Users
    <3>2. PICK k \in DOMAIN source[i].args : u = <<i, k>> /\ source[i].args[k] = a
      BY <3>7
    <3>3. source[i].op = "store" /\ Len(source[i].args) = 2
      BY <2>1, <3>1, <3>2 DEF WellFormed, Arity
    <3>4. k \in {1, 2}
      BY <2>1, <3>3, <3>2 DEF WellFormed
    <3>5. source[i] # Erased /\ source[a].op = "alloca"
      BY <3>3, <3>1 DEF Erased, Op, OnlyStored
    <3>6. ~StoresSlotAddress => k = 2
      BY <3>2, <3>3, <3>4, <3>5 DEF StoresSlotAddress
    <3> QED BY <3>1, <3>2, <3>3, <3>4, <3>5, <3>6 DEF IsDeadStore
  <2>5. ASSUME NEW i \in DOMAIN source, IsDeadStore(i)
        PROVE  \E u \in DeadStores : u[1] = i
    <3>1. PICK k \in DOMAIN source[i].args :
            source[i].op = "store" /\ source[i].args[k] \in OnlyStored
      BY <2>5 DEF IsDeadStore
    <3>2. <<i, k>> \in Users(source, source[i].args[k])
      BY <3>1 DEF Users
    <3>3. <<i, k>> \in DeadStores
      BY <2>3, <3>1, <3>2
    <3> QED BY <3>3
  <2>6. StoresListed'
    BY <2>1, <2>4, <2>5, SourceStands DEF StoresListed
  <2>7. Trimmed'
    BY <2>1 DEF Trimmed
  <2>8. source[Len(source)].op = "return"
    BY <2>1 DEF TrimInv
  <2> QED BY <2>1, <2>6, <2>7, <2>8 DEF TrimInv
<1>4. CASE EraseStore
  <2>1. /\ phase = "eraseStores" /\ UNCHANGED source
        /\ WellFormed(source) /\ Trimmed /\ StoresListed
        /\ source[Len(source)].op = "return"
    BY <1>4 DEF EraseStore, TrimInv
  <2>2. PICK u \in dead :
          /\ dead' = dead \ {u}
          /\ IF prog[u[1]] = Erased
             THEN phase' = "doubleErase" /\ UNCHANGED prog
             ELSE Erase(u[1]) /\ UNCHANGED phase
    BY <1>4 DEF EraseStore
  <2>3. /\ u \in (DOMAIN source) \X {1, 2}
        /\ IsDeadStore(u[1])
        /\ ~StoresSlotAddress => prog[u[1]] # Erased
    BY <2>1, <2>2 DEF StoresListed
  <2>4. CASE prog[u[1]] = Erased
    <3>1. phase' = "doubleErase" /\ UNCHANGED prog /\ StoresSlotAddress
      BY <2>2, <2>3, <2>4
    <3>2. Trimmed' /\ StoresSlotAddress'
      BY <2>1, <3>1, SourceStands DEF Trimmed
    <3> QED BY <2>1, <3>1, <3>2 DEF TrimInv
  <2>5. CASE prog[u[1]] # Erased
    <3>1. Erase(u[1]) /\ phase' = "eraseStores"
      BY <2>1, <2>2, <2>5
    <3>2. /\ Trimmed'
          /\ prog'[u[1]] = Erased
          /\ \A j \in DOMAIN source : j # u[1] => prog'[j] = prog[j]
      BY <2>1, <2>3, <3>1, EraseKeepsTrimmed
    <3>3. ASSUME NEW w \in dead'
          PROVE  /\ w \in (DOMAIN source) \X {1, 2}
                 /\ IsDeadStore(w[1])
                 /\ ~StoresSlotAddress => w[2] = 2 /\ prog'[w[1]] # Erased
      <4>1. /\ w \in (DOMAIN source) \X {1, 2} /\ w # u
            /\ IsDeadStore(w[1])
            /\ ~StoresSlotAddress => w[2] = 2 /\ prog[w[1]] # Erased /\ u[2] = 2
        BY <2>1, <2>2 DEF StoresListed
      <4>2. w[2] = u[2] => w[1] # u[1]
        BY <2>3, <4>1
      <4> QED BY <3>2, <4>1, <4>2
    <3>4. \A i \in DOMAIN source : IsDeadStore(i) =>
            prog'[i] = Erased \/ \E w \in dead' : w[1] = i
      BY <2>1, <2>2, <3>2 DEF StoresListed
    <3>5. StoresListed'
      BY <2>1, <3>3, <3>4, SourceStands DEF StoresListed
    <3> QED BY <2>1, <3>1, <3>2, <3>5 DEF TrimInv
  <2> QED BY <2>4, <2>5
<1>5. CASE EndStores
  <2>1. /\ phase = "eraseStores" /\ phase' = "ops" /\ UNCHANGED <<prog, source>>
        /\ WellFormed(source) /\ Trimmed /\ StoresListed /\ dead = {}
        /\ source[Len(source)].op = "return"
    BY <1>5 DEF EndStores, TrimInv
  <2>2. StoresGone' /\ Trimmed'
    BY <2>1, SourceStands DEF StoresListed, StoresGone, Trimmed
  <2> QED BY <2>1, <2>2 DEF TrimInv
<1>6. CASE CollectDeadOps
  <2>1. /\ phase = "ops" /\ phase' = "eraseOps" /\ UNCHANGED <<prog, source>>
        /\ WellFormed(source) /\ Trimmed /\ StoresGone /\ dead' = DeadOps
        /\ source[Len(source)].op = "return"
    BY <1>6 DEF CollectDeadOps, TrimInv
  <2>2. StoresGone' /\ Trimmed'
    BY <2>1, SourceStands DEF StoresGone, Trimmed
  <2>3. \A i \in dead' : prog'[i].op \in EffectFree
    BY <2>1 DEF DeadOps
  <2> QED BY <2>1, <2>2, <2>3 DEF TrimInv
<1>7. CASE EraseOp
  <2>1. /\ phase = "eraseOps" /\ UNCHANGED <<source, phase>>
        /\ WellFormed(source) /\ Trimmed /\ StoresGone
        /\ source[Len(source)].op = "return"
        /\ \A i \in dead : i \in DOMAIN source /\ prog[i].op \in EffectFree
    BY <1>7 DEF EraseOp, TrimInv, Closed, ListsUnused, Trimmed
  <2>2. PICK i \in dead : Erase(i) /\ dead' = dead \ {i}
    BY <1>7 DEF EraseOp
  <2>3. source[i].op \in EffectFree
    BY <2>1 DEF Trimmed, Erased, Op, EffectFree
  <2>4. /\ Trimmed'
        /\ prog'[i] = Erased
        /\ \A j \in DOMAIN source : j # i => prog'[j] = prog[j]
    BY <2>1, <2>2, <2>3, EraseKeepsTrimmed
  <2>5. StoresGone'
    BY <2>1, <2>4, SourceStands DEF StoresGone
  <2>6. \A j \in dead' : prog'[j].op \in EffectFree
    BY <2>1, <2>2, <2>4
  <2> QED BY <2>1, <2>4, <2>5, <2>6 DEF TrimInv
<1>8. CASE EndRound \/ EndPass
  <2>1. /\ phase \in {"ops", "eraseOps"} /\ UNCHANGED <<prog, source>>
        /\ phase' = "ops" \/ (phase' = "done" /\ DeadOps = {})
        /\ WellFormed(source) /\ Trimmed /\ StoresGone
        /\ source[Len(source)].op = "return"
    <3>1. /\ phase \in {"ops", "eraseOps"} /\ UNCHANGED <<prog, source>>
          /\ phase' = "ops" \/ (phase' = "done" /\ DeadOps = {})
      <4>1. CASE EndRound
        BY <4>1 DEF EndRound
      <4>2. CASE EndPass
        BY <4>2 DEF EndPass
      <4> QED BY <1>8, <4>1, <4>2
    <3>2. phase # "build" /\ phase \in {"ops", "eraseOps", "done"}
      BY <3>1
    <3>3. /\ WellFormed(source) /\ Trimmed /\ StoresGone
          /\ source[Len(source)].op = "return"
      BY <3>2 DEF TrimInv
    <3> QED BY <3>1, <3>3
  <2>2. StoresGone' /\ Trimmed' /\ DeadOps' = DeadOps
    BY <2>1, SourceStands DEF StoresGone, Trimmed, DeadOps
  <2> QED BY <2>1, <2>2 DEF TrimInv
<1>9. CASE UNCHANGED vars
  <2>1. /\ UNCHANGED <<prog, source, phase, dead>>
        /\ DeadOps' = DeadOps
    BY <1>9 DEF vars, DeadOps
  <2>2. /\ Trimmed' <=> Trimmed
        /\ StoresListed' <=> StoresListed
        /\ StoresGone' <=> StoresGone
    BY <2>1, SourceStands DEF Trimmed, StoresListed, StoresGone
  <2> QED BY <2>1, <2>2, SourceStands DEF TrimInv
<1> QED BY <1>1, <1>2, <1>3, <1>4, <1>5, <1>6, <1>7, <1>8, <1>9 DEF Next, Pass

\* Both invariants hold of every state.
LEMMA AlwaysTrimmed == Spec => [](Closed /\ TrimInv)
BY InitClosed, NextClosed, InitTrim, NextTrim, PTL DEF Spec

-----------------------------------------------------------------------------
(***************************************************************************)
(* Induction over the positions of a function.                             *)
(***************************************************************************)

\* A set that holds 0 and every successor of its members holds Nat.
LEMMA NatSetInduction ==
  ASSUME NEW S, 0 \in S, \A n \in Nat : n \in S => n + 1 \in S
  PROVE  Nat \subseteq S
<1>1. SUFFICES ASSUME Nat \ S # {} PROVE FALSE
  OBVIOUS
<1> DEFINE R == OpToRel(<, Nat)
<1>2. IsWellFoundedOn(R, Nat)
  BY NatLessThanWellFounded, Zenon
<1>3. \A x, y \in Nat : x < y => <<x, y>> \in R
  BY Zenon DEF OpToRel
<1> HIDE DEF R
<1>4. PICK x \in Nat \ S : \A y \in Nat \ S : ~(<<y, x>> \in R)
  BY <1>1, <1>2, WFMin, Zenon
<1>5. x # 0
  OBVIOUS
<1>6. x - 1 \in Nat /\ x - 1 < x
  BY <1>5
<1>7. x - 1 \in S
  BY <1>3, <1>4, <1>6
<1> QED
  BY <1>4, <1>6, <1>7

\* A position that is in S once all earlier ones are: all positions are.
LEMMA PositionInduction ==
  ASSUME NEW n \in Nat, NEW S,
         \A m \in 1..n : (\A k \in 1..(m - 1) : k \in S) => m \in S
  PROVE  \A m \in 1..n : m \in S
<1> DEFINE T == {m \in Nat : m <= n => \A k \in 1..m : k \in S}
<1>1. 0 \in T
  OBVIOUS
<1>2. ASSUME NEW m \in Nat, m \in T PROVE m + 1 \in T
  <2> SUFFICES ASSUME m + 1 <= n, NEW k \in 1..(m + 1) PROVE k \in S
    OBVIOUS
  <2>1. \A j \in 1..m : j \in S
    BY <1>2
  <2>2. m + 1 \in 1..n /\ (m + 1) - 1 = m
    BY <1>2
  <2>3. m + 1 \in S
    BY <2>1, <2>2
  <2>4. k \in 1..m \/ k = m + 1
    BY <1>2
  <2> QED
    BY <2>1, <2>3, <2>4
<1> HIDE DEF T
<1>3. Nat \subseteq T
  BY <1>1, <1>2, NatSetInduction
<1>4. n \in T
  BY <1>3
<1> QED
  BY <1>4 DEF T

\* The same from the end of the function to its start.
LEMMA BackwardInduction ==
  ASSUME NEW n \in Nat, NEW S,
         \A m \in 1..n : (\A k \in (m + 1)..n : k \in S) => m \in S
  PROVE  \A m \in 1..n : m \in S
<1> DEFINE T == {m \in 1..n : n + 1 - m \in S}
<1>1. ASSUME NEW m \in 1..n, \A k \in 1..(m - 1) : k \in T PROVE m \in T
  <2> DEFINE j == n + 1 - m
  <2>1. j \in 1..n
    OBVIOUS
  <2>2. ASSUME NEW k \in (j + 1)..n PROVE k \in S
    <3>1. n + 1 - k \in 1..(m - 1) /\ n + 1 - (n + 1 - k) = k
      BY <2>2
    <3> QED BY <1>1, <3>1
  <2> QED BY <2>1, <2>2
<1> HIDE DEF T
<1>2. \A m \in 1..n : m \in T
  BY <1>1, PositionInduction
<1>3. ASSUME NEW m \in 1..n PROVE m \in S
  <2>1. n + 1 - m \in 1..n /\ n + 1 - (n + 1 - m) = m
    OBVIOUS
  <2> QED BY <1>2, <2>1 DEF T
<1> QED BY <1>3

-----------------------------------------------------------------------------
(***************************************************************************)
(* What the source needs, and that it is what is left.                     *)
(***************************************************************************)

\* A member of a sequence is of the sequence's type.
LEMMA ElementOfSeq ==
  ASSUME NEW T, NEW s \in Seq(T), NEW i \in DOMAIN s
  PROVE  s[i] \in T
OBVIOUS

\* Needed is what its definition says: the least set that holds the roots and
\* the operands of its members is a solution of the equation.
LEMMA NeededUnfolds ==
  ASSUME WellFormed(source)
  PROVE  \A i \in DOMAIN source :
           i \in Needed <=> i \in Roots \/ \E u \in Users(source, i) : u[1] \in Needed
<1> DEFINE Body(S) == {i \in DOMAIN source :
                         i \in Roots \/ \E u \in Users(source, i) : u[1] \in S}
           N == {i \in DOMAIN source :
                   \A S \in SUBSET DOMAIN source : Body(S) \subseteq S => i \in S}
<1>1. \A S, T \in SUBSET DOMAIN source : S \subseteq T => Body(S) \subseteq Body(T)
  OBVIOUS
<1>2. N \in SUBSET DOMAIN source /\ Body(N) \in SUBSET DOMAIN source
  OBVIOUS
<1>3. \A S \in SUBSET DOMAIN source : Body(S) \subseteq S => N \subseteq S
  OBVIOUS
<1>4. Body(N) \subseteq N
  <2> SUFFICES ASSUME NEW i \in Body(N), NEW S \in SUBSET DOMAIN source,
                      Body(S) \subseteq S
               PROVE  i \in S
    OBVIOUS
  <2>1. Body(N) \subseteq Body(S)
    BY <1>1, <1>2, <1>3
  <2> QED BY <2>1
<1>5. N \subseteq Body(N)
  <2>1. Body(Body(N)) \subseteq Body(N)
    BY <1>1, <1>2, <1>4
  <2> QED BY <1>2, <1>3, <2>1
<1> HIDE DEF N
<1> DEFINE f == [i \in DOMAIN source |-> i \in N]
<1>6. \A i \in DOMAIN source : \A u \in Users(source, i) : u[1] \in DOMAIN source
  BY DEF Users
<1>7. \A i \in DOMAIN source :
        f[i] = (i \in Roots \/ \E u \in Users(source, i) : f[u[1]])
  <2> SUFFICES ASSUME NEW i \in DOMAIN source
               PROVE  f[i] = (i \in Roots \/ \E u \in Users(source, i) : f[u[1]])
    OBVIOUS
  <2>1. \A u \in Users(source, i) : f[u[1]] <=> u[1] \in N
    BY <1>6
  <2>2. i \in N <=> i \in Body(N)
    BY <1>4, <1>5
  <2>3. f[i] = (i \in N)
    OBVIOUS
  <2> HIDE DEF f
  <2> QED BY <2>1, <2>2, <2>3
<1>8. f = [i \in DOMAIN source |->
             i \in Roots \/ \E u \in Users(source, i) : f[u[1]]]
  <2> HIDE DEF f
  <2>1. f = [i \in DOMAIN source |-> f[i]]
    BY DEF f
  <2> QED BY <1>7, <2>1, Zenon
<1> HIDE DEF f
<1>9. needed = [i \in DOMAIN source |->
                  i \in Roots \/ \E u \in Users(source, i) : needed[u[1]]]
  BY <1>8, Zenon DEF needed
<1>10. ASSUME NEW i \in DOMAIN source
       PROVE  needed[i] = (i \in Roots \/ \E u \in Users(source, i) : needed[u[1]])
  BY <1>9, Zenon
<1>11. ASSUME NEW i \in DOMAIN source
       PROVE  i \in Needed <=> i \in Roots \/ \E u \in Users(source, i) : u[1] \in Needed
  <2>1. \A u \in Users(source, i) : u[1] \in Needed <=> needed[u[1]]
    BY <1>6 DEF Needed
  <2>2. i \in Needed <=> needed[i]
    BY DEF Needed
  <2> QED BY <1>10, <2>1, <2>2, Zenon
<1> QED BY <1>11

\* A slot only stores use has no other use, and as their address if no store
\* is of the address of a slot.
LEMMA OnlyStoredUses ==
  ASSUME WellFormed(source), NEW i \in DOMAIN source,
         NEW k \in DOMAIN source[i].args, source[i].args[k] \in OnlyStored
  PROVE  /\ source[i].op = "store"
         /\ ~StoresSlotAddress => k = 2
<1>1. <<i, k>> \in Users(source, source[i].args[k])
  BY DEF Users
<1>2. /\ source[i].op = "store"
      /\ source[source[i].args[k]].op = "alloca"
  BY <1>1 DEF OnlyStored
<1>3. k \in {1, 2}
  <2>1. Len(source[i].args) = 2
    BY <1>2 DEF WellFormed, Arity
  <2> QED BY <2>1 DEF WellFormed
<1> QED BY <1>2, <1>3 DEF StoresSlotAddress

\* Unless the address of a slot is stored, these are the slots nobody reads.
LEMMA UnreadIsOnlyStored ==
  ASSUME WellFormed(source), ~StoresSlotAddress
  PROVE  Unread = OnlyStored
<1>1. ASSUME NEW a \in OnlyStored, NEW u \in Users(source, a)
      PROVE  u[2] = 2
  <2>1. PICK i \in DOMAIN source :
          \E k \in DOMAIN source[i].args : u = <<i, k>> /\ source[i].args[k] = a
    BY DEF Users
  <2>2. PICK k \in DOMAIN source[i].args : u = <<i, k>> /\ source[i].args[k] = a
    BY <2>1
  <2>3. k = 2
    BY <2>2, OnlyStoredUses
  <2> QED BY <2>2, <2>3
<1> QED BY <1>1 DEF Unread, OnlyStored

\* At the end of the pass the ops left are those the source needs.
LEMMA EndLeavesNeeded == Closed /\ TrimInv => LeavesNeeded
<1> SUFFICES ASSUME Closed, TrimInv, phase = "done", ~StoresSlotAddress
             PROVE  Needed = {i \in DOMAIN prog : prog[i].op # "erased"}
  BY DEF LeavesNeeded
<1>1. WellFormed(source) /\ Trimmed /\ StoresGone /\ DeadOps = {}
  BY DEF TrimInv
<1> DEFINE n == Len(source)
           Kept(i) == prog[i].op # "erased"
           S == {i \in 1..n : i \in Needed <=> Kept(i)}
<1>2. n \in Nat /\ DOMAIN source = 1..n /\ DOMAIN prog = 1..n
  BY <1>1 DEF WellFormed, Trimmed
<1>3. \A i \in 1..n : /\ Kept(i) => prog[i] = source[i]
                      /\ ~Kept(i) => source[i].op \in EffectFree \/ IsDeadStore(i)
                      /\ source[i].op # "erased"
  <2> TAKE i \in 1..n
  <2>1. \/ prog[i] = source[i]
        \/ prog[i] = Erased /\ (source[i].op \in EffectFree \/ IsDeadStore(i))
    BY <1>1, <1>2 DEF Trimmed
  <2>2. source[i].op # "erased"
    <3>1. source \in Seq([op : Names \ {"erased"}, args : Seq(Nat)])
      BY <1>1 DEF WellFormed
    <3>2. source[i] \in [op : Names \ {"erased"}, args : Seq(Nat)]
      BY <1>2, <3>1, ElementOfSeq
    <3> QED BY <3>2
  <2>3. Erased.op = "erased"
    BY DEF Erased, Op
  <2> QED BY <2>1, <2>2, <2>3
<1>4. \A i \in 1..n : i \in Roots <=> source[i].op \notin EffectFree /\ ~IsDeadStore(i)
  <2> SUFFICES ASSUME NEW i \in 1..n, source[i].op = "store"
               PROVE  source[i].args[2] \in Unread <=> IsDeadStore(i)
    BY <1>2 DEF Roots, IsDeadStore
  <2>1. DOMAIN source[i].args = {1, 2}
    <3>1. Len(source[i].args) = 2
      BY <1>1, <1>2 DEF WellFormed, Arity
    <3>2. source[i].args \in Seq(Nat)
      <4>1. source \in Seq([op : Names \ {"erased"}, args : Seq(Nat)])
        BY <1>1 DEF WellFormed
      <4>2. source[i] \in [op : Names \ {"erased"}, args : Seq(Nat)]
        BY <1>2, <4>1, ElementOfSeq
      <4> QED BY <4>2
    <3> QED BY <3>1, <3>2
  <2>2. IsDeadStore(i) => source[i].args[2] \in OnlyStored
    <3> SUFFICES ASSUME NEW k \in {1, 2}, source[i].args[k] \in OnlyStored
                 PROVE  k = 2
      BY <2>1 DEF IsDeadStore
    <3> QED BY <1>1, <1>2, <2>1, OnlyStoredUses
  <2>3. source[i].args[2] \in OnlyStored => IsDeadStore(i)
    BY <2>1 DEF IsDeadStore
  <2>4. Unread = OnlyStored
    BY <1>1, UnreadIsOnlyStored
  <2> QED BY <2>2, <2>3, <2>4
<1>5. ASSUME NEW m \in 1..n, \A k \in (m + 1)..n : k \in S PROVE m \in S
  <2>1. \A u \in Users(source, m) : u[1] \in (m + 1)..n
    <3> SUFFICES ASSUME NEW u \in Users(source, m) PROVE u[1] \in (m + 1)..n
      OBVIOUS
    <3>1. PICK j \in 1..n : \E k \in DOMAIN source[j].args :
                              u = <<j, k>> /\ source[j].args[k] = m
      BY <1>2 DEF Users
    <3>2. \A k \in DOMAIN source[j].args : source[j].args[k] \in 1..(j - 1)
      BY <1>1, <1>2 DEF WellFormed
    <3>3. m \in 1..(j - 1)
      BY <3>1, <3>2
    <3> QED BY <1>2, <3>1, <3>3
  <2>2. \A u \in Users(source, m) : u[1] \in Needed <=> Kept(u[1])
    BY <1>5, <2>1
  <2>3. m \in Needed <=> m \in Roots \/ \E u \in Users(source, m) : Kept(u[1])
    BY <1>1, <1>2, <2>2, NeededUnfolds
  <2>4. ASSUME m \in Needed PROVE Kept(m)
    <3>1. CASE m \in Roots
      BY <1>3, <1>4, <3>1
    <3>2. CASE \E u \in Users(source, m) : Kept(u[1])
      <4>1. PICK u \in Users(source, m) : Kept(u[1])
        BY <3>2
      <4>2. PICK j \in 1..n : \E k \in DOMAIN source[j].args :
                                u = <<j, k>> /\ source[j].args[k] = m
        BY <1>2, <4>1 DEF Users
      <4>3. prog[j] = source[j]
        BY <1>3, <4>1, <4>2
      <4>4. \E k \in DOMAIN prog[j].args : prog[j].args[k] = m
        BY <4>2, <4>3
      <4> QED BY <1>2, <4>4 DEF Closed, IsFunction, Defines
    <3> QED BY <2>3, <2>4, <3>1, <3>2
  <2>5. ASSUME Kept(m) PROVE m \in Needed
    <3>1. prog[m] = source[m]
      BY <1>3, <2>5
    <3>2. CASE source[m].op \in EffectFree
      <4>1. PICK u \in Users(prog, m) : TRUE
        BY <1>1, <1>2, <3>1, <3>2 DEF DeadOps
      <4>2. PICK j \in 1..n : \E k \in DOMAIN prog[j].args :
                                u = <<j, k>> /\ prog[j].args[k] = m
        BY <1>2, <4>1 DEF Users
      <4>3. PICK k \in DOMAIN prog[j].args : u = <<j, k>> /\ prog[j].args[k] = m
        BY <4>2
      <4>4. Kept(j)
        <5> SUFFICES ASSUME prog[j].op = "erased" PROVE FALSE
          OBVIOUS
        <5>1. prog[j] = Erased
          BY <1>1, <1>2, <1>3 DEF Trimmed
        <5> QED BY <4>3, <5>1 DEF Erased, Op
      <4>5. u \in Users(source, m)
        BY <1>2, <1>3, <4>3, <4>4 DEF Users
      <4> QED BY <2>3, <4>3, <4>4, <4>5
    <3>3. CASE source[m].op \notin EffectFree
      <4>1. ~IsDeadStore(m)
        BY <1>1, <1>2, <2>5 DEF StoresGone, Erased, Op
      <4> QED BY <1>4, <2>3, <3>3, <4>1
    <3> QED BY <3>2, <3>3
  <2> QED BY <2>4, <2>5
<1> HIDE DEF S
<1>6. \A m \in 1..n : m \in S
  BY <1>2, <1>5, BackwardInduction
<1>7. Needed \subseteq 1..n
  BY <1>2 DEF Needed
<1> QED BY <1>2, <1>6, <1>7 DEF S

(***************************************************************************)
(* When the pass ends exactly the ops the source needs are left, for       *)
(* functions of every length: the rounds of eliminateDeadOps reach what a  *)
(* mark and sweep would, whatever order the dead stores went in.           *)
(***************************************************************************)
THEOREM RoundsReachTheNeeded == Spec => []LeavesNeeded
BY AlwaysTrimmed, EndLeavesNeeded, PTL

-----------------------------------------------------------------------------
(***************************************************************************)
(* One op on a state, whatever the op: the value it binds, the cell it     *)
(* writes (0 for none), what it writes there, and what a callee has seen.  *)
(***************************************************************************)
IsState(s, n) ==
  /\ s = [env |-> s.env, mem |-> s.mem, seen |-> s.seen, defined |-> s.defined]
  /\ s.env = [k \in 1..n |-> s.env[k]]
  /\ s.mem = [c \in 1..MaxOps |-> s.mem[c]]

Stuck(s, o) == /\ o.op \in {"load", "store", "call"}
               /\ Addressed(s, o.args[Len(o.args)]) = 0

Bound(s, i, o) ==
  IF Stuck(s, o) THEN <<"none">>
  ELSE CASE o.op \in {"param", "alloca"} -> <<"cell", i>>
         [] o.op = "const" -> <<"const">>
         [] o.op \in {"erased", "store"} -> <<"none">>
         [] o.op = "gep" -> s.env[o.args[1]]
         [] o.op = "add" -> <<"add", s.env[o.args[1]]>>
         [] o.op = "load" -> s.mem[Addressed(s, o.args[1])]
         [] o.op = "call" -> <<"called">>

Cell(s, i, o) ==
  IF Stuck(s, o) THEN 0
  ELSE CASE o.op \in {"param", "alloca"} -> i
         [] o.op = "store" -> Addressed(s, o.args[2])
         [] o.op = "call" -> Addressed(s, o.args[1])
         [] o.op \notin {"param", "alloca", "store", "call"} -> 0

Content(s, o) ==
  CASE o.op = "param" -> <<"caller">>
    [] o.op = "alloca" -> <<"undef">>
    [] o.op = "store" -> s.env[o.args[1]]
    [] o.op = "call" -> <<"callee">>
    [] o.op \notin {"param", "alloca", "store", "call"} -> <<"none">>

Told(s, o) == IF o.op = "call" /\ ~Stuck(s, o)
              THEN Append(s.seen, s.mem[Addressed(s, o.args[1])])
              ELSE s.seen

\* t is s with v bound, w in cell c and b seen.
Moves(s, t, n, v, c, w, b) ==
  /\ IsState(t, n + 1)
  /\ \A k \in 1..n : t.env[k] = s.env[k]
  /\ t.env[n + 1] = v
  /\ \A d \in 1..MaxOps : t.mem[d] = IF d = c THEN w ELSE s.mem[d]
  /\ t.seen = b

\* Appending to a sequence of anything.
LEMMA AppendAny ==
  ASSUME NEW n \in Nat, NEW s, s = [k \in 1..n |-> s[k]], NEW v
  PROVE  Append(s, v) = [k \in 1..(n + 1) |-> IF k = n + 1 THEN v ELSE s[k]]
<1> DEFINE T == {s[k] : k \in 1..n} \cup {v}
           r == Append(s, v)
<1>1. s \in Seq(T) /\ v \in T
  <2>1. \A k \in 1..n : s[k] \in T
    OBVIOUS
  <2> HIDE DEF T
  <2>2. [k \in 1..n |-> s[k]] \in Seq(T)
    BY <2>1
  <2> QED BY <2>2 DEF T
<1> HIDE DEF T
<1>2. DOMAIN s = 1..n
  OBVIOUS
<1>3. Len(s) = n
  BY <1>1, <1>2
<1>4. /\ r \in Seq(T) /\ Len(r) = n + 1
      /\ r[n + 1] = v
      /\ \A k \in 1..n : r[k] = s[k]
  BY <1>1, <1>3
<1> HIDE DEF r
<1>5. r = [k \in 1..(n + 1) |-> r[k]]
  BY <1>4
<1>6. \A k \in 1..(n + 1) : r[k] = IF k = n + 1 THEN v ELSE s[k]
  BY <1>4
<1>7. r = [k \in 1..(n + 1) |-> IF k = n + 1 THEN v ELSE s[k]]
  BY <1>5, <1>6
<1> QED BY <1>7 DEF r

\* What the updates of the record do.
LEMMA StateUpdates ==
  ASSUME NEW e, NEW m, NEW b, NEW d, NEW s,
         s = [env |-> e, mem |-> m, seen |-> b, defined |-> d],
         NEW x
  PROVE  /\ [s EXCEPT !.env = x] = [env |-> x, mem |-> m, seen |-> b, defined |-> d]
         /\ [s EXCEPT !.mem = x] = [env |-> e, mem |-> x, seen |-> b, defined |-> d]
         /\ [s EXCEPT !.seen = x] = [env |-> e, mem |-> m, seen |-> x, defined |-> d]
         /\ [s EXCEPT !.defined = x] = [env |-> e, mem |-> m, seen |-> b, defined |-> x]
OBVIOUS

\* A value bound, and nothing else.
LEMMA BindMoves ==
  ASSUME NEW n \in Nat, NEW s, IsState(s, n), NEW v, NEW w
  PROVE  Moves(s, Bind(s, v), n, v, 0, w, s.seen)
<1> DEFINE e == Append(s.env, v)
<1>1. e = [k \in 1..(n + 1) |-> IF k = n + 1 THEN v ELSE s.env[k]]
  BY AppendAny DEF IsState
<1>2. Bind(s, v) = [env |-> e, mem |-> s.mem, seen |-> s.seen, defined |-> s.defined]
  <2>1. s = [env |-> s.env, mem |-> s.mem, seen |-> s.seen, defined |-> s.defined]
    BY DEF IsState
  <2>2. Bind(s, v) = [s EXCEPT !.env = e]
    BY DEF Bind
  <2> HIDE DEF e
  <2> QED BY <2>1, <2>2, StateUpdates, Zenon
<1> HIDE DEF e
<1> DEFINE t == Bind(s, v)
<1>3. t.env = e /\ t.mem = s.mem /\ t.seen = s.seen /\ t.defined = s.defined
  BY <1>2
<1>4. e = [k \in 1..(n + 1) |-> e[k]]
  BY <1>1
<1>5. IsState(t, n + 1)
  <2>1. t = [env |-> t.env, mem |-> t.mem, seen |-> t.seen, defined |-> t.defined]
    BY <1>2, <1>3
  <2> HIDE DEF t
  <2> QED BY <1>3, <1>4, <2>1 DEF IsState
<1>6. e[n + 1] = v /\ \A k \in 1..n : e[k] = s.env[k]
  BY <1>1
<1>7. \A d \in 1..MaxOps : t.mem[d] = IF d = 0 THEN w ELSE s.mem[d]
  BY <1>3
<1> HIDE DEF t
<1>8. Moves(s, t, n, v, 0, w, s.seen)
  BY <1>3, <1>5, <1>6, <1>7 DEF Moves
<1> QED BY <1>8 DEF t

\* A write on top of it.
LEMMA WriteMoves ==
  ASSUME NEW n \in Nat, NEW s, NEW t, NEW v, NEW b,
         Moves(s, t, n, v, 0, <<"none">>, b),
         NEW c, NEW w
  PROVE  Moves(s, [t EXCEPT !.mem[c] = w], n, v, c, w, b)
<1> DEFINE m == [t.mem EXCEPT ![c] = w]
           u == [t EXCEPT !.mem[c] = w]
<1>1. IsState(t, n + 1)
  BY DEF Moves
<1>2. u = [env |-> t.env, mem |-> m, seen |-> t.seen, defined |-> t.defined]
  <2>1. t = [env |-> t.env, mem |-> t.mem, seen |-> t.seen, defined |-> t.defined]
    BY <1>1 DEF IsState
  <2>2. u = [t EXCEPT !.mem = m]
    OBVIOUS
  <2> HIDE DEF m, u
  <2> QED BY <2>1, <2>2, StateUpdates
<1>3. DOMAIN t.mem = 1..MaxOps
  BY <1>1 DEF IsState
<1>4. /\ DOMAIN m = 1..MaxOps
      /\ m = [d \in 1..MaxOps |-> m[d]]
      /\ \A d \in 1..MaxOps : m[d] = IF d = c THEN w ELSE t.mem[d]
  BY <1>3
<1> HIDE DEF m
<1>5. u.env = t.env /\ u.mem = m /\ u.seen = t.seen /\ u.defined = t.defined
  BY <1>2
<1>6. IsState(u, n + 1)
  <2>1. u = [env |-> u.env, mem |-> u.mem, seen |-> u.seen, defined |-> u.defined]
    BY <1>2, <1>5
  <2>2. t.env = [k \in 1..(n + 1) |-> t.env[k]]
    BY <1>1 DEF IsState
  <2> HIDE DEF u
  <2> QED BY <1>4, <1>5, <2>1, <2>2 DEF IsState
<1>7. \A d \in 1..MaxOps : t.mem[d] = s.mem[d]
  <2>1. \A d \in 1..MaxOps : d # 0
    BY CleanupAssumption
  <2> QED BY <2>1 DEF Moves
<1>8. \A d \in 1..MaxOps : u.mem[d] = IF d = c THEN w ELSE s.mem[d]
  <2> HIDE DEF u
  <2> QED BY <1>4, <1>5, <1>7
<1>9. /\ \A k \in 1..n : t.env[k] = s.env[k]
      /\ t.env[n + 1] = v /\ t.seen = b
  BY DEF Moves
<1> HIDE DEF u
<1>10. Moves(s, u, n, v, c, w, b)
  BY <1>5, <1>6, <1>8, <1>9 DEF Moves
<1> QED BY <1>10 DEF u

\* A field of a state that says neither values nor memory.
LEMMA FieldMoves ==
  ASSUME NEW n \in Nat, NEW s, NEW t, NEW v, NEW c, NEW w, NEW b,
         Moves(s, t, n, v, c, w, b), NEW x
  PROVE  /\ Moves(s, [t EXCEPT !.defined = x], n, v, c, w, b)
         /\ Moves(s, [t EXCEPT !.seen = x], n, v, c, w, x)
<1>1. IsState(t, n + 1)
  BY DEF Moves
<1>6. t = [env |-> t.env, mem |-> t.mem, seen |-> t.seen, defined |-> t.defined]
  BY <1>1 DEF IsState
<1>2. [t EXCEPT !.defined = x] =
        [env |-> t.env, mem |-> t.mem, seen |-> t.seen, defined |-> x]
  BY <1>6, StateUpdates
<1>3. [t EXCEPT !.seen = x] =
        [env |-> t.env, mem |-> t.mem, seen |-> x, defined |-> t.defined]
  BY <1>6, StateUpdates
<1>4. ASSUME NEW y, NEW z,
             NEW u, u = [env |-> t.env, mem |-> t.mem, seen |-> y, defined |-> z]
      PROVE  Moves(s, u, n, v, c, w, y)
  <2>1. u.env = t.env /\ u.mem = t.mem /\ u.seen = y /\ u.defined = z
    BY <1>4
  <2>2. IsState(u, n + 1)
    BY <1>1, <1>4, <2>1 DEF IsState
  <2> QED BY <2>1, <2>2 DEF Moves
<1>5. t.seen = b
  BY DEF Moves
<1> QED BY <1>2, <1>3, <1>4, <1>5

\* What any op but the return does to a state.
LEMMA AfterMoves ==
  ASSUME NEW n \in Nat, NEW s, IsState(s, n), NEW o,
         o.op \in Names \ {"return"},
         o.op \in {"load", "call"} => Len(o.args) = 1,
         o.op = "store" => Len(o.args) = 2
  PROVE  Moves(s, After(s, n + 1, o), n, Bound(s, n + 1, o),
               Cell(s, n + 1, o), Content(s, o), Told(s, o))
<1> DEFINE i == n + 1
           v == Bound(s, i, o)
           c == Cell(s, i, o)
           w == Content(s, o)
           b == Told(s, o)
<1> SUFFICES Moves(s, After(s, i, o), n, v, c, w, b)
  OBVIOUS
<1>1. CASE Stuck(s, o)
  <2>1. After(s, i, o) = Undefined(s)
    BY <1>1 DEF After, Stuck
  <2>2. v = <<"none">> /\ c = 0 /\ b = s.seen
    BY <1>1 DEF Bound, Cell, Told
  <2>3. Moves(s, Bind(s, <<"none">>), n, <<"none">>, 0, w, s.seen)
    BY BindMoves
  <2>4. Moves(s, Undefined(s), n, <<"none">>, 0, w, s.seen)
    BY <2>3, FieldMoves DEF Undefined
  <2> QED BY <2>1, <2>2, <2>4
<1>2. CASE ~Stuck(s, o) /\ o.op \in {"const", "erased", "gep", "add", "load"}
  <2>1. After(s, i, o) = Bind(s, v)
    <3>1. CASE o.op = "const"
      BY <1>2, <3>1 DEF After, Bound, Stuck
    <3>2. CASE o.op = "erased"
      BY <1>2, <3>2 DEF After, Bound, Stuck
    <3>3. CASE o.op = "gep"
      BY <1>2, <3>3 DEF After, Bound, Stuck
    <3>4. CASE o.op = "add"
      BY <1>2, <3>4 DEF After, Bound, Stuck
    <3>5. CASE o.op = "load"
      BY <1>2, <3>5 DEF After, Bound, Stuck
    <3> QED BY <1>2, <3>1, <3>2, <3>3, <3>4, <3>5
  <2>2. c = 0 /\ b = s.seen
    BY <1>2 DEF Cell, Told
  <2> HIDE DEF v, c, w, b
  <2> QED BY <2>1, <2>2, BindMoves
<1>3. CASE ~Stuck(s, o) /\ o.op \in {"param", "alloca", "store"}
  <2>1. After(s, i, o) = [Bind(s, v) EXCEPT !.mem[c] = w]
    <3>1. CASE o.op = "param"
      BY <1>3, <3>1 DEF After, Bound, Cell, Content, Stuck
    <3>2. CASE o.op = "alloca"
      BY <1>3, <3>2 DEF After, Bound, Cell, Content, Stuck
    <3>3. CASE o.op = "store"
      BY <1>3, <3>3 DEF After, Bound, Cell, Content, Stuck
    <3> QED BY <1>3, <3>1, <3>2, <3>3
  <2>2. b = s.seen
    BY <1>3 DEF Told
  <2> HIDE DEF v, c, w, b
  <2>3. Moves(s, Bind(s, v), n, v, 0, <<"none">>, s.seen)
    BY BindMoves
  <2> QED BY <2>1, <2>2, <2>3, WriteMoves
<1>4. CASE ~Stuck(s, o) /\ o.op = "call"
  <2>1. After(s, i, o) = [Bind(s, <<"called">>) EXCEPT
                            !.seen = Append(@, s.mem[Addressed(s, o.args[1])]),
                            !.mem[Addressed(s, o.args[1])] = <<"callee">>]
    BY <1>4 DEF After, Stuck
  <2>2. /\ v = <<"called">> /\ c = Addressed(s, o.args[1]) /\ w = <<"callee">>
        /\ b = Append(s.seen, s.mem[c])
    BY <1>4 DEF Bound, Cell, Content, Told
  <2> HIDE DEF v, c, w, b
  <2> DEFINE t == Bind(s, v)
  <2>3. Moves(s, t, n, v, 0, <<"none">>, s.seen)
    BY BindMoves
  <2>4. t.seen = s.seen
    BY <2>3 DEF Moves
  <2>5. After(s, i, o) = [[t EXCEPT !.seen = b] EXCEPT !.mem[c] = w]
    <3>1. IsState(t, n + 1)
      BY <2>3 DEF Moves
    <3> HIDE DEF t
    <3>2. After(s, i, o) = [t EXCEPT !.seen = b, !.mem[c] = w]
      BY <2>1, <2>2, <2>4 DEF t
    <3>3. t = [env |-> t.env, mem |-> t.mem, seen |-> t.seen, defined |-> t.defined]
      BY <3>1 DEF IsState
    <3> QED BY <3>2, <3>3
  <2>6. Moves(s, [t EXCEPT !.seen = b], n, v, 0, <<"none">>, b)
    BY <2>3, FieldMoves
  <2> HIDE DEF t
  <2>7. Moves(s, [[t EXCEPT !.seen = b] EXCEPT !.mem[c] = w], n, v, c, w, b)
    BY <2>6, WriteMoves
  <2> QED BY <2>5, <2>7
<1> QED BY <1>1, <1>2, <1>3, <1>4 DEF Names, Defines

-----------------------------------------------------------------------------
(***************************************************************************)
(* The runs of the source and of what is left of it, op by op.             *)
(***************************************************************************)

\* The states of a run: one after the other, from the start.
LEMMA StatesUnfold ==
  ASSUME NEW p, Len(p) \in Nat
  PROVE  /\ States(p)[0] = Start
         /\ \A i \in 1..Len(p) : States(p)[i] = After(States(p)[i - 1], i, p[i])
<1> DEFINE Body(f, i) == IF i = 0 THEN Start ELSE After(f[i - 1], i, p[i])
           T == {m \in Nat : \E f : f = [i \in 0..m |-> Body(f, i)]}
<1>1. 0 \in T
  <2> DEFINE f == [i \in 0..0 |-> Start]
  <2>1. f = [i \in 0..0 |-> Body(f, i)]
    OBVIOUS
  <2> QED BY <2>1
<1>2. ASSUME NEW m \in Nat, m \in T PROVE m + 1 \in T
  <2>1. PICK f : f = [i \in 0..m |-> Body(f, i)]
    BY <1>2
  <2> DEFINE g == [i \in 0..(m + 1) |-> Body(f, i)]
  <2>2. \A i \in 0..m : g[i] = f[i]
    <3>1. \A i \in 0..m : f[i] = Body(f, i) /\ g[i] = Body(f, i)
      <4> HIDE DEF Body
      <4> QED BY <2>1
    <3> QED BY <3>1
  <2>3. \A i \in 0..(m + 1) : Body(f, i) = Body(g, i)
    <3> TAKE i \in 0..(m + 1)
    <3>1. CASE i = 0
      BY <3>1
    <3>2. CASE i # 0
      <4>1. i - 1 \in 0..m
        BY <3>2
      <4>2. g[i - 1] = f[i - 1]
        BY <2>2, <4>1
      <4> HIDE DEF g
      <4> QED BY <3>2, <4>2
    <3> QED BY <3>1, <3>2
  <2>4. g = [i \in 0..(m + 1) |-> Body(g, i)]
    BY <2>3, Zenon
  <2> HIDE DEF g
  <2> QED BY <2>4
<1> HIDE DEF T
<1>3. Len(p) \in T
  BY <1>1, <1>2, NatSetInduction
<1>4. \E f : f = [i \in 0..Len(p) |-> Body(f, i)]
  BY <1>3 DEF T
<1>5. States(p) = [i \in 0..Len(p) |-> Body(States(p), i)]
  BY <1>4, Zenon DEF States
<1>6. \A i \in 0..Len(p) : States(p)[i] = Body(States(p), i)
  <2> HIDE DEF Body
  <2> QED BY <1>5, Zenon
<1> QED BY <1>6

\* The operands an op has.
LEMMA Operands ==
  ASSUME NEW p, WellFormed(p), NEW i \in DOMAIN p
  PROVE  /\ p[i].op \in Names \ {"erased"}
         /\ p[i].op \in {"load", "gep", "add", "call", "return"} =>
              /\ Len(p[i].args) = 1 /\ DOMAIN p[i].args = {1}
              /\ p[i].args[1] \in 1..(i - 1)
         /\ p[i].op = "store" =>
              /\ Len(p[i].args) = 2 /\ DOMAIN p[i].args = {1, 2}
              /\ p[i].args[1] \in 1..(i - 1)
              /\ p[i].args[2] \in 1..(i - 1)
<1>1. p[i] \in [op : Names \ {"erased"}, args : Seq(Nat)]
  <2>1. p \in Seq([op : Names \ {"erased"}, args : Seq(Nat)])
    BY DEF WellFormed
  <2> QED BY <2>1, ElementOfSeq
<1>2. /\ Len(p[i].args) = Arity(p[i].op)
      /\ \A k \in DOMAIN p[i].args : p[i].args[k] \in 1..(i - 1)
  BY DEF WellFormed
<1>3. CASE p[i].op \in {"load", "gep", "add", "call", "return"}
  <2>1. Len(p[i].args) = 1
    BY <1>2, <1>3 DEF Arity
  <2>2. DOMAIN p[i].args = {1}
    BY <1>1, <2>1
  <2> QED BY <1>1, <1>2, <1>3, <2>1, <2>2
<1>4. CASE p[i].op = "store"
  <2>1. Len(p[i].args) = 2
    BY <1>2, <1>4 DEF Arity
  <2>2. DOMAIN p[i].args = {1, 2}
    BY <1>1, <2>1
  <2> QED BY <1>1, <1>2, <1>4, <2>1, <2>2
<1> QED BY <1>1, <1>3, <1>4

\* In the run of the source only a slot's own op has the slot's address, if
\* nothing but stores uses the slot and no store is of a slot's address.
NoAlias(s, i) ==
  /\ IsState(s, i)
  /\ \A k \in 1..i : IsAddress(s.env[k]) =>
       /\ s.env[k][2] \in 1..MaxOps
       /\ s.env[k][2] \in OnlyStored => s.env[k][2] = k
  /\ \A c \in 1..MaxOps : IsAddress(s.mem[c]) =>
       s.mem[c][2] \in (1..MaxOps) \ OnlyStored
  /\ \A k \in 1..i : source[k].op = "alloca" => s.env[k] = <<"cell", k>>

LEMMA StartNoAlias == NoAlias(Start, 0)
<1>1. /\ Start.env = <<>> /\ Start.mem = [c \in 1..MaxOps |-> <<"undef">>]
      /\ Start = [env |-> Start.env, mem |-> Start.mem, seen |-> Start.seen,
                  defined |-> Start.defined]
  BY DEF Start
<1>2. \A c \in 1..MaxOps : Start.mem[c] = <<"undef">> /\ <<"undef">>[1] = "undef"
  BY <1>1
<1>3. Start.env = [k \in 1..0 |-> Start.env[k]]
  BY <1>1
<1>4. Start.mem = [c \in 1..MaxOps |-> Start.mem[c]]
  BY <1>1
<1> QED BY <1>1, <1>2, <1>3, <1>4 DEF NoAlias, IsState, IsAddress

\* The values that are no addresses, and the one that is.
LEMMA Tags ==
  /\ ~IsAddress(<<"none">>) /\ ~IsAddress(<<"const">>) /\ ~IsAddress(<<"called">>)
  /\ ~IsAddress(<<"caller">>) /\ ~IsAddress(<<"undef">>) /\ ~IsAddress(<<"callee">>)
  /\ \A v : ~IsAddress(<<"add", v>>)
  /\ \A c : IsAddress(<<"cell", c>>) /\ <<"cell", c>>[2] = c
BY DEF IsAddress

\* Moves of the source: what is bound and written.
LEMMA SourceMoves ==
  ASSUME WellFormed(source), NEW n \in Nat, n + 1 \in DOMAIN source,
         source[n + 1].op # "return", NEW s, IsState(s, n)
  PROVE  LET o == source[n + 1]
         IN  Moves(s, After(s, n + 1, o), n, Bound(s, n + 1, o),
                   Cell(s, n + 1, o), Content(s, o), Told(s, o))
<1>1. /\ source[n + 1].op \in Names \ {"return"}
      /\ source[n + 1].op \in {"load", "call"} => Len(source[n + 1].args) = 1
      /\ source[n + 1].op = "store" => Len(source[n + 1].args) = 2
  BY Operands
<1> QED BY <1>1, AfterMoves

LEMMA NoAliasStep ==
  ASSUME WellFormed(source), ~StoresSlotAddress,
         NEW n \in Nat, n + 1 \in DOMAIN source, source[n + 1].op # "return",
         NEW s, NoAlias(s, n)
  PROVE  NoAlias(After(s, n + 1, source[n + 1]), n + 1)
<1> DEFINE i == n + 1
           o == source[i]
           t == After(s, i, o)
           v == Bound(s, i, o)
           c == Cell(s, i, o)
           w == Content(s, o)
<1>1. Moves(s, t, n, v, c, w, Told(s, o))
  BY SourceMoves DEF NoAlias
<1>2. /\ IsState(s, n)
      /\ \A k \in 1..n : IsAddress(s.env[k]) =>
           s.env[k][2] \in 1..MaxOps /\ (s.env[k][2] \in OnlyStored => s.env[k][2] = k)
      /\ \A d \in 1..MaxOps : IsAddress(s.mem[d]) =>
           s.mem[d][2] \in (1..MaxOps) \ OnlyStored
      /\ \A k \in 1..n : source[k].op = "alloca" => s.env[k] = <<"cell", k>>
  BY DEF NoAlias
<1>3. /\ i \in 1..MaxOps
      /\ o.op = "param" => i \notin OnlyStored
      /\ o.op \in Names
  <2>1. i \in 1..MaxOps
    <3>1. DOMAIN source = 1..Len(source) /\ Len(source) \in 1..MaxOps
      BY DEF WellFormed
    <3> QED BY <3>1, CleanupAssumption
  <2>2. o.op \in Names
    BY Operands
  <2>3. o.op = "param" => i \notin OnlyStored
    BY DEF OnlyStored
  <2> QED BY <2>1, <2>2, <2>3
<1>4. \A k \in DOMAIN o.args : o.args[k] \in OnlyStored => o.op = "store" /\ k = 2
  BY OnlyStoredUses
<1>5. /\ o.op \in {"load", "gep", "add", "call"} => 1 \in DOMAIN o.args /\ o.args[1] \in 1..n
                                                  /\ Len(o.args) = 1
      /\ o.op = "store" => /\ 1 \in DOMAIN o.args /\ o.args[1] \in 1..n
                           /\ 2 \in DOMAIN o.args /\ o.args[2] \in 1..n
  BY Operands
<1> HIDE DEF t
<1>6. ASSUME IsAddress(v)
      PROVE  v[2] \in 1..MaxOps /\ (v[2] \in OnlyStored => v[2] = i)
  <2>1. ~Stuck(s, o)
    BY <1>6, Tags DEF Bound
  <2>2. CASE o.op \in {"param", "alloca"}
    BY <1>3, <2>1, <2>2, Tags DEF Bound
  <2>3. CASE o.op = "gep"
    <3>1. v = s.env[o.args[1]]
      BY <2>1, <2>3 DEF Bound
    <3> HIDE DEF v
    <3> QED BY <1>2, <1>4, <1>5, <1>6, <2>3, <3>1
  <2>4. CASE o.op = "load"
    <3>1. v = s.mem[Addressed(s, o.args[1])]
      BY <2>1, <2>4 DEF Bound
    <3>2. Addressed(s, o.args[1]) \in 1..MaxOps
      BY <1>2, <1>5, <2>1, <2>4 DEF Addressed, Stuck
    <3> HIDE DEF v
    <3> QED BY <1>2, <1>6, <3>1, <3>2
  <2>5. CASE o.op \in {"const", "erased", "store", "add", "call"}
    BY <1>6, <2>1, <2>5, Tags DEF Bound
  <2>6. o.op # "return"
    OBVIOUS
  <2> HIDE DEF o, v
  <2> QED BY <1>3, <2>2, <2>3, <2>4, <2>5, <2>6 DEF Names, Defines
<1>7. ASSUME IsAddress(w) PROVE w[2] \in (1..MaxOps) \ OnlyStored
  <2>1. o.op = "store" /\ w = s.env[o.args[1]]
    <3>1. CASE o.op = "store"
      BY <3>1 DEF Content
    <3>2. CASE o.op # "store"
      BY <1>7, <3>2, Tags DEF Content
    <3> QED BY <3>1, <3>2
  <2>2. o.args[1] \notin OnlyStored
    BY <1>4, <1>5, <2>1
  <2> HIDE DEF w
  <2> QED BY <1>2, <1>5, <1>7, <2>1, <2>2
<1>8. o.op = "alloca" => v = <<"cell", i>>
  BY DEF Bound, Stuck
<1> HIDE DEF o, v, w, c
<1>9. /\ IsState(t, i)
      /\ \A k \in 1..n : t.env[k] = s.env[k]
      /\ t.env[i] = v
      /\ \A d \in 1..MaxOps : t.mem[d] = IF d = c THEN w ELSE s.mem[d]
  BY <1>1 DEF Moves
<1>10. ASSUME NEW k \in 1..i
       PROVE  /\ IsAddress(t.env[k]) =>
                   /\ t.env[k][2] \in 1..MaxOps
                   /\ t.env[k][2] \in OnlyStored => t.env[k][2] = k
              /\ source[k].op = "alloca" => t.env[k] = <<"cell", k>>
  <2>1. CASE k = i
    BY <1>6, <1>8, <1>9, <2>1 DEF o
  <2>2. CASE k \in 1..n
    BY <1>2, <1>9, <2>2
  <2> QED BY <2>1, <2>2
<1>11. \A d \in 1..MaxOps : IsAddress(t.mem[d]) =>
         t.mem[d][2] \in (1..MaxOps) \ OnlyStored
  BY <1>2, <1>7, <1>9
<1> QED BY <1>9, <1>10, <1>11 DEF NoAlias, t, o

\* The two runs agree on the values of what is left, on the memory but for
\* slots only stores use, and on what callees have found.
Agree(P, Q, i) ==
  /\ \A k \in 1..i : prog[k] = source[k] => P.env[k] = Q.env[k]
  /\ \A c \in (1..MaxOps) \ OnlyStored : P.mem[c] = Q.mem[c]
  /\ P.seen = Q.seen

\* The operands of an op that is left are left.
LEMMA KeptOperands ==
  ASSUME Closed, Trimmed, NEW i \in DOMAIN source, prog[i] = source[i],
         NEW k \in DOMAIN source[i].args
  PROVE  prog[source[i].args[k]] = source[source[i].args[k]]
<1> DEFINE a == source[i].args[k]
<1>1. a \in DOMAIN source /\ prog[a].op \in Defines
  BY DEF Closed, IsFunction, Trimmed
<1>2. prog[a].op # "erased"
  BY <1>1 DEF Defines
<1>3. prog[a] # Erased
  BY <1>2 DEF Erased, Op
<1> QED BY <1>1, <1>3 DEF Trimmed

LEMMA KeptStep ==
  ASSUME Closed, Trimmed, WellFormed(source), ~StoresSlotAddress,
         NEW n \in Nat, n + 1 \in DOMAIN source, source[n + 1].op # "return",
         NEW P, IsState(P, n), NEW Q, NoAlias(Q, n), Agree(P, Q, n),
         prog[n + 1] = source[n + 1]
  PROVE  LET o == source[n + 1]
         IN  /\ Bound(P, n + 1, o) = Bound(Q, n + 1, o)
             /\ Cell(P, n + 1, o) = Cell(Q, n + 1, o)
             /\ Content(P, o) = Content(Q, o)
             /\ Told(P, o) = Told(Q, o)
<1> DEFINE i == n + 1
           o == source[i]
<1> SUFFICES /\ Bound(P, i, o) = Bound(Q, i, o)
             /\ Cell(P, i, o) = Cell(Q, i, o)
             /\ Content(P, o) = Content(Q, o)
             /\ Told(P, o) = Told(Q, o)
  OBVIOUS
<1>1. \A k \in DOMAIN o.args : o.args[k] \in 1..n => P.env[o.args[k]] = Q.env[o.args[k]]
  BY KeptOperands DEF Agree
<1>2. /\ o.op \in {"load", "gep", "add", "call"} =>
           1 \in DOMAIN o.args /\ o.args[1] \in 1..n /\ Len(o.args) = 1
      /\ o.op = "store" => /\ 1 \in DOMAIN o.args /\ o.args[1] \in 1..n
                           /\ 2 \in DOMAIN o.args /\ o.args[2] \in 1..n
                           /\ Len(o.args) = 2
  BY Operands
<1>3. o.op \in Names \ {"return"}
  BY Operands
<1>4. \A k \in DOMAIN o.args : o.args[k] \in OnlyStored => o.op = "store"
  BY OnlyStoredUses
<1> HIDE DEF o
<1>5. Stuck(P, o) <=> Stuck(Q, o)
  BY <1>1, <1>2 DEF Stuck, Addressed
<1>6. ASSUME o.op \in {"load", "call"}, ~Stuck(Q, o)
      PROVE  /\ Addressed(P, o.args[1]) = Addressed(Q, o.args[1])
             /\ P.mem[Addressed(P, o.args[1])] = Q.mem[Addressed(Q, o.args[1])]
  <2> DEFINE c == Addressed(Q, o.args[1])
  <2>1. Addressed(P, o.args[1]) = c
    BY <1>1, <1>2, <1>6 DEF Addressed
  <2>2. IsAddress(Q.env[o.args[1]]) /\ c = Q.env[o.args[1]][2]
    BY <1>2, <1>6 DEF Stuck, Addressed
  <2>3. c \in 1..MaxOps /\ (c \in OnlyStored => c = o.args[1])
    BY <1>2, <1>6, <2>2 DEF NoAlias
  <2>4. c \notin OnlyStored
    BY <1>2, <1>4, <1>6, <2>3
  <2> HIDE DEF c
  <2> QED BY <2>1, <2>3, <2>4 DEF Agree, c
<1>7. CASE Stuck(Q, o)
  BY <1>1, <1>2, <1>3, <1>5, <1>7 DEF Bound, Cell, Content, Told, Agree
<1>8. CASE ~Stuck(Q, o) /\ o.op \in {"load", "call"}
  BY <1>3, <1>5, <1>6, <1>8 DEF Bound, Cell, Content, Told, Agree
<1>9. CASE ~Stuck(Q, o) /\ o.op = "store"
  <2>1. /\ P.env[o.args[1]] = Q.env[o.args[1]]
        /\ Addressed(P, o.args[2]) = Addressed(Q, o.args[2])
    BY <1>1, <1>2, <1>9 DEF Addressed
  <2> QED BY <1>5, <1>9, <2>1 DEF Bound, Cell, Content, Told, Agree
<1>10. CASE ~Stuck(Q, o) /\ o.op \in {"gep", "add"}
  <2>1. P.env[o.args[1]] = Q.env[o.args[1]]
    BY <1>1, <1>2, <1>10
  <2> QED BY <1>5, <1>10, <2>1 DEF Bound, Cell, Content, Told, Agree
<1>11. CASE ~Stuck(Q, o) /\ o.op \in {"param", "alloca", "const", "erased"}
  BY <1>5, <1>11 DEF Bound, Cell, Content, Told, Agree
<1> QED BY <1>3, <1>7, <1>8, <1>9, <1>10, <1>11 DEF Names, Defines

LEMMA AgreeStep ==
  ASSUME Closed, Trimmed, WellFormed(source), ~StoresSlotAddress,
         NEW n \in Nat, n + 1 \in DOMAIN source, source[n + 1].op # "return",
         NEW P, IsState(P, n), NEW Q, NoAlias(Q, n), Agree(P, Q, n)
  PROVE  /\ IsState(After(P, n + 1, prog[n + 1]), n + 1)
         /\ Agree(After(P, n + 1, prog[n + 1]), After(Q, n + 1, source[n + 1]), n + 1)
<1> DEFINE i == n + 1
           q == source[i]
           V == Bound(Q, i, q)
           C == Cell(Q, i, q)
           W == Content(Q, q)
           B == Told(Q, q)
<1>1. Moves(Q, After(Q, i, q), n, V, C, W, B)
  BY SourceMoves DEF NoAlias
<1>2. CASE prog[i] = source[i]
  <2>1. Moves(P, After(P, i, q), n, Bound(P, i, q), Cell(P, i, q), Content(P, q),
              Told(P, q))
    BY SourceMoves
  <2>2. /\ Bound(P, i, q) = V /\ Cell(P, i, q) = C
        /\ Content(P, q) = W /\ Told(P, q) = B
    BY <1>2, KeptStep
  <2>3. Moves(P, After(P, i, q), n, V, C, W, B)
    <3> HIDE DEF V, C, W, B
    <3> QED BY <2>1, <2>2
  <2> HIDE DEF V, C, W, B, q
  <2>4. Agree(After(P, i, q), After(Q, i, q), i)
    BY <1>1, <2>3 DEF Moves, Agree
  <2>5. IsState(After(P, i, q), i)
    BY <2>3 DEF Moves
  <2> QED BY <1>2, <2>4, <2>5 DEF q
<1>3. CASE prog[i] # source[i]
  <2>1. prog[i] = Erased /\ (q.op \in EffectFree \/ IsDeadStore(i))
    BY <1>3 DEF Trimmed
  <2> DEFINE p == prog[i]
             w == Content(P, p)
  <2>2. p.op = "erased"
    BY <2>1 DEF Erased, Op
  <2>3. Moves(P, After(P, i, p), n, <<"none">>, 0, w, P.seen)
    <3>1. /\ p.op \in Names \ {"return"}
          /\ p.op \notin {"load", "call", "store"}
      BY <2>2 DEF Names
    <3>2. Bound(P, i, p) = <<"none">> /\ Cell(P, i, p) = 0 /\ Told(P, p) = P.seen
      BY <2>2 DEF Bound, Cell, Told, Stuck
    <3> HIDE DEF p, w
    <3>3. Moves(P, After(P, i, p), n, Bound(P, i, p), Cell(P, i, p), Content(P, p),
                Told(P, p))
      BY <3>1, AfterMoves
    <3> QED BY <3>2, <3>3 DEF w
  <2>4. B = Q.seen /\ (C = 0 \/ C \in OnlyStored)
    <3>1. CASE q.op \in EffectFree
      BY <3>1 DEF EffectFree, Told, Cell, Stuck
    <3>2. CASE IsDeadStore(i)
      <4>1. PICK k \in DOMAIN q.args : q.op = "store" /\ q.args[k] \in OnlyStored
        BY <3>2 DEF IsDeadStore
      <4>2. k = 2
        BY <4>1, OnlyStoredUses
      <4>3. q.args[2] \in 1..n
        BY <4>1, Operands
      <4>4. source[q.args[2]].op = "alloca"
        BY <4>1, <4>2 DEF OnlyStored
      <4>5. Q.env[q.args[2]] = <<"cell", q.args[2]>>
        BY <4>3, <4>4 DEF NoAlias
      <4>6. Addressed(Q, q.args[2]) = q.args[2]
        BY <4>5, Tags DEF Addressed
      <4> QED BY <4>1, <4>2, <4>6 DEF Cell, Told
    <3> QED BY <2>1, <3>1, <3>2
  <2> HIDE DEF V, C, W, B, q, p, w
  <2>5. \A k \in 1..i : prog[k] = source[k] =>
          After(P, i, p).env[k] = After(Q, i, q).env[k]
    <3> SUFFICES ASSUME NEW k \in 1..i, prog[k] = source[k]
                 PROVE  After(P, i, p).env[k] = After(Q, i, q).env[k]
      OBVIOUS
    <3>1. k \in 1..n
      BY <1>3
    <3> QED BY <1>1, <2>3, <3>1 DEF Moves, Agree
  <2>6. \A d \in (1..MaxOps) \ OnlyStored : After(P, i, p).mem[d] = After(Q, i, q).mem[d]
    <3> SUFFICES ASSUME NEW d \in (1..MaxOps) \ OnlyStored
                 PROVE  After(P, i, p).mem[d] = After(Q, i, q).mem[d]
      OBVIOUS
    <3>1. d # 0 /\ d # C
      BY <2>4, CleanupAssumption
    <3>2. After(P, i, p).mem[d] = P.mem[d]
      BY <2>3, <3>1 DEF Moves
    <3>3. After(Q, i, q).mem[d] = Q.mem[d]
      BY <1>1, <3>1 DEF Moves
    <3> QED BY <3>2, <3>3 DEF Agree
  <2>7. After(P, i, p).seen = After(Q, i, q).seen
    BY <1>1, <2>3, <2>4 DEF Moves, Agree
  <2>8. IsState(After(P, i, p), i)
    BY <2>3 DEF Moves
  <2>9. Agree(After(P, i, p), After(Q, i, q), i)
    BY <2>5, <2>6, <2>7 DEF Agree
  <2> QED BY <2>8, <2>9 DEF p, q
<1> QED BY <1>2, <1>3

\* The caller cannot tell what is left from the source.
LEMMA TrimmedBehaves ==
  ASSUME Closed, Trimmed, WellFormed(source), source[Len(source)].op = "return",
         ~StoresSlotAddress
  PROVE  Behaviour(prog) = Behaviour(source)
<1> DEFINE n == Len(source)
           P == States(prog)
           Q == States(source)
           T == {i \in Nat : i < n =>
                   /\ IsState(P[i], i) /\ NoAlias(Q[i], i) /\ Agree(P[i], Q[i], i)}
<1>1. /\ n \in Nat \ {0} /\ n <= MaxOps /\ Len(prog) = n
      /\ DOMAIN source = 1..n /\ DOMAIN prog = 1..n
  <2>1. /\ n \in 1..MaxOps /\ DOMAIN source = 1..n
        /\ DOMAIN prog = 1..n
    BY DEF WellFormed, Trimmed
  <2>2. prog \in Seq([op : Names, args : Seq(Nat)])
    BY DEF Closed, IsFunction
  <2>3. Len(prog) = n
    BY <2>1, <2>2
  <2> QED BY <2>1, <2>3, CleanupAssumption
<1>2. /\ P[0] = Start /\ Q[0] = Start
      /\ \A i \in 1..n : /\ P[i] = After(P[i - 1], i, prog[i])
                         /\ Q[i] = After(Q[i - 1], i, source[i])
  BY <1>1, StatesUnfold
<1> HIDE DEF P, Q
<1>3. 0 \in T
  <2>1. NoAlias(Start, 0) /\ IsState(Start, 0)
    BY StartNoAlias DEF NoAlias
  <2>2. Agree(Start, Start, 0)
    BY DEF Agree
  <2> QED BY <1>2, <2>1, <2>2
<1>4. ASSUME NEW m \in Nat, m \in T PROVE m + 1 \in T
  <2> SUFFICES ASSUME m + 1 < n
               PROVE  /\ IsState(P[m + 1], m + 1)
                      /\ NoAlias(Q[m + 1], m + 1)
                      /\ Agree(P[m + 1], Q[m + 1], m + 1)
    OBVIOUS
  <2>1. IsState(P[m], m) /\ NoAlias(Q[m], m) /\ Agree(P[m], Q[m], m)
    BY <1>1, <1>4
  <2>2. m + 1 \in 1..n /\ (m + 1) - 1 = m
    BY <1>1
  <2>3. /\ P[m + 1] = After(P[m], m + 1, prog[m + 1])
        /\ Q[m + 1] = After(Q[m], m + 1, source[m + 1])
    <3>1. /\ P[m + 1] = After(P[(m + 1) - 1], m + 1, prog[m + 1])
          /\ Q[m + 1] = After(Q[(m + 1) - 1], m + 1, source[m + 1])
      BY <1>2, <2>2
    <3> QED BY <2>2, <3>1
  <2>4. source[m + 1].op # "return" /\ m + 1 \in DOMAIN source
    <3>1. m + 1 \in DOMAIN source
      BY <1>1, <2>2
    <3>2. \A j \in DOMAIN source : source[j].op = "return" => j = n
      BY DEF WellFormed
    <3>3. m + 1 # n
      <4>1. n \in Nat /\ m \in Nat
        BY <1>1, <1>4
      <4> HIDE DEF n
      <4> QED BY <4>1
    <3> QED BY <3>1, <3>2, <3>3
  <2>5. NoAlias(Q[m + 1], m + 1)
    BY <2>1, <2>3, <2>4, NoAliasStep
  <2>6. IsState(P[m + 1], m + 1) /\ Agree(P[m + 1], Q[m + 1], m + 1)
    BY <2>1, <2>3, <2>4, AgreeStep
  <2> QED BY <2>5, <2>6
<1> HIDE DEF T
<1>5. n - 1 \in T
  BY <1>1, <1>3, <1>4, NatSetInduction
<1>6. /\ n - 1 \in Nat /\ n - 1 < n /\ n \in 1..n
  BY <1>1
<1>7. /\ IsState(P[n - 1], n - 1) /\ NoAlias(Q[n - 1], n - 1)
      /\ Agree(P[n - 1], Q[n - 1], n - 1)
  BY <1>5, <1>6 DEF T
<1>8. prog[n] = source[n]
  BY <1>1, <1>6 DEF Trimmed, EffectFree, IsDeadStore
<1> DEFINE a == source[n].args[1]
<1>9. 1 \in DOMAIN source[n].args /\ a \in 1..(n - 1)
  BY <1>1, <1>6, Operands
<1>10. P[n - 1].env[a] = Q[n - 1].env[a]
  BY <1>1, <1>6, <1>7, <1>8, <1>9, KeptOperands DEF Agree
<1>11. ASSUME NEW s, IsState(s, n - 1)
       PROVE  /\ After(s, n, source[n]).mem = s.mem
              /\ After(s, n, source[n]).seen = Append(s.seen, s.env[a])
  <2>1. s = [env |-> s.env, mem |-> s.mem, seen |-> s.seen, defined |-> s.defined]
    BY <1>11 DEF IsState
  <2>2. After(s, n, source[n]) = [s EXCEPT !.seen = Append(s.seen, s.env[a])]
    BY DEF After
  <2>3. After(s, n, source[n]) = [env |-> s.env, mem |-> s.mem,
                                  seen |-> Append(s.seen, s.env[a]),
                                  defined |-> s.defined]
    <3> HIDE DEF n, a
    <3> QED BY <2>1, <2>2, StateUpdates
  <2> HIDE DEF n, a
  <2> QED BY <2>3
<1>12. P[n] = After(P[n - 1], n, source[n]) /\ Q[n] = After(Q[n - 1], n, source[n])
  BY <1>2, <1>6, <1>8
<1>13. IsState(Q[n - 1], n - 1)
  BY <1>7 DEF NoAlias
<1>14. P[n].seen = Q[n].seen
  <2>1. P[n - 1].seen = Q[n - 1].seen
    BY <1>7 DEF Agree
  <2>2. P[n].seen = Append(P[n - 1].seen, P[n - 1].env[a])
    BY <1>7, <1>11, <1>12
  <2>3. Q[n].seen = Append(Q[n - 1].seen, Q[n - 1].env[a])
    BY <1>11, <1>12, <1>13
  <2> HIDE DEF a, n
  <2> QED BY <1>10, <2>1, <2>2, <2>3
<1>15. P[n].mem[1] = Q[n].mem[1]
  <2>1. 1 \in (1..MaxOps) \ OnlyStored
    <3>1. source[1].op = "param"
      BY <1>1 DEF WellFormed
    <3> QED BY <1>1, <3>1, CleanupAssumption DEF OnlyStored
  <2> HIDE DEF a, n
  <2> QED BY <1>7, <1>11, <1>12, <1>13, <2>1 DEF Agree
<1> QED BY <1>1, <1>14, <1>15 DEF Behaviour, Final, P, Q

(***************************************************************************)
(* At no point of the pass can the caller tell the function from the one   *)
(* the pass was given, and no op is erased twice, unless the function      *)
(* stores the address of a slot: for functions of every length, every      *)
(* order of the erasures and every mix of loads, stores and calls.         *)
(***************************************************************************)
THEOREM CallerCannotTell == Spec => []BehaviourPreserved
<1>1. Closed /\ TrimInv => BehaviourPreserved
  <2> SUFFICES ASSUME Closed, TrimInv, phase # "build", ~StoresSlotAddress
               PROVE  phase # "doubleErase" /\ Behaviour(prog) = Behaviour(source)
    BY DEF BehaviourPreserved
  <2>1. /\ WellFormed(source) /\ source[Len(source)].op = "return" /\ Trimmed
        /\ phase # "doubleErase"
    BY DEF TrimInv
  <2> QED BY <2>1, TrimmedBehaves
<1> QED BY <1>1, AlwaysTrimmed, PTL
=============================================================================
