---------------------------- MODULE LLVMCleanup ----------------------------
(***************************************************************************)
(* CustomLLVMCleanup.cpp: stores to stack slots nobody loads are erased,   *)
(* then ops without effects and without uses. A function in the LLVM       *)
(* dialect is one block of ops; the value an op defines is named by the    *)
(* op's position. Volatile accesses and aggregates are left out.           *)
(***************************************************************************)
EXTENDS Integers, Sequences, FiniteSets

CONSTANT MaxOps    \* the longest function, its first and last op included

ASSUME CleanupAssumption == MaxOps \in Nat \ {0, 1}

VARIABLES
  prog,     \* the function: a sequence of ops
  source,   \* the function the pass was given
  phase,    \* "build", "stores", "eraseStores", "ops", "eraseOps", "done"
            \* or "doubleErase"
  dead      \* what the last walk has collected: uses of slots, or dead ops

vars == <<prog, source, phase, dead>>

(***************************************************************************)
(* The ops. A store's operands are the value and the address; "param" is   *)
(* the function's argument, a pointer to memory of the caller; "gep" also  *)
(* stands for the other ways to compute an address from an address.        *)
(***************************************************************************)
Op(op, args) == [op |-> op, args |-> args]

Users(p, v) == UNION {{<<i, k>> : k \in {n \in DOMAIN p[i].args : p[i].args[n] = v}} :
                        i \in DOMAIN p}

Defines == {"param", "alloca", "const", "load", "gep", "add", "call"}

Values == {i \in DOMAIN prog : prog[i].op \in Defines}

\* isMemoryEffectFree: the others allocate, read, write or call.
EffectFree == {"const", "gep", "add"}

Erased == Op("erased", <<>>)

Erase(i) == prog' = [prog EXCEPT ![i] = Erased]

-----------------------------------------------------------------------------
(***************************************************************************)
(* What a function does: its ops in order on a state of values, memory by  *)
(* the op that owns the cell, and calls made with what they find. An       *)
(* access through what is not an address is undefined and stays so.        *)
(***************************************************************************)
Start == [env |-> <<>>, mem |-> [c \in 1..MaxOps |-> <<"undef">>], seen |-> <<>>,
          defined |-> TRUE]

Bind(s, v) == [s EXCEPT !.env = Append(@, v)]

IsAddress(v) == v[1] = "cell"

Addressed(s, a) == IF IsAddress(s.env[a]) THEN s.env[a][2] ELSE 0

Undefined(s) == [Bind(s, <<"none">>) EXCEPT !.defined = FALSE]

After(s, i, o) ==
  LET value(n) == s.env[o.args[n]]
      cell(n) == Addressed(s, o.args[n])
  IN  IF o.op \in {"load", "store", "call"} /\ cell(Len(o.args)) = 0
      THEN Undefined(s)
      ELSE CASE o.op = "param" ->
                  [Bind(s, <<"cell", i>>) EXCEPT !.mem[i] = <<"caller">>]
             [] o.op = "alloca" ->
                  [Bind(s, <<"cell", i>>) EXCEPT !.mem[i] = <<"undef">>]
             [] o.op = "const" -> Bind(s, <<"const">>)
             [] o.op = "erased" -> Bind(s, <<"none">>)
             [] o.op = "gep" -> Bind(s, value(1))
             [] o.op = "add" -> Bind(s, <<"add", value(1)>>)
             [] o.op = "load" -> Bind(s, s.mem[cell(1)])
             [] o.op = "store" ->
                  [Bind(s, <<"none">>) EXCEPT !.mem[cell(2)] = value(1)]
             [] o.op = "call" -> [Bind(s, <<"called">>) EXCEPT
                                    !.seen = Append(@, s.mem[cell(1)]),
                                    !.mem[cell(1)] = <<"callee">>]
             [] o.op = "return" -> [s EXCEPT !.seen = Append(@, value(1))]

States(p) == LET s[i \in 0..Len(p)] ==
                   IF i = 0 THEN Start ELSE After(s[i - 1], i, p[i])
             IN  s

Final(p) == States(p)[Len(p)]

\* What the caller can see: the memory it owns, what callees found in theirs,
\* and the value returned. The first op is the parameter.
Behaviour(p) == LET s == Final(p) IN <<s.mem[1], s.seen>>

IsDefined(p) == Final(p).defined

-----------------------------------------------------------------------------
Init == /\ prog = <<Op("param", <<>>)>> /\ source = <<>>
        /\ phase = "build" /\ dead = {}

Emit(kind, args) == prog' = Append(prog, Op(kind, args))

AddOp ==
  /\ phase = "build" /\ Len(prog) + 1 < MaxOps
  /\ \/ \E kind \in {"alloca", "const"} : Emit(kind, <<>>)
     \/ \E kind \in {"load", "gep", "add", "call"}, v \in Values : Emit(kind, <<v>>)
     \/ \E v \in Values, p \in Values : Emit("store", <<v, p>>)
  /\ UNCHANGED <<source, phase, dead>>

\* A function accesses memory through addresses only.
AddReturn == /\ phase = "build"
             /\ \E v \in Values : Emit("return", <<v>>)
             /\ IsDefined(prog')
             /\ source' = prog'
             /\ phase' = "stores"
             /\ UNCHANGED dead

-----------------------------------------------------------------------------
Slots == {a \in DOMAIN prog : prog[a].op = "alloca"}

\* Mutant: a computed address is not taken for an access.
hasLoad_gep(a) ==
  \E u \in Users(prog, a) : prog[u[1]].op \notin {"store", "gep"}

\* A load, a computed address, or a user the pass does not know.
hasLoad(a) == \E u \in Users(prog, a) : prog[u[1]].op # "store"

\* The stores to slots that are never loaded. A store is on the list once for
\* each slot it uses, as the value stored or as the address.
DeadStores == UNION {{u \in Users(prog, a) : prog[u[1]].op = "store"} :
                       a \in {b \in Slots : ~hasLoad(b)}}

CollectDeadStores == /\ phase = "stores"
                     /\ dead' = DeadStores
                     /\ phase' = "eraseStores"
                     /\ UNCHANGED <<prog, source>>

EraseStore ==
  /\ phase = "eraseStores"
  /\ \E u \in dead :
       /\ dead' = dead \ {u}
       /\ IF prog[u[1]] = Erased
          THEN phase' = "doubleErase" /\ UNCHANGED prog
          ELSE Erase(u[1]) /\ UNCHANGED phase
  /\ UNCHANGED source

EndStores == /\ phase = "eraseStores" /\ dead = {}
             /\ phase' = "ops"
             /\ UNCHANGED <<prog, source, dead>>

\* Mutant: only the first operand of an op counts as a use.
DeadOps_firstUse == {i \in DOMAIN prog :
                       /\ prog[i].op \in EffectFree
                       /\ \A u \in Users(prog, i) : u[2] # 1}

\* Ops with results, free of effects and without uses.
DeadOps == {i \in DOMAIN prog : prog[i].op \in EffectFree /\ Users(prog, i) = {}}

\* One round of the while loop; changed is whether it has found any.
CollectDeadOps == /\ phase = "ops" /\ DeadOps # {}
                  /\ dead' = DeadOps
                  /\ phase' = "eraseOps"
                  /\ UNCHANGED <<prog, source>>

\* Mutant: the list is emptied and the ops stay.
EraseOp_kept == /\ phase = "eraseOps" /\ dead # {}
                /\ dead' = {}
                /\ UNCHANGED <<prog, source, phase>>

\* The collected ops go in reverse order.
EraseOp == /\ phase = "eraseOps"
           /\ \E i \in dead : /\ \A j \in dead : j <= i
                              /\ Erase(i)
                              /\ dead' = dead \ {i}
           /\ UNCHANGED <<source, phase>>

\* Mutant: one round over the module.
EndRound_last == /\ phase = "eraseOps" /\ dead = {}
                 /\ phase' = "done"
                 /\ UNCHANGED <<prog, source, dead>>

EndRound == /\ phase = "eraseOps" /\ dead = {}
            /\ phase' = "ops"
            /\ UNCHANGED <<prog, source, dead>>

EndPass == /\ phase = "ops" /\ DeadOps = {}
           /\ phase' = "done"
           /\ UNCHANGED <<prog, source, dead>>

Pass == \/ CollectDeadStores \/ EraseStore \/ EndStores
        \/ CollectDeadOps \/ EraseOp \/ EndRound \/ EndPass

Next == AddOp \/ AddReturn \/ Pass

\* The pass never waits; a function need never be finished by its author.
Spec == Init /\ [][Next]_vars /\ WF_vars(Pass)

-----------------------------------------------------------------------------
\* No op that is still there uses an erased one, between any two erasures:
\* eliminateDeadOps erases what it has collected without looking again.
NoUseOfErased ==
  \A i \in DOMAIN prog : \A k \in DOMAIN prog[i].args :
    prog[prog[i].args[k]].op # "erased"

\* The address of a slot is itself stored.
StoresSlotAddress ==
  \E i \in DOMAIN source : /\ source[i].op = "store"
                           /\ source[source[i].args[1]].op = "alloca"

(***************************************************************************)
(* At no point of the pass can the caller tell the function from the one   *)
(* the pass was given, and no op is erased twice, unless the function      *)
(* stores the address of a slot.                                           *)
(***************************************************************************)
BehaviourPreserved ==
  phase # "build" /\ ~StoresSlotAddress =>
    /\ phase # "doubleErase"
    /\ Behaviour(prog) = Behaviour(source)

\* The slots of the source whose address is stored to and not used otherwise:
\* nobody can read them.
Unread == {a \in DOMAIN source :
             /\ source[a].op = "alloca"
             /\ \A u \in Users(source, a) : source[u[1]].op = "store" /\ u[2] = 2}

\* The ops the source needs: those with effects, but for the stores to such
\* slots, and what these use in any number of steps. A store of a slot's
\* address is needed like any other.
Roots == {i \in DOMAIN source :
            /\ source[i].op \notin EffectFree
            /\ source[i].op = "store" => source[i].args[2] \notin Unread}

needed[i \in DOMAIN source] ==
  i \in Roots \/ \E u \in Users(source, i) : needed[u[1]]

Needed == {i \in DOMAIN source : needed[i]}

(***************************************************************************)
(* When the pass ends exactly the ops the source needs are left: erasing   *)
(* round by round reaches what a mark and sweep would, whatever the order  *)
(* of the walks. A function that stores the address of a slot is excepted: *)
(* the pass may erase that store, which the source needs.                  *)
(***************************************************************************)
LeavesNeeded ==
  phase = "done" /\ ~StoresSlotAddress =>
    Needed = {i \in DOMAIN prog : prog[i].op # "erased"}

\* The while loop over the rounds ends, and the pass with it.
RoundsEnd == phase = "stores" ~> phase \in {"done", "doubleErase"}
=============================================================================
