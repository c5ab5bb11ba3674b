-------------------------- MODULE BufferPromotion --------------------------
(***************************************************************************)
(* CustomBufferOpt.cpp: small heap buffers become stack buffers. A         *)
(* function is built op by op in the form the deallocation pipeline leaves *)
(* it, the pattern is applied to its allocations in any order, and the     *)
(* result is executed. The value an op defines is named by the op's        *)
(* position in the function.                                               *)
(***************************************************************************)
EXTENDS Integers, Sequences, FiniteSets

CONSTANTS
  Shapes,    \* the memref types: records with fields static, elements, elem
  MaxOps     \* the longest function

ASSUME BufferAssumption ==
  /\ Shapes \subseteq [static : BOOLEAN, elements : Nat,
                       elem : {"i1", "f32", "index"}]
  /\ MaxOps \in Nat

VARIABLES
  prog,     \* the function: a sequence of ops
  phase,    \* "build", "pass", "run", "done" or "crash"
  at,       \* the op executed next
  mem,      \* the memory behind each buffer, by the op that allocates it
  fault     \* what has gone wrong in the execution

vars == <<prog, phase, at, mem, fault>>

kMaxStackBytes == 4096

(***************************************************************************)
(* Ops whose result is the buffer they take: a view, and the ops that hand *)
(* it on through a call, a branch, the yield of an scf.if or the init      *)
(* operand of a loop.                                                      *)
(***************************************************************************)
Forward == {"view", "call", "branch", "yield", "loop"}

Op(op, of, shape) == [op |-> op, of |-> of, shape |-> shape]

Ops(kind) == {i \in DOMAIN prog : prog[i].op = kind}

Values == {i \in DOMAIN prog : prog[i].op \in Forward \cup {"alloc", "alloca"}}

\* The value a chain of views starts from, and the allocation behind a value.
viewSource[i \in DOMAIN prog] ==
  IF prog[i].op = "view" THEN viewSource[prog[i].of] ELSE i

buffer[i \in DOMAIN prog] ==
  IF prog[i].op \in Forward THEN buffer[prog[i].of] ELSE i

Freed == {buffer[prog[i].of] : i \in Ops("dealloc")}

-----------------------------------------------------------------------------
Init == /\ prog = <<>> /\ phase = "build" /\ at = 1
        /\ mem = <<>> /\ fault = "none"

Emit(op) == prog' = Append(prog, op) /\ UNCHANGED <<at, mem, fault>>

NoShape == [static |-> FALSE, elements |-> 0, elem |-> "f32"]

AddOp == /\ phase = "build" /\ Len(prog) < MaxOps
         /\ \/ \E s \in Shapes : Emit(Op("alloc", 0, s))
            \/ \E kind \in Forward, v \in Values :
                 buffer[v] \notin Freed /\ Emit(Op(kind, v, NoShape))
            \/ \E v \in Ops("alloc") \ Freed : Emit(Op("dealloc", v, NoShape))
         /\ UNCHANGED phase

\* Every buffer is freed once, or returned to the caller, who frees it.
AddReturn == /\ phase = "build"
             /\ \/ Ops("alloc") \subseteq Freed /\ Emit(Op("return", 0, NoShape))
                \/ \E v \in Values :
                     /\ Ops("alloc") \ Freed = {buffer[v]}
                     /\ Emit(Op("return", v, NoShape))
             /\ phase' = "pass"

-----------------------------------------------------------------------------
\* Mutant: views are not followed.
mayEscape_direct(v) ==
  \E u \in DOMAIN prog :
    prog[u].op \in {"return", "call", "branch", "yield"} /\ prog[u].of = v

\* A use that lets the buffer, or a view of it, outlive the function.
mayEscape(v) ==
  \E u \in DOMAIN prog : /\ prog[u].op \in {"return", "call", "branch", "yield"}
                         /\ prog[u].of # 0
                         /\ viewSource[prog[u].of] = v

elementBits(shape) == IF shape.elem = "i1" THEN 1 ELSE 32

totalBytes(shape) == shape.elements * ((elementBits(shape) + 7) \div 8)

Fits(shape) == totalBytes(shape) > 0 /\ totalBytes(shape) <= kMaxStackBytes

\* Mutant: one stack buffer per function.
Promotable_once(a) == /\ prog[a].op = "alloc" /\ prog[a].shape.static
                      /\ prog[a].shape.elem # "index"
                      /\ Fits(prog[a].shape)
                      /\ ~mayEscape(a)
                      /\ Ops("alloca") = {}

Promotable(a) == /\ prog[a].op = "alloc" /\ prog[a].shape.static
                 /\ prog[a].shape.elem # "index"
                 /\ Fits(prog[a].shape)
                 /\ ~mayEscape(a)

\* getIntOrFloatBitWidth() asserts that it is not asked about index.
AssertWidth == /\ phase = "pass"
               /\ \E a \in Ops("alloc") : /\ prog[a].shape.static
                                          /\ prog[a].shape.elem = "index"
               /\ phase' = "crash"
               /\ UNCHANGED <<prog, at, mem, fault>>

\* Mutant: the paired dealloc stays.
Promote_keepDealloc(a) ==
  /\ phase = "pass" /\ Promotable(a)
  /\ prog' = [prog EXCEPT ![a].op = "alloca"]
  /\ UNCHANGED <<phase, at, mem, fault>>

\* Mutant: the dealloc is erased before the escape test.
Promote_eraseFirst(a) ==
  /\ phase = "pass"
  /\ prog[a].op = "alloc" /\ prog[a].shape.static /\ Fits(prog[a].shape)
  /\ prog' = [i \in DOMAIN prog |->
                CASE i = a -> [prog[a] EXCEPT !.op = IF mayEscape(a)
                                                     THEN "alloc" ELSE "alloca"]
                  [] prog[i].op = "dealloc" /\ prog[i].of = a ->
                       [prog[i] EXCEPT !.op = "erased"]
                  [] OTHER -> prog[i]]
  /\ UNCHANGED <<phase, at, mem, fault>>

\* Mutant: success is reported without replacing the op.
Promote_nothing(a) ==
  /\ phase = "pass" /\ Promotable(a)
  /\ UNCHANGED vars

\* matchAndRewrite: the alloc becomes an alloca, its last dealloc goes.
Promote(a) ==
  /\ phase = "pass" /\ Promotable(a)
  /\ LET deallocs == {d \in Ops("dealloc") : prog[d].of = a}
     IN  prog' = [i \in DOMAIN prog |->
                    CASE i = a -> [prog[a] EXCEPT !.op = "alloca"]
                      [] i \in deallocs /\ \A d \in deallocs : d <= i ->
                           [prog[i] EXCEPT !.op = "erased"]
                      [] OTHER -> prog[i]]
  /\ UNCHANGED <<phase, at, mem, fault>>

\* The greedy driver stops when no allocation matches.
EndPass == /\ phase = "pass"
           /\ \A a \in Ops("alloc") :
                /\ ~Promotable(a)
                /\ ~(prog[a].shape.static /\ prog[a].shape.elem = "index")
           /\ phase' = "run"
           /\ mem' = [a \in Ops("alloc") \cup Ops("alloca") |-> "none"]
           /\ UNCHANGED <<prog, at, fault>>

-----------------------------------------------------------------------------
Step(b, state) == /\ mem' = [mem EXCEPT ![b] = state]
                  /\ at' = at + 1 /\ UNCHANGED <<prog, phase, fault>>

Fault(what) == /\ fault' = what /\ phase' = "done"
               /\ UNCHANGED <<prog, at, mem>>

Executing(kind) == phase = "run" /\ prog[at].op = kind

Allocate == \/ Executing("alloc") /\ Step(at, "heap")
            \/ Executing("alloca") /\ Step(at, "stack")

Free == /\ Executing("dealloc")
        /\ LET b == buffer[prog[at].of]
           IN  IF mem[b] = "heap"
               THEN Step(b, "freed")
               ELSE Fault("free of " \o mem[b])

Skip == /\ phase = "run" /\ prog[at].op \in Forward \cup {"erased"}
        /\ at' = at + 1
        /\ UNCHANGED <<prog, phase, mem, fault>>

\* The caller frees the buffer it is given.
Return == /\ Executing("return")
          /\ LET b == buffer[prog[at].of]
             IN  IF prog[at].of = 0 \/ mem[b] = "heap"
                 THEN /\ phase' = "done"
                      /\ mem' = IF prog[at].of = 0 THEN mem
                                ELSE [mem EXCEPT ![b] = "freed"]
                      /\ UNCHANGED <<prog, at, fault>>
                 ELSE Fault("return of " \o mem[b])

Build == AddOp \/ AddReturn

Pass == AssertWidth \/ EndPass \/ \E a \in DOMAIN prog : Promote(a)

Execute == Allocate \/ Free \/ Skip \/ Return

Next == Build \/ Pass \/ Execute

Spec == Init /\ [][Next]_vars /\ WF_vars(Pass \/ Execute)

-----------------------------------------------------------------------------
\* A loop stands between the buffer and the value v.
ThroughLoop[v \in DOMAIN prog] ==
  IF prog[v].op \in Forward \ {"loop"} THEN ThroughLoop[prog[v].of]
  ELSE prog[v].op = "loop"

(***************************************************************************)
(* The promoted function frees heap buffers only and returns no stack      *)
(* buffer, whichever buffers were promoted in whichever order, unless the  *)
(* buffer went through a loop on its way to the caller.                    *)
(***************************************************************************)
MemorySafeOutsideLoops == fault # "none" => ThroughLoop[prog[at].of]

(***************************************************************************)
(* A function that ends has freed every heap buffer or handed it to its    *)
(* caller: no promotion takes away the dealloc of a buffer left on the     *)
(* heap.                                                                   *)
(***************************************************************************)
NoLeak == phase = "done" /\ fault = "none" =>
            \A b \in DOMAIN mem : mem[b] # "heap"

(***************************************************************************)
(* What is promoted does not depend on the order in which the driver       *)
(* visits the allocations: a promotion neither enables nor disables        *)
(* another one.                                                            *)
(***************************************************************************)
PromotionsIndependent ==
  [][phase = "pass" =>
       \A a \in DOMAIN prog :
         Promotable(a)' = (Promotable(a) /\ prog'[a].op = "alloc")]_vars

\* The greedy driver and the function it leaves behind both end.
PromotionEnds == phase = "pass" ~> phase \in {"done", "crash"}

-----------------------------------------------------------------------------
(***************************************************************************)
(* CustomBufferOpt.cpp:56: a buffer that escapes is not put on the stack.  *)
(***************************************************************************)
MemorySafe == fault = "none"
=============================================================================
