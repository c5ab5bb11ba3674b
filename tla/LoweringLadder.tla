--------------------------- MODULE LoweringLadder ---------------------------
(***************************************************************************)
(* What the compiler promises: the program climbs down a ladder of levels, *)
(* one rung at a time and never back up, and a run that succeeds has       *)
(* stopped exactly on the rung that was asked for.                         *)
(*   0 graph of StableHLO ops    1 Linalg on tensors   2 Linalg on memrefs *)
(*   3 loops and memory accesses                       4 LLVM dialect only *)
(***************************************************************************)
EXTENDS Naturals

CONSTANT Top    \* the lowest rung

VARIABLES goal, level, status

ladder == <<goal, level, status>>

Init == /\ goal \in 0..Top
        /\ level = 0
        /\ status = "running"

Descend == /\ status = "running"
           /\ level < goal
           /\ level' = level + 1
           /\ UNCHANGED <<goal, status>>

Succeed == /\ status = "running"
           /\ level = goal
           /\ status' = "ok"
           /\ UNCHANGED <<goal, level>>

Fail == /\ status = "running"
        /\ status' = "failed"
        /\ UNCHANGED <<goal, level>>

\* A query (--list-passes) is answered before any program is loaded.
Answer == /\ status = "running"
          /\ level = 0
          /\ status' = "answered"
          /\ UNCHANGED <<goal, level>>

Next == Descend \/ Succeed \/ Fail \/ Answer

Spec == Init /\ [][Next]_ladder /\ WF_ladder(Next)
=============================================================================
