------------------------------ MODULE AtomicOp ------------------------------
(***************************************************************************)
(* What a lowering of a linalg op must implement: the output changes all   *)
(* at once to what the op computes from the memory it found.               *)
(***************************************************************************)
EXTENDS LinalgSemantics

VARIABLES op, mem, ended

vars == <<op, mem, ended>>

Init == mem = Distinct /\ ended = FALSE

Do == /\ ~ended
      /\ mem' = Perform(op, mem)
      /\ ended' = TRUE
      /\ UNCHANGED op

Spec == Init /\ [][Do]_vars
=============================================================================
