------------------------------ MODULE SeqLoop ------------------------------
(***************************************************************************)
(* What a counted loop promises: its body sees lb, lb + step, ... in this  *)
(* order, every value below ub exactly once, and the value the loop        *)
(* carries, if any, has been through every iteration.                      *)
(***************************************************************************)
EXTENDS Integers, Sequences

VARIABLES
  loop,     \* the loop: a record with fields lb, ub, step and carries
  next,     \* the next induction variable
  trace,    \* the induction variables the body has seen
  ended,    \* whether the loop has ended
  result    \* the iterations the loop's result has been through

vars == <<loop, next, trace, ended, result>>

Init == /\ next = loop.lb
        /\ trace = <<>>
        /\ ended = FALSE
        /\ result = <<>>

Iterate == /\ ~ended /\ next < loop.ub
           /\ trace' = Append(trace, next)
           /\ next' = next + loop.step
           /\ UNCHANGED <<loop, ended, result>>

Finish == /\ ~ended /\ next >= loop.ub
          /\ ended' = TRUE
          /\ result' = IF loop.carries THEN trace ELSE <<>>
          /\ UNCHANGED <<loop, next, trace>>

Next == Iterate \/ Finish

Safe == Init /\ [][Next]_vars

Spec == Safe /\ WF_vars(Next)
=============================================================================
