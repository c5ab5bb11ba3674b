--------------------------- MODULE MCLLVMCleanup ---------------------------
(***************************************************************************)
(* Every function of at most four ops between its parameter and its        *)
(* return.                                                                 *)
(***************************************************************************)
EXTENDS LLVMCleanup
=============================================================================
