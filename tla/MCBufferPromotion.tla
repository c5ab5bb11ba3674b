------------------------- MODULE MCBufferPromotion -------------------------
(***************************************************************************)
(* Functions of up to four ops and a return over buffers at and just above *)
(* the 4 KiB limit, with sub-byte and index elements, empty and dynamic.   *)
(***************************************************************************)
EXTENDS BufferPromotion

Shape(static, elements, elem) ==
  [static |-> static, elements |-> elements, elem |-> elem]

MCShapes == {Shape(TRUE, 1024, "f32"), Shape(TRUE, 1025, "f32"),
             Shape(TRUE, 4096, "i1"), Shape(TRUE, 0, "f32"),
             Shape(FALSE, 0, "f32"), Shape(TRUE, 4, "index")}
=============================================================================
