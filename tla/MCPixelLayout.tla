--------------------------- MODULE MCPixelLayout ---------------------------
(* A word of 128, heights up to 50 and one very long row: the virtual      *)
(* height and the offsets both stay below the word and wrap.               *)
EXTENDS PixelLayout

Widths  == {1, 2, 3, 4, 7, 110}
Heights == 1..50
=============================================================================
