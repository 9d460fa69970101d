--------------------------- MODULE MCFrameChannel ---------------------------
(* TLC instance of FrameChannel: a frame that fills the region, one that   *)
(* fills half of it, one with no pixels and one that does not fit.         *)
EXTENDS FrameChannel

MCFrames == {"full", "half", "blank", "huge"}
MCWidth  == [f \in MCFrames |->
               CASE f = "full" -> 2 [] f = "half" -> 1 [] f = "blank" -> 0 [] OTHER -> 3]
MCHeight == [f \in MCFrames |-> 1]

=============================================================================
