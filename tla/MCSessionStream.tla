-------------------------- MODULE MCSessionStream --------------------------
(* A small message between large ones, in a socket smaller than some.       *)
EXTENDS SessionStream

MCSize == <<3, 1, 4, 1, 2, 1, 3>>
=============================================================================
