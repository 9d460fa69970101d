-------------------------- MODULE MCSessionFrames ---------------------------
(* TLC instance of SessionFrames: the .cfg files give the constants values. *)
EXTENDS SessionFrames

=============================================================================
