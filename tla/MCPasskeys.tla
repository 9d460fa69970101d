----------------------------- MODULE MCPasskeys -----------------------------
(* One tab creates a passkey and signs with it, another tab signs, too.     *)
EXTENDS Passkeys

MCTabOf == [c \in {1, 2, 3} |-> IF c = 3 THEN "right" ELSE "left"]
=============================================================================
