-------------------------- MODULE MCHeldCallbacks ---------------------------
(* TLC instance of HeldCallbacks: two resource requests of which one is    *)
(* blocked, two permission prompts, a dialog.                              *)
EXTENDS HeldCallbacks

MCKind(reqs) ==
  [c \in reqs |-> CASE c \in {"r1", "r2"} -> "resource"
                    [] c \in {"p1", "p3"} -> "permission"
                    [] OTHER -> "unload"]
MCKey(reqs) == [c \in reqs |-> "camera"]
MCLimit == [k \in Kinds |-> IF k = "permission" THEN 2 ELSE 1]

\* Every kind of request; the two prompts ask for the same capability, and
\* the second overflows the shell's queue.
AllRequests == {"r1", "r2", "p1", "p3", "u1"}
AllKind == MCKind(AllRequests)
AllKey == MCKey(AllRequests)

MCBlocked == {"r2"}

=============================================================================
