--------------------------- MODULE MCBrowserPolicy --------------------------
(* A policy that keeps the browser from this node's role, set here and by a *)
(* peer, against the permissive one.                                        *)
EXTENDS BrowserPolicy

MCPermissive == [default |-> TRUE, roles |-> <<>>]
MCPolicy == {[default |-> TRUE, roles |-> [r \in {role} |-> FALSE]]}
=============================================================================
