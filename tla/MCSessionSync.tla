--------------------------- MODULE MCSessionSync ----------------------------
(* Two snapshots, a tab for a node and one for a phone, of which any two    *)
(* are published.                                                          *)
EXTENDS SessionSync
=============================================================================
