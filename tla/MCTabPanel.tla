----------------------------- MODULE MCTabPanel -----------------------------
(* TLC's instance of TabPanel. *)
EXTENDS TabPanel
MCLoud == {3}
=============================================================================
