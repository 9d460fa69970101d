---------------------------- MODULE LatestFrame ----------------------------
(***************************************************************************)
(* What the shared-memory frame channel promises the shell: an atomic      *)
(* register holding the number of the latest finished frame.  A read       *)
(* either answers with the frame that is the latest at the instant of the  *)
(* answer, or with nothing; it never answers with a mixture and never      *)
(* with an older frame.                                                    *)
(***************************************************************************)
EXTENDS Naturals

VARIABLES
  latest,    \* number of the latest finished frame, 0 before the first
  reading,   \* TRUE while the shell is inside a read
  answer     \* frame number of the last answer, 0 when it was "nothing"

vars == <<latest, reading, answer>>

Init == latest = 0 /\ reading = FALSE /\ answer = 0

Publish == latest' = latest + 1 /\ UNCHANGED <<reading, answer>>

Ask == ~reading /\ reading' = TRUE /\ answer' = 0 /\ UNCHANGED latest

Answer ==
  /\ reading
  /\ latest > 0
  /\ reading' = FALSE
  /\ answer' = latest
  /\ UNCHANGED latest

GiveUp == reading /\ reading' = FALSE /\ UNCHANGED <<latest, answer>>

Next == Publish \/ Ask \/ Answer \/ GiveUp

Spec == Init /\ [][Next]_vars

=============================================================================
