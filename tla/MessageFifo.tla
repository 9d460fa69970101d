---------------------------- MODULE MessageFifo ----------------------------
(***************************************************************************)
(* What the ends of a session socket may rely on: whole messages, each of  *)
(* them once, in the order in which they were sent.  The frames of         *)
(* mde-web-wire promise this over a socket that carries bytes.             *)
(***************************************************************************)
EXTENDS Naturals, Sequences

CONSTANT Message

VARIABLES sent, got

Init == sent = <<>> /\ got = <<>>

Send(m) == sent' = Append(sent, m) /\ UNCHANGED got

Receive ==
  /\ Len(got) < Len(sent)
  /\ got' = Append(got, sent[Len(got) + 1])
  /\ UNCHANGED sent

Next == Receive \/ \E m \in Message : Send(m)

Spec == Init /\ [][Next]_<<sent, got>>
=============================================================================
