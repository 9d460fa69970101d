--------------------------- MODULE SessionStream ---------------------------
(***************************************************************************)
(* One direction of a session socket, byte by byte: send_frame writes a    *)
(* length and a payload into a socket that does not block, the other end   *)
(* collects what it receives and takes whole frames off the front          *)
(* (take_frame of mde-web-wire, drain_frames of the session).              *)
(*                                                                         *)
(* A frame is a row of cells, a cell being what the kernel takes or        *)
(* refuses as a whole: a small message is one cell, the text of a page is  *)
(* many.  The first cell of a frame has its length.  SessionFrames and     *)
(* HeldCallbacks pass whole messages; this module says when they may.      *)
(***************************************************************************)
EXTENDS Naturals, Sequences

CONSTANTS MaxMessages, \* bound: messages sent
          Size,        \* the cells of each message's frame
          Room         \* the cells the socket holds

Message == 1 .. MaxMessages

ASSUME BoundAssumption == MaxMessages \in Nat /\ Room \in Nat \ {0}
ASSUME SizeAssumption == Size \in [Message -> Nat \ {0}]

VARIABLES
  next,     \* the message in send_frame, or the next one
  at,       \* how much of it is written
  sock,     \* the socket's buffer
  rbuf,     \* what the receiver has collected
  sender,   \* "up" or "ended"
  receiver, \* "up" or "ended"
  decoded,  \* what the receiver's handler was given
  whole,    \* messages written whole before a send failed     (history)
  failed    \* a send has failed                               (history)

streamVars == <<next, at, sock, rbuf, sender, receiver, decoded, whole, failed>>

Cell == [of : Message, at : Nat]
Forged == 0   \* a payload put together from the pieces of several messages

StreamTypeOK ==
  /\ next \in 1 .. MaxMessages + 1
  /\ at \in 0 .. (IF next \in Message THEN Size[next] - 1 ELSE 0)
  /\ sock \in Seq(Cell) /\ Len(sock) <= Room
  /\ rbuf \in Seq(Cell)
  /\ sender \in {"up", "ended"} /\ receiver \in {"up", "ended"}
  /\ decoded \in Seq(Message \cup {Forged})
  /\ whole \in Seq(Message)
  /\ failed \in BOOLEAN

StreamInit ==
  /\ next = 1 /\ at = 0
  /\ sock = <<>> /\ rbuf = <<>>
  /\ sender = "up" /\ receiver = "up"
  /\ decoded = <<>> /\ whole = <<>> /\ failed = FALSE

-----------------------------------------------------------------------------
(* send_frame: write_all of the frame.                                     *)

CanWrite == receiver = "up" /\ Len(sock) < Room

Write ==
  /\ sender = "up" /\ next \in Message
  /\ CanWrite
  /\ sock' = Append(sock, [of |-> next, at |-> at])
  /\ IF at + 1 < Size[next]
       THEN at' = at + 1 /\ UNCHANGED <<next, whole>>
       ELSE /\ at' = 0 /\ next' = next + 1
            /\ whole' = IF failed THEN whole ELSE Append(whole, next)
  /\ UNCHANGED <<rbuf, sender, receiver, decoded, failed>>

\* Mutant: what was written before the failure is taken to be sent.
WriteFailsUnnoticed ==
  /\ sender = "up" /\ next \in Message
  /\ ~CanWrite
  /\ next' = next + 1 /\ at' = 0
  /\ UNCHANGED <<sock, rbuf, sender, receiver, decoded, whole, failed>>

\* The socket is full, or closed: write_all gives up where it is, and what it
\* has written of the frame stays in the socket.  The shell marks its session
\* crashed and the Servo helper leaves; the CEF helper goes on sending.
WriteFails ==
  /\ sender = "up" /\ next \in Message
  /\ ~CanWrite
  /\ next' = next + 1 /\ at' = 0
  /\ sender' \in {"up", "ended"}
  /\ failed' = TRUE
  /\ UNCHANGED <<sock, rbuf, receiver, decoded, whole>>

\* The sender goes away between two messages.
Leave ==
  /\ sender = "up" /\ at = 0
  /\ sender' = "ended"
  /\ UNCHANGED <<next, at, sock, rbuf, receiver, decoded, whole, failed>>

-----------------------------------------------------------------------------
(* poll: receive, and take every whole frame.                              *)

\* The lengths the first cell of a frame may be read as: its own, or anything
\* where no frame begins.
Lengths(c) == IF c.at = 0 THEN {Size[c.of]} ELSE 1 .. Len(rbuf) + 1

\* Mutant: a frame is taken only when more follows it.
CompleteLate == {n \in Lengths(rbuf[1]) : n < Len(rbuf)}

\* take_frame
Complete == {n \in Lengths(rbuf[1]) : n <= Len(rbuf)}

Drained == rbuf # <<>> => \E n \in Lengths(rbuf[1]) : n > Len(rbuf)

Recv ==
  /\ receiver = "up" /\ sock # <<>> /\ Drained
  /\ \E n \in 1 .. Len(sock) :
       /\ rbuf' = rbuf \o SubSeq(sock, 1, n)
       /\ sock' = SubSeq(sock, n + 1, Len(sock))
  /\ UNCHANGED <<next, at, sender, receiver, decoded, whole, failed>>

IsFrame(s) ==
  /\ s[1].at = 0 /\ Len(s) = Size[s[1].of]
  /\ \A i \in 1 .. Len(s) : s[i] = [of |-> s[1].of, at |-> i - 1]

Content(s) == IF IsFrame(s) THEN s[1].of ELSE Forged

\* A payload of pieces can be refused by the decoder, or read as a message.
Take ==
  /\ receiver = "up" /\ rbuf # <<>>
  /\ \E n \in Complete :
       LET s == SubSeq(rbuf, 1, n) IN
         /\ rbuf' = SubSeq(rbuf, n + 1, Len(rbuf))
         /\ \/ decoded' = Append(decoded, Content(s)) /\ UNCHANGED receiver
            \/ ~IsFrame(s) /\ receiver' = "ended" /\ UNCHANGED decoded
  /\ UNCHANGED <<next, at, sock, sender, whole, failed>>

\* MAX_FRAME_LEN: what is no length can be too long for one.
TooLong ==
  /\ receiver = "up" /\ rbuf # <<>> /\ rbuf[1].at # 0
  /\ receiver' = "ended"
  /\ UNCHANGED <<next, at, sock, rbuf, sender, decoded, whole, failed>>

Eof ==
  /\ receiver = "up" /\ sender = "ended" /\ sock = <<>> /\ Drained
  /\ receiver' = "ended"
  /\ UNCHANGED <<next, at, sock, rbuf, sender, decoded, whole, failed>>

-----------------------------------------------------------------------------
Poll == Recv \/ Take \/ TooLong \/ Eof
StreamNext == Write \/ WriteFails \/ Leave \/ Poll

StreamSpec == StreamInit /\ [][StreamNext]_streamVars

\* The receiver's loop goes on.
StreamFairSpec == StreamSpec /\ WF_streamVars(Poll)

-----------------------------------------------------------------------------
(* Properties.                                                             *)

\* What was decoded of the messages sent before any failure.
Sound == IF Len(decoded) <= Len(whole) THEN decoded
         ELSE SubSeq(decoded, 1, Len(whole))

\* What the session code relies on: messages arrive whole, each once and in
\* the order of sending, although frames are cut anywhere on their way.  A
\* sender that goes on after a failure spoils none of the earlier ones; of
\* the later ones nothing is said.
Fifo == INSTANCE MessageFifo WITH sent <- whole, got <- Sound
IsFifo == Fifo!Spec

\* A message written whole is decoded, or the receiver has ended: no frame is
\* left in the buffer for want of a later one.
Arrives ==
  \A i \in Message :
    Len(whole) >= i ~> Len(decoded) >= i \/ receiver = "ended"
=============================================================================
