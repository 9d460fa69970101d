------------------------- MODULE SessionFramesProofs -------------------------
(***************************************************************************)
(* The safety of SessionFrames for sockets and polls of any size and both  *)
(* kinds of helper.                                                        *)
(*                                                                         *)
(* The argument: every sequence number the session can meet (in an event,  *)
(* in lastSeq, in loaded, in a frame it holds) is at most the region's     *)
(* sequence, and a frame is copied only when the region has one.  So what  *)
(* is copied is never older than what is held, and never older than the    *)
(* number it is recorded under.                                            *)
(***************************************************************************)
EXTENDS SessionFrames, SequenceTheorems, FiniteSetTheorems, TLAPS

\* The PaintReady events in s announce nothing beyond sequence n.
Announced(s, n) ==
  \A i \in 1 .. Len(s) : s[i].type = "PaintReady" => s[i].seq <= n

\* Nothing the session knows is newer than the region.
NothingNewer ==
  /\ Announced(events, seq)
  /\ Announced(rbuf, seq)
  /\ loaded <= seq
  /\ lastSeq <= seq
  /\ pending <= seq
  /\ shown <= seq
  /\ shown <= Held

\* The poll is left as soon as the session has crashed; a snapshot is taken
\* only after a sequence other than 0 was loaded.
PollAlive ==
  /\ Crashed => spc \in {"idle", "upload", "closing", "closed"}
  /\ spc = "snapshot" => loaded # 0

\* The sequence is odd while an emit is under way and at no other time the
\* helper is alive.
Parity ==
  /\ hpc = "painting" => seq % 2 = 1
  /\ hpc \in {"boot", "serving", "announce"} => seq % 2 = 0

IInv ==
  /\ TypeOK
  /\ Parity
  /\ NothingNewer
  /\ PollAlive
  /\ NeverAhead
  /\ LiveMeansPixels

Sent == Seq(Event)

-----------------------------------------------------------------------------
(* Sequences of events. *)

LEMMA AnnouncedAppend ==
  ASSUME NEW s \in Sent, NEW e \in Event, NEW n \in Nat, Announced(s, n),
         e.type = "PaintReady" => e.seq <= n
  PROVE  Append(s, e) \in Sent /\ Announced(Append(s, e), n)
<1>1. Append(s, e) \in Sent /\ Len(Append(s, e)) = Len(s) + 1
  BY AppendProperties DEF Sent
<1>2. Append(s, e)[Len(s) + 1] = e /\ \A i \in 1 .. Len(s) : Append(s, e)[i] = s[i]
  BY AppendProperties DEF Sent
<1>3. Len(s) \in Nat
  BY DEF Sent
<1> QED BY <1>1, <1>2, <1>3 DEF Announced

LEMMA AnnouncedMore ==
  ASSUME NEW s \in Sent, NEW n \in Nat, NEW m \in Nat, n <= m, Announced(s, n)
  PROVE  Announced(s, m)
<1> SUFFICES ASSUME NEW i \in 1 .. Len(s), s[i].type = "PaintReady"
             PROVE  s[i].seq <= m
  BY DEF Announced
<1>1. s[i] \in Event /\ s[i].seq <= n
  BY DEF Sent, Announced
<1>2. s[i].seq \in Nat
  BY <1>1 DEF Event, Attach, Query, CrashNote
<1> QED BY <1>1, <1>2

LEMMA AnnouncedTail ==
  ASSUME NEW s \in Sent, NEW n \in Nat, Announced(s, n), s # <<>>
  PROVE  /\ Head(s) \in Event /\ (Head(s).type = "PaintReady" => Head(s).seq <= n)
         /\ Tail(s) \in Sent /\ Announced(Tail(s), n)
<1>1. Len(s) \in Nat \ {0} /\ Head(s) = s[1] /\ Head(s) \in Event /\ Tail(s) \in Sent
  BY DEF Sent
<1>2. Len(Tail(s)) = Len(s) - 1 /\ \A i \in 1 .. Len(s) - 1 : Tail(s)[i] = s[i + 1]
  BY DEF Sent
<1> QED BY <1>1, <1>2 DEF Announced

LEMMA AnnouncedBatch ==
  ASSUME NEW s \in Sent, NEW r \in Sent, NEW n \in Nat, NEW k \in 1 .. Len(s),
         Announced(s, n), Announced(r, n)
  PROVE  /\ r \o SubSeq(s, 1, k) \in Sent /\ Announced(r \o SubSeq(s, 1, k), n)
         /\ SubSeq(s, k + 1, Len(s)) \in Sent /\ Announced(SubSeq(s, k + 1, Len(s)), n)
         /\ Len(SubSeq(s, k + 1, Len(s))) <= Len(s)
<1> DEFINE b == SubSeq(s, 1, k)
           rest == SubSeq(s, k + 1, Len(s))
<1>1. Len(s) \in Nat /\ Len(r) \in Nat
  BY DEF Sent
<1>2. b \in Sent /\ Len(b) = k /\ \A i \in 1 .. k : b[i] = s[i]
  BY <1>1, SubSeqProperties DEF Sent
<1>3. /\ rest \in Sent /\ Len(rest) = Len(s) - k
      /\ \A i \in 1 .. Len(s) - k : rest[i] = s[k + i]
  BY <1>1, SubSeqProperties DEF Sent
<1>4. /\ r \o b \in Sent /\ Len(r \o b) = Len(r) + k
      /\ \A i \in 1 .. Len(r) + k : (r \o b)[i] = IF i <= Len(r) THEN r[i] ELSE b[i - Len(r)]
  BY <1>1, <1>2, ConcatProperties DEF Sent
<1> HIDE DEF b, rest
<1>5. Announced(rest, n)
  BY <1>1, <1>3 DEF Announced
<1>6. Announced(r \o b, n)
  BY <1>1, <1>2, <1>4 DEF Announced
<1> QED BY <1>1, <1>3, <1>4, <1>5, <1>6 DEF b, rest

-----------------------------------------------------------------------------
(* The helper's steps. *)

\* An event that announces nothing newer than the region may be sent.
LEMMA SendStep ==
  ASSUME IInv, NEW e \in Event, Send(e), CanSend,
         e.type = "PaintReady" => e.seq <= seq, UNCHANGED seq
  PROVE  events' \in Seq(Event) /\ Len(events') <= EventLimit /\ Announced(events', seq')
<1>1. events \in Sent /\ Announced(events, seq) /\ seq \in Nat
  BY ConstantsAssumption DEF IInv, TypeOK, NothingNewer, Sent
<1>2. Append(events, e) \in Sent /\ Announced(Append(events, e), seq)
  BY <1>1, AnnouncedAppend
<1>3. Len(Append(events, e)) = Len(events) + 1
  BY <1>1, AppendProperties DEF Sent
<1>4. Len(events) + 1 <= EventLimit
  BY <1>1, ConstantsAssumption DEF CanSend, Sent
<1> QED BY <1>2, <1>3, <1>4 DEF Send, Sent

LEMMA HelperStep ==
  ASSUME IInv, Helper PROVE IInv'
<1> USE ConstantsAssumption DEF TypeOK, shellVars, helperVars, pollVars, frameVars
<1>1. events \in Sent /\ rbuf \in Sent /\ seq \in Nat
  BY DEF IInv, Sent
<1>2. UNCHANGED shellVars
  BY DEF Helper, AttachFrame, PaintBegin, PaintEnd, AnnouncePaint, SendEvent,
         TakeControl, HelperExit
\* What is left to show of a step once the region and the events are done.
<1>3. ASSUME seq <= seq', seq' \in 0 .. 2 * MaxPaints, control' \in 0 .. ControlLimit,
             events' \in Seq(Event), Len(events') <= EventLimit, Announced(events', seq'),
             hpc' \in {"boot", "serving", "painting", "announce", "gone"}, Parity'
      PROVE  IInv'
  <2>1. Announced(rbuf, seq')
    <3>1. Announced(rbuf, seq) /\ seq' \in Nat
      BY <1>3 DEF IInv, NothingNewer
    <3> QED BY <1>1, <1>3, <3>1, AnnouncedMore
  <2>2. TypeOK'
    BY <1>2, <1>3 DEF IInv
  <2>3. NothingNewer'
    <3>1. Announced(rbuf', seq')
      BY <1>2, <2>1
    <3> QED BY <1>2, <1>3, <3>1 DEF IInv, NothingNewer, Held
  <2>4. (PollAlive /\ NeverAhead /\ LiveMeansPixels)'
    BY <1>2 DEF IInv, PollAlive, Crashed, NeverAhead, LiveMeansPixels, Held
  <2> QED BY <1>3, <2>2, <2>3, <2>4 DEF IInv
<1>4. ASSUME seq <= seq', seq' \in Nat, UNCHANGED events
      PROVE  events' \in Seq(Event) /\ Len(events') <= EventLimit /\ Announced(events', seq')
  <2>1. Announced(events, seq')
    BY <1>1, <1>4, AnnouncedMore DEF IInv, NothingNewer
  <2> QED BY <1>4, <2>1 DEF IInv
<1>5. CASE AttachFrame
  <2>1. Attach \in Event /\ Attach.type # "PaintReady"
    BY DEF Event, Attach
  <2>2. events' \in Seq(Event) /\ Len(events') <= EventLimit /\ Announced(events', seq')
    BY <1>1, <1>4, <1>5, <2>1, SendStep DEF AttachFrame
  <2> QED BY <1>3, <1>5, <2>2 DEF AttachFrame, IInv, Parity
<1>6. CASE PaintBegin
  <2>1. seq' = seq + 1 /\ seq' \in 0 .. 2 * MaxPaints /\ UNCHANGED <<events, control>>
    BY <1>1, <1>6 DEF PaintBegin
  <2>2. Parity'
    BY <1>1, <1>6 DEF PaintBegin, IInv, Parity
  <2> QED BY <1>1, <1>3, <1>4, <1>6, <2>1, <2>2 DEF PaintBegin, IInv
<1>7. CASE PaintEnd
  <2>1. seq % 2 = 1 /\ seq <= 2 * MaxPaints
    BY <1>7 DEF PaintEnd, IInv, Parity
  <2>2. seq' = seq + 1 /\ seq' \in 0 .. 2 * MaxPaints /\ UNCHANGED <<events, control>>
    BY <1>1, <1>7, <2>1 DEF PaintEnd
  <2>3. Parity'
    BY <1>1, <1>7, <2>1 DEF PaintEnd, Parity
  <2> QED BY <1>1, <1>3, <1>4, <1>7, <2>2, <2>3 DEF PaintEnd, IInv
<1>8. CASE AnnouncePaint
  <2>1. PaintReady(seq) \in Event /\ PaintReady(seq).seq = seq
    BY <1>1 DEF Event, PaintReady
  <2>2. events' \in Seq(Event) /\ Len(events') <= EventLimit /\ Announced(events', seq')
    <3>1. CASE CanSend
      <4> PICK e \in Event : e = PaintReady(seq)
        BY <2>1
      <4> QED BY <1>1, <1>8, <2>1, <3>1, SendStep DEF AnnouncePaint
    <3>2. CASE ~CanSend
      BY <1>1, <1>4, <1>8, <3>2 DEF AnnouncePaint
    <3> QED BY <3>1, <3>2
  <2> QED BY <1>1, <1>3, <1>8, <2>2 DEF AnnouncePaint, IInv, Parity
<1>9. CASE SendEvent
  <2>1. {Query, CrashNote} \subseteq Event
    BY DEF Event
  <2>2. Query.type # "PaintReady" /\ CrashNote.type # "PaintReady"
    BY DEF Query, CrashNote
  <2>3. events' \in Seq(Event) /\ Len(events') <= EventLimit /\ Announced(events', seq')
    BY <1>9, <2>1, <2>2, SendStep DEF SendEvent
  <2> QED BY <1>1, <1>3, <1>9, <2>3 DEF SendEvent, IInv, Parity
<1>10. CASE TakeControl
  <2>1. control' \in 0 .. ControlLimit /\ UNCHANGED <<seq, hpc, events>>
    BY <1>10 DEF TakeControl, IInv
  <2> QED BY <1>1, <1>3, <1>4, <2>1 DEF IInv, Parity
<1>11. CASE HelperExit
  BY <1>1, <1>3, <1>4, <1>11 DEF HelperExit, IInv, Parity
<1> QED BY <1>5, <1>6, <1>7, <1>8, <1>9, <1>10, <1>11 DEF Helper

-----------------------------------------------------------------------------
(* The shell's steps. *)

\* Taking the frame that is finished now is recorded under a number no
\* larger than the frame's.
LEMMA TakeStep ==
  ASSUME IInv, NEW s \in Nat, Take(s), s <= seq, seq # 0, UNCHANGED <<seq, loaded>>
  PROVE  /\ {lastSeq, pending, shown}' \subseteq 0 .. 2 * MaxPaints
         /\ (lastSeq <= seq /\ pending <= seq /\ shown <= seq /\ shown <= Held)'
         /\ NeverAhead' /\ LiveMeansPixels' /\ Held' >= Held
         /\ state' = "Live"
<1> USE ConstantsAssumption DEF IInv, TypeOK, NothingNewer, Take, Held
<1>1. seq \in Nat /\ seq <= 2 * MaxPaints /\ lastSeq' = s /\ pending' = seq /\ shown' = shown
  OBVIOUS
<1>2. seq' = seq /\ shown \in Nat /\ pending \in Nat /\ shown <= seq /\ pending <= seq
  OBVIOUS
<1> QED BY <1>1, <1>2 DEF NeverAhead, LiveMeansPixels

LEMMA ShellStep ==
  ASSUME IInv, Poll \/ UserInput \/ Close \/ Reap PROVE IInv'
<1> USE ConstantsAssumption DEF TypeOK, helperVars, pollVars, frameVars
<1>1. /\ events \in Sent /\ rbuf \in Sent /\ seq \in Nat /\ Len(events) <= EventLimit
      /\ Announced(events, seq) /\ Announced(rbuf, seq)
  BY DEF IInv, Sent, NothingNewer
\* A step that takes no event and no frame.
<1>2. ASSUME UNCHANGED <<seq, events, rbuf, frameVars>>, Parity',
             hpc' \in {"boot", "serving", "painting", "announce", "gone"},
             control' \in 0 .. ControlLimit, fds' \in Nat, reader' \in BOOLEAN,
             recvs' \in 0 .. MaxRecvPerPoll, loaded' \in {loaded, seq},
             state' \in {state, "Crashed"},
             spc' \in {"idle", "recv", "drain", "promote", "snapshot", "upload",
                       "closing", "closed"}, PollAlive'
      PROVE  IInv'
  <2>1. TypeOK'
    BY <1>1, <1>2 DEF IInv, Sent
  <2>2. NothingNewer'
    BY <1>1, <1>2 DEF IInv, NothingNewer, Held
  <2>3. (NeverAhead /\ LiveMeansPixels)'
    BY <1>2 DEF IInv, NeverAhead, LiveMeansPixels, Held
  <2> QED BY <1>2, <2>1, <2>2, <2>3 DEF IInv
<1>3. Parity /\ (UNCHANGED <<seq, hpc>> => Parity')
  BY DEF IInv, Parity
<1>4. CASE PollBegin
  <2>1. PollAlive'
    BY <1>4 DEF PollBegin, PollAlive, Crashed, Crash
  <2> QED BY <1>2, <1>3, <1>4, <2>1 DEF PollBegin, Crash, IInv
<1>5. CASE RecvDone
  <2>1. PollAlive'
    BY <1>5 DEF RecvDone, IInv, PollAlive, Crashed, Crash
  <2> QED BY <1>2, <1>3, <1>5, <2>1 DEF RecvDone, Crash, IInv
<1>6. CASE DrainDone
  <2>1. PollAlive'
    BY <1>6 DEF DrainDone, IInv, PollAlive, Crashed
  <2> QED BY <1>2, <1>3, <1>6, <2>1 DEF DrainDone, IInv
<1>7. CASE PromoteLoad
  <2>1. PollAlive'
    BY <1>7 DEF PromoteLoad, IInv, PollAlive, Crashed
  <2> QED BY <1>2, <1>3, <1>7, <2>1 DEF PromoteLoad, IInv
<1>8. CASE UserInput
  <2>1. PollAlive'
    BY <1>8 DEF UserInput, SendControl, Crash, IInv, PollAlive, Crashed
  <2>2. control' \in 0 .. ControlLimit
    BY <1>8 DEF UserInput, SendControl, IInv
  <2> QED BY <1>2, <1>3, <1>8, <2>1, <2>2 DEF UserInput, SendControl, Crash, IInv
<1>9. CASE Close
  <2>1. PollAlive'
    BY <1>9 DEF Close, IInv, PollAlive, Crashed
  <2> QED BY <1>2, <1>3, <1>9, <2>1 DEF Close, IInv
<1>10. CASE Reap
  <2>1. PollAlive' /\ Parity'
    BY <1>10 DEF Reap, IInv, PollAlive, Crashed, Parity
  <2> QED BY <1>2, <1>10, <2>1 DEF Reap, IInv
<1>11. CASE Recv
  <2>1. PICK k \in 1 .. Len(events) :
          /\ rbuf' = rbuf \o SubSeq(events, 1, k)
          /\ fds' = fds + Cardinality({i \in 1 .. k : events[i] = Attach})
          /\ events' = SubSeq(events, k + 1, Len(events))
    BY <1>11 DEF Recv
  <2>2. /\ rbuf' \in Sent /\ Announced(rbuf', seq)
        /\ events' \in Sent /\ Announced(events', seq) /\ Len(events') <= Len(events)
    BY <1>1, <2>1, AnnouncedBatch
  <2>3. Len(events') \in Nat /\ Len(events) \in Nat
    BY <1>1, <2>2 DEF Sent
  <2>4. fds' \in Nat
    <3>1. IsFiniteSet(1 .. k)
      BY FS_Interval
    <3>2. Cardinality({i \in 1 .. k : events[i] = Attach}) \in Nat
      BY <3>1, FS_Subset, FS_CardinalityType
    <3> QED BY <2>1, <3>2 DEF IInv
  <2>5. UNCHANGED <<seq, hpc, control, loaded, reader, state, frameVars>>
    BY <1>11 DEF Recv
  <2>6. recvs' \in 0 .. MaxRecvPerPoll /\ spc' = "drain" /\ ~Crashed
    BY <1>11 DEF Recv, HasBudget, IInv, PollAlive, Crashed
  <2>7. TypeOK'
    BY <1>1, <2>2, <2>3, <2>4, <2>5, <2>6 DEF IInv, Sent
  <2>8. NothingNewer'
    BY <2>2, <2>5 DEF IInv, NothingNewer, Held
  <2>9. (Parity /\ PollAlive /\ NeverAhead /\ LiveMeansPixels)'
    BY <1>3, <2>5, <2>6 DEF IInv, PollAlive, Crashed, NeverAhead, LiveMeansPixels, Held
  <2> QED BY <2>7, <2>8, <2>9 DEF IInv
\* Handling an event shortens rbuf; what else the handler does is given.
<1>12. ASSUME NEW e, Handles(e), UNCHANGED <<seq, hpc, events, recvs, loaded>>,
              control' \in 0 .. ControlLimit, fds' \in Nat, reader' \in BOOLEAN,
              state' \in {"Loading", "Live", "Crashed"}, spc' \in {"drain", "upload"},
              state' = "Crashed" => spc' = "upload",
              {lastSeq, pending, shown}' \subseteq 0 .. 2 * MaxPaints,
              (lastSeq <= seq /\ pending <= seq /\ shown <= seq /\ shown <= Held)',
              NeverAhead', LiveMeansPixels'
       PROVE  IInv'
  <2>1. rbuf' \in Sent /\ Announced(rbuf', seq)
    BY <1>1, <1>12, AnnouncedTail DEF Handles
  <2>2. TypeOK'
    BY <1>1, <1>12, <2>1 DEF IInv, Sent
  <2>3. NothingNewer'
    BY <1>1, <1>12, <2>1 DEF IInv, NothingNewer
  <2>4. PollAlive' /\ Parity'
    BY <1>3, <1>12 DEF PollAlive, Crashed
  <2> QED BY <1>12, <2>2, <2>3, <2>4 DEF IInv
\* A handler that takes no frame.
<1>13. ASSUME NEW e, Handles(e), UNCHANGED <<seq, hpc, events, recvs, loaded, frameVars>>,
              control' \in 0 .. ControlLimit, fds' \in Nat, reader' \in BOOLEAN,
              \/ state' = state /\ spc' = spc
              \/ state' = "Crashed" /\ spc' = "upload"
       PROVE  IInv'
  <2>1. spc = "drain" /\ ~Crashed
    BY <1>13 DEF Handles, IInv, PollAlive
  <2>2. NeverAhead' /\ LiveMeansPixels'
    BY <1>13 DEF IInv, NeverAhead, LiveMeansPixels, Held
  <2>3. /\ {lastSeq, pending, shown}' \subseteq 0 .. 2 * MaxPaints
        /\ (lastSeq <= seq /\ pending <= seq /\ shown <= seq /\ shown <= Held)'
    BY <1>13 DEF IInv, NothingNewer, Held
  <2>4. /\ state' \in {"Loading", "Live", "Crashed"} /\ spc' \in {"drain", "upload"}
        /\ state' = "Crashed" => spc' = "upload"
    BY <1>13, <2>1 DEF IInv, Crashed
  <2> QED BY <1>12, <1>13, <2>2, <2>3, <2>4
<1>14. CASE HandleAttach
  <2>1. /\ fds' \in Nat /\ reader' \in BOOLEAN
        /\ \/ state' = state /\ spc' = spc
           \/ state' = "Crashed" /\ spc' = "upload"
    <3>1. CASE fds > 0
      BY <1>14, <3>1 DEF HandleAttach, IInv
    <3>2. CASE ~(fds > 0)
      BY <1>14, <3>2 DEF HandleAttach, Crash, IInv
    <3> QED BY <3>1, <3>2
  <2>2. Handles(Attach) /\ UNCHANGED <<seq, hpc, events, control, recvs, loaded, frameVars>>
    BY <1>14 DEF HandleAttach
  <2> QED BY <1>13, <2>1, <2>2 DEF IInv
<1>15. CASE HandleQuery
  <2>1. /\ control' \in 0 .. ControlLimit
        /\ \/ state' = state /\ spc' = spc
           \/ state' = "Crashed" /\ spc' = "upload"
    BY <1>15 DEF HandleQuery, SendControl, Crash, IInv
  <2> QED BY <1>13, <1>15, <2>1 DEF HandleQuery, IInv
<1>16. CASE HandleCrash
  BY <1>13, <1>16 DEF HandleCrash, Crash, IInv
<1>17. ASSUME NEW s \in 0 .. 2 * MaxPaints, HandlePaintReady(s) PROVE IInv'
  <2>1. Handles(PaintReady(s)) /\ UNCHANGED <<seq, hpc, events, control, spc, fds,
                                              recvs, loaded, reader>>
    BY <1>17 DEF HandlePaintReady
  <2>2. s <= seq
    <3>1. Head(rbuf).type = "PaintReady" => Head(rbuf).seq <= seq
      BY <1>1, <2>1, AnnouncedTail DEF Handles
    <3> QED BY <2>1, <3>1 DEF Handles, PaintReady
  <2>3. CASE s # lastSeq /\ reader /\ Stable /\ seq # 0
    <3>1. Take(s) /\ s \in Nat
      BY <1>17, <2>3 DEF HandlePaintReady
    <3>2. spc = "drain"
      BY <2>1 DEF Handles
    <3>3. /\ {lastSeq, pending, shown}' \subseteq 0 .. 2 * MaxPaints
          /\ (lastSeq <= seq /\ pending <= seq /\ shown <= seq /\ shown <= Held)'
          /\ NeverAhead' /\ LiveMeansPixels' /\ state' = "Live"
      BY <2>1, <2>2, <2>3, <3>1, TakeStep
    <3> QED BY <1>12, <2>1, <3>2, <3>3 DEF IInv
  <2>4. CASE ~(s # lastSeq /\ reader /\ Stable /\ seq # 0)
    BY <1>13, <1>17, <2>1, <2>4 DEF HandlePaintReady, IInv
  <2> QED BY <2>3, <2>4
<1>18. CASE PromoteSnapshot
  <2>1. UNCHANGED <<seq, hpc, events, control, pollVars>> /\ spc' = "upload"
        /\ loaded # 0 /\ loaded <= seq /\ loaded \in Nat /\ seq # 0
    BY <1>1, <1>18 DEF PromoteSnapshot, IInv, PollAlive, NothingNewer
  <2>2. CASE Stable
    <3>1. Take(loaded)
      BY <1>18, <2>2 DEF PromoteSnapshot
    <3>2. /\ {lastSeq, pending, shown}' \subseteq 0 .. 2 * MaxPaints
          /\ (lastSeq <= seq /\ pending <= seq /\ shown <= seq /\ shown <= Held)'
          /\ NeverAhead' /\ LiveMeansPixels' /\ state' = "Live"
      <4> PICK s \in Nat : s = loaded
        BY <2>1
      <4> QED BY <2>1, <3>1, TakeStep
    <3>3. TypeOK'
      BY <1>1, <2>1, <3>2 DEF IInv, Sent
    <3>4. NothingNewer' /\ PollAlive' /\ Parity'
      BY <1>1, <1>3, <2>1, <3>2 DEF IInv, NothingNewer, PollAlive, Crashed
    <3> QED BY <3>2, <3>3, <3>4 DEF IInv
  <2>3. CASE ~Stable
    BY <1>2, <1>3, <1>18, <2>1, <2>3 DEF PromoteSnapshot, IInv, PollAlive, Crashed
  <2> QED BY <2>2, <2>3
<1>19. CASE TakeFrame
  <2>1. UNCHANGED <<seq, hpc, events, control, pollVars, state, lastSeq>> /\ spc' = "idle"
    BY <1>19 DEF TakeFrame
  <2>2. pending' = 0 /\ shown' = Held /\ Held' = Held
        /\ Held \in 0 .. 2 * MaxPaints /\ Held <= seq
    BY <1>19 DEF TakeFrame, Held, IInv, NothingNewer
  <2>3. TypeOK'
    BY <1>1, <2>1, <2>2 DEF IInv, Sent
  <2>4. NothingNewer' /\ PollAlive' /\ Parity'
    BY <1>1, <1>3, <2>1, <2>2 DEF IInv, NothingNewer, PollAlive
  <2>5. NeverAhead' /\ LiveMeansPixels'
    BY <2>1, <2>2 DEF IInv, NeverAhead, LiveMeansPixels
  <2> QED BY <2>3, <2>4, <2>5 DEF IInv
<1> QED
  BY <1>4, <1>5, <1>6, <1>7, <1>8, <1>9, <1>10, <1>11, <1>14, <1>15, <1>16, <1>17,
     <1>18, <1>19, Zenon DEF Poll

-----------------------------------------------------------------------------
(* The theorems. *)

LEMMA Invariance == Spec => []IInv
<1> USE ConstantsAssumption
<1>1. Init => IInv
  <2> SUFFICES ASSUME Init PROVE IInv
    OBVIOUS
  <2> USE DEF Init
  <2>1. <<>> \in Seq(Event) /\ Len(<<>>) = 0
    BY EmptySeq
  <2>2. TypeOK
    <3>1. events \in Seq(Event) /\ rbuf \in Seq(Event)
      BY <2>1, Zenon
    <3>2. Len(events) <= EventLimit
      BY <2>1
    <3>3. 0 \in 0 .. 2 * MaxPaints /\ 0 \in 0 .. ControlLimit /\ 0 \in 0 .. MaxRecvPerPoll
          /\ 0 \in Nat
      OBVIOUS
    <3>4. {lastSeq, pending, shown} \subseteq 0 .. 2 * MaxPaints
      BY <3>3, Zenon
    <3> QED BY <3>1, <3>2, <3>3, <3>4, Zenon DEF TypeOK
  <2>3. NothingNewer
    BY <2>1 DEF NothingNewer, Announced, Held
  <2>4. Parity /\ PollAlive /\ NeverAhead /\ LiveMeansPixels
    BY DEF Parity, PollAlive, Crashed, NeverAhead, LiveMeansPixels, Held
  <2> QED BY <2>2, <2>3, <2>4 DEF IInv
<1>2. IInv /\ [Next]_vars => IInv'
  <2> SUFFICES ASSUME IInv, [Next]_vars PROVE IInv'
    OBVIOUS
  <2>1. CASE Helper
    BY <2>1, HelperStep
  <2>2. CASE Poll \/ UserInput \/ Close \/ Reap
    BY <2>2, ShellStep
  <2>3. CASE UNCHANGED vars
    BY <2>3 DEF vars, pollVars, frameVars, IInv, TypeOK, Parity, NothingNewer, Announced,
                PollAlive, Crashed, NeverAhead, LiveMeansPixels, Held
  <2> QED BY <2>1, <2>2, <2>3 DEF Next
<1> QED BY <1>1, <1>2, PTL DEF Spec

\* Every variable keeps its type and every buffer its bound.
THEOREM TypeCorrect == Spec => []TypeOK
<1>1. IInv => TypeOK
  BY DEF IInv
<1> QED BY <1>1, Invariance, PTL

\* Only Reap leads to the end of a drop, and a helper that is gone is gone.
LEMMA OrphanStep == NoOrphan /\ [Next]_vars => NoOrphan'
<1> SUFFICES ASSUME NoOrphan, [Next]_vars PROVE NoOrphan'
  OBVIOUS
<1>1. CASE Helper
  BY <1>1 DEF Helper, AttachFrame, PaintBegin, PaintEnd, AnnouncePaint, SendEvent,
              TakeControl, HelperExit, shellVars, helperVars, NoOrphan
<1>2. CASE Poll
  <2>1. spc' # "closed"
    BY <1>2 DEF Poll, PollBegin, Recv, RecvDone, DrainDone, HandleAttach, HandleQuery,
                HandleCrash, HandlePaintReady, PromoteLoad, PromoteSnapshot, TakeFrame,
                SendControl, Crash, Handles
  <2> QED BY <2>1 DEF NoOrphan
<1>3. CASE UserInput
  BY <1>3 DEF UserInput, SendControl, Crash, NoOrphan
<1>4. CASE Close \/ Reap \/ UNCHANGED vars
  BY <1>4 DEF Close, Reap, vars, NoOrphan
<1> QED BY <1>1, <1>2, <1>3, <1>4 DEF Next

\* The session never takes a frame it did not copy for one it did, it is
\* Live when, and only when, it has pixels of a page, and once it has been
\* dropped its helper is gone.
THEOREM SessionIsHonest == Spec => []SessionHonest
<1>1. IInv /\ NoOrphan => SessionHonest
  BY DEF IInv, SessionHonest
<1>2. Init => NoOrphan
  BY DEF Init, NoOrphan
<1> QED BY <1>1, <1>2, OrphanStep, Invariance, PTL DEF Spec

\* What a step may do to the frame the session holds.
LEMMA HeldStep ==
  ASSUME IInv, [Next]_vars
  PROVE  /\ Held' >= Held
         /\ Crashed => state' = "Crashed" /\ control' <= control
                       /\ <<Held, lastSeq, reader>>' = <<Held, lastSeq, reader>>
<1> USE ConstantsAssumption DEF pollVars, frameVars, helperVars
<1>1. /\ seq \in Nat /\ pending \in Nat /\ shown \in Nat /\ control \in Nat
      /\ pending <= seq /\ shown <= seq /\ loaded \in Nat /\ loaded <= seq
      /\ Crashed => spc \in {"idle", "upload", "closing", "closed"}
      /\ spc = "snapshot" => loaded # 0
  BY DEF IInv, TypeOK, NothingNewer, PollAlive
<1>2. ASSUME UNCHANGED <<lastSeq, pending, shown, reader, state>>, control' \in Int,
             Crashed => control' <= control
      PROVE  /\ Held' >= Held
             /\ Crashed => state' = "Crashed" /\ control' <= control
                           /\ <<Held, lastSeq, reader>>' = <<Held, lastSeq, reader>>
  BY <1>1, <1>2 DEF Held, Crashed
<1>3. CASE Helper
  <2>1. UNCHANGED shellVars /\ control' \in Int /\ control' <= control
    BY <1>1, <1>3 DEF Helper, AttachFrame, PaintBegin, PaintEnd, AnnouncePaint, SendEvent,
                      TakeControl, HelperExit
  <2> QED BY <1>2, <2>1 DEF shellVars
<1>4. CASE Close \/ Reap \/ UNCHANGED vars
  BY <1>1, <1>2, <1>4 DEF Close, Reap, vars
<1>5. CASE UserInput
  BY <1>1, <1>5 DEF UserInput, Held
<1>6. CASE PollBegin
  BY <1>1, <1>6 DEF PollBegin, Crash, Held, Crashed
<1>7. CASE TakeFrame
  BY <1>1, <1>7 DEF TakeFrame, Held, Crashed
<1>8. CASE Recv \/ RecvDone \/ DrainDone \/ HandleAttach \/ HandleQuery \/ HandleCrash
           \/ PromoteLoad
  <2>1. UNCHANGED <<pending, shown>> /\ spc \in {"recv", "drain", "promote"}
    BY <1>8 DEF Recv, RecvDone, DrainDone, HandleAttach, HandleQuery, HandleCrash,
                PromoteLoad, Handles
  <2> QED BY <1>1, <2>1 DEF Held
<1>9. ASSUME NEW s \in 0 .. 2 * MaxPaints, HandlePaintReady(s)
      PROVE  Held' >= Held /\ ~Crashed
  <2>1. CASE pending' = seq /\ seq # 0
    BY <1>1, <2>1, <1>9 DEF HandlePaintReady, Handles, Held, Crashed
  <2>2. CASE UNCHANGED frameVars
    BY <1>1, <1>9, <2>2 DEF HandlePaintReady, Handles, Held, Crashed
  <2>3. (pending' = seq /\ seq # 0) \/ UNCHANGED frameVars
    BY <1>9 DEF HandlePaintReady, Take
  <2>4. spc = "drain" /\ ~Crashed
    BY <1>1, <1>9 DEF HandlePaintReady, Handles
  <2> QED BY <2>1, <2>2, <2>3, <2>4
<1>10. CASE PromoteSnapshot
  BY <1>1, <1>10 DEF PromoteSnapshot, Take, Held
<1> QED BY <1>3, <1>4, <1>5, <1>6, <1>7, <1>8, <1>9, <1>10 DEF Next, Poll

\* The picture never goes back, whichever path delivered it.
THEOREM PictureNeverGoesBack == Spec => NeverGoesBack
<1>1. IInv /\ [Next]_vars => [Held' >= Held]_vars
  BY HeldStep
<1> QED BY <1>1, Invariance, PTL DEF Spec, NeverGoesBack

\* Nothing brings a crashed session back.
THEOREM CrashesAreFinal == Spec => CrashIsFinal
<1>1. IInv /\ [Next]_vars =>
        [Crashed => /\ state' = "Crashed"
                    /\ control' <= control
                    /\ <<Held, lastSeq, reader>>' = <<Held, lastSeq, reader>>]_vars
  BY HeldStep
<1> QED BY <1>1, Invariance, PTL DEF Spec, CrashIsFinal

=============================================================================
