---------------------------- MODULE SessionFrames ----------------------------
(***************************************************************************)
(* One browser session: the shell's WebSession and its helper process,     *)
(* joined by a socket pair with bounded buffers and by the shared-memory   *)
(* frame region.  The model follows a frame from the helper's paint to the *)
(* texture on the shell's side, along both paths the shell has: the        *)
(* PaintReady event and the sequence word it looks at after every poll.    *)
(*                                                                         *)
(* The region is the atomic register FrameChannel implements: a snapshot   *)
(* answers with the frame that is finished at one instant of it, or with   *)
(* nothing if an emit is under way.  A frame is named by the sequence its  *)
(* emit left behind: 2, 4, 6, ...                                          *)
(***************************************************************************)
EXTENDS Integers, Sequences, FiniteSets

CONSTANTS
  EventLimit,         \* events the socket buffers towards the shell
  ControlLimit,       \* control frames it buffers towards the helper
  MaxRecvPerPoll,     \* 64 in the code: batches one poll takes
  MaxPaints,          \* bound: frames of one behaviour
  ExitOnSendFailure   \* TRUE: the Servo helper; FALSE: the CEF helper

ASSUME ConstantsAssumption ==
  /\ EventLimit \in Nat \ {0}
  /\ ControlLimit \in Nat \ {0}
  /\ MaxRecvPerPoll \in Nat \ {0}
  /\ MaxPaints \in Nat
  /\ ExitOnSendFailure \in BOOLEAN

\* Events.  A "query" is one the shell answers (a resource request, a page
\* permission that overflows its queue); events that only update a label
\* are left out.
Attach     == [type |-> "AttachFrame"]
Query      == [type |-> "Query"]
CrashNote  == [type |-> "Crashed"]
PaintReady(s) == [type |-> "PaintReady", seq |-> s]

Event == {Attach, Query, CrashNote} \cup [type : {"PaintReady"}, seq : Nat]

VARIABLES
  seq,       \* the region's sequence word, 0 before the first frame
  hpc,       \* where the helper's loop is; "gone" once the process has died
  events,    \* the socket towards the shell
  control,   \* how many control frames wait in the socket to the helper
  spc,       \* where the shell's frame loop is
  rbuf,      \* events received and not yet handled
  fds,       \* descriptors received and not yet taken (fd_queue)
  recvs,     \* batches this poll has received
  loaded,    \* the sequence promote_from_shm_sequence has just loaded
  reader,    \* the region is mapped
  state,     \* SessionState
  lastSeq,   \* last_seq: the sequence the session believes it has taken
  pending,   \* the frame waiting for upload, 0 = none
  shown      \* the frame in the tab's texture, 0 = none

helperVars == <<seq, hpc>>
pollVars   == <<rbuf, fds, recvs, loaded, reader>>
frameVars  == <<lastSeq, pending, shown>>
vars == <<seq, hpc, events, control, spc, pollVars, state, frameVars>>

TypeOK ==
  /\ seq \in 0 .. 2 * MaxPaints
  /\ hpc \in {"boot", "serving", "painting", "announce", "gone"}
  /\ events \in Seq(Event) /\ Len(events) <= EventLimit
  /\ control \in 0 .. ControlLimit
  /\ spc \in {"idle", "recv", "drain", "promote", "snapshot", "upload",
              "closing", "closed"}
  /\ rbuf \in Seq(Event)
  /\ fds \in Nat
  /\ recvs \in 0 .. MaxRecvPerPoll
  /\ loaded \in 0 .. 2 * MaxPaints
  /\ reader \in BOOLEAN
  /\ state \in {"Loading", "Live", "Crashed"}
  /\ {lastSeq, pending, shown} \subseteq 0 .. 2 * MaxPaints

Init ==
  /\ seq = 0 /\ hpc = "boot"
  /\ events = <<>> /\ control = 0
  /\ spc = "idle"
  /\ rbuf = <<>> /\ fds = 0 /\ recvs = 0 /\ loaded = 0 /\ reader = FALSE
  /\ state = "Loading"
  /\ lastSeq = 0 /\ pending = 0 /\ shown = 0

Crashed == state = "Crashed"

Dropped == spc \in {"closing", "closed"}   \* the shell's end is shut down

Stable == seq % 2 = 0

-----------------------------------------------------------------------------
(* The helper.  Both sockets are non-blocking: a full one refuses a frame. *)

shellVars == <<spc, pollVars, state, frameVars>>

Send(e) == events' = Append(events, e)

CanSend == Len(events) < EventLimit /\ ~Dropped

\* The descriptor is sent before the browser exists, so before any paint.
AttachFrame ==
  /\ hpc = "boot"
  /\ IF CanSend
       THEN Send(Attach) /\ hpc' = "serving"
       ELSE hpc' = "gone" /\ UNCHANGED events
  /\ UNCHANGED <<seq, control, shellVars>>

PaintBegin ==
  /\ hpc = "serving"
  /\ seq < 2 * MaxPaints
  /\ seq' = seq + 1
  /\ hpc' = "painting"
  /\ UNCHANGED <<events, control, shellVars>>

PaintEnd ==
  /\ hpc = "painting"
  /\ seq' = seq + 1
  /\ hpc' = "announce"
  /\ UNCHANGED <<events, control, shellVars>>

AnnouncePaint ==
  /\ hpc = "announce"
  /\ IF CanSend THEN Send(PaintReady(seq)) ELSE UNCHANGED events
  /\ hpc' = IF CanSend \/ ~ExitOnSendFailure THEN "serving" ELSE "gone"
  /\ UNCHANGED <<seq, control, shellVars>>

\* Every other event is sent with its failure ignored.  Only the CEF helper
\* outlives the page's process and reports its death.
SendEvent ==
  /\ hpc = "serving"
  /\ CanSend
  /\ \/ Send(Query)
     \/ ~ExitOnSendFailure /\ Send(CrashNote)
  /\ UNCHANGED <<helperVars, control, shellVars>>

TakeControl ==
  /\ hpc = "serving"
  /\ control > 0
  /\ control' \in 0 .. control - 1
  /\ UNCHANGED <<helperVars, events, shellVars>>

\* The helper dies: at any point, even in the middle of an emit, or because
\* it reads the end of the shell's stream.
HelperExit ==
  /\ hpc # "gone"
  /\ hpc' = "gone"
  /\ UNCHANGED <<seq, events, control, shellVars>>

-----------------------------------------------------------------------------
(* The shell's UI frame: poll, then take_frame, then the user's input. *)

\* The end of a poll that finds the session dead.
Crash(at) == state' = "Crashed" /\ spc' = at

\* poll: once crashed it does nothing; try_wait may already see an exit.
PollBegin ==
  /\ spc = "idle"
  /\ \/ /\ Crashed
        /\ spc' = "upload"
        /\ UNCHANGED <<state, recvs>>
     \/ /\ ~Crashed /\ hpc = "gone"
        /\ Crash("upload")
        /\ UNCHANGED recvs
     \/ /\ ~Crashed
        /\ spc' = "recv" /\ recvs' = 0
        /\ UNCHANGED state
  /\ UNCHANGED <<helperVars, events, control, rbuf, fds, loaded, reader, frameVars>>

HasBudget == recvs < MaxRecvPerPoll

\* One batch: the socket's bytes hold one or more whole events, and the
\* descriptors that ride on them come along.
Recv ==
  /\ spc = "recv"
  /\ HasBudget
  /\ \E k \in 1 .. Len(events) :
       /\ rbuf' = rbuf \o SubSeq(events, 1, k)
       /\ fds' = fds + Cardinality({i \in 1 .. k : events[i] = Attach})
       /\ events' = SubSeq(events, k + 1, Len(events))
  /\ recvs' = recvs + 1
  /\ spc' = "drain"
  /\ UNCHANGED <<helperVars, control, loaded, reader, state, frameVars>>

\* Mutant: the end of the stream is taken for an empty socket.
RecvDoneBlind ==
  /\ spc = "recv"
  /\ ~HasBudget \/ events = <<>>
  /\ spc' = "promote"
  /\ UNCHANGED <<helperVars, events, control, pollVars, state, frameVars>>

\* The socket is empty (or at its end), or the poll's budget is used up.
RecvDone ==
  /\ spc = "recv"
  /\ \/ /\ ~HasBudget
        /\ spc' = "promote" /\ UNCHANGED state
     \/ /\ HasBudget /\ events = <<>> /\ hpc # "gone"
        /\ spc' = "promote" /\ UNCHANGED state
     \/ /\ HasBudget /\ events = <<>> /\ hpc = "gone"
        /\ Crash("upload")
  /\ UNCHANGED <<helperVars, events, control, pollVars, frameVars>>

DrainDone ==
  /\ spc = "drain"
  /\ rbuf = <<>>
  /\ spc' = "recv"
  /\ UNCHANGED <<helperVars, events, control, pollVars, state, frameVars>>

Handles(e) ==
  /\ spc = "drain"
  /\ rbuf # <<>>
  /\ Head(rbuf) = e
  /\ rbuf' = Tail(rbuf)

HandleAttach ==
  /\ Handles(Attach)
  /\ IF fds > 0
       THEN fds' = fds - 1 /\ reader' = TRUE /\ UNCHANGED <<spc, state>>
       ELSE Crash("upload") /\ UNCHANGED <<fds, reader>>
  /\ UNCHANGED <<helperVars, events, control, recvs, loaded, frameVars>>

\* Mutant: the frame is taken to be the one its announcement names.
TakeAnnounced(s) ==
  /\ pending' = s
  /\ lastSeq' = s
  /\ state' = "Live"
  /\ UNCHANGED shown

\* What a snapshot that answers does: the frame it copied is the one that
\* is finished now, the sequence it is recorded under is s.
Take(s) ==
  /\ pending' = seq
  /\ lastSeq' = s
  /\ state' = "Live"
  /\ UNCHANGED shown

HandlePaintReady(s) ==
  /\ Handles(PaintReady(s))
  /\ IF s # lastSeq /\ reader /\ Stable /\ seq # 0
       THEN Take(s)
       ELSE UNCHANGED <<state, frameVars>>
  /\ UNCHANGED <<helperVars, events, control, spc, fds, recvs, loaded, reader>>

\* send: a write error of any kind crashes the session, a full buffer too.
SendControl(at) ==
  IF hpc # "gone" /\ control < ControlLimit
    THEN control' = control + 1 /\ UNCHANGED <<spc, state>>
    ELSE Crash(at) /\ UNCHANGED control

HandleQuery ==
  /\ Handles(Query)
  /\ SendControl("upload")
  /\ UNCHANGED <<helperVars, events, fds, recvs, loaded, reader, frameVars>>

HandleCrash ==
  /\ Handles(CrashNote)
  /\ Crash("upload")
  /\ UNCHANGED <<helperVars, events, control, fds, recvs, loaded, reader, frameVars>>

\* Mutant: frames are taken on PaintReady events only.
PromoteNever ==
  /\ spc = "promote"
  /\ spc' = "upload"
  /\ UNCHANGED <<helperVars, events, control, pollVars, state, frameVars>>

\* promote_from_shm_sequence loads the sequence first ...
PromoteLoad ==
  /\ spc = "promote"
  /\ loaded' = seq
  /\ spc' = IF reader /\ seq # 0 /\ Stable /\ seq # lastSeq
              THEN "snapshot" ELSE "upload"
  /\ UNCHANGED <<helperVars, events, control, rbuf, fds, recvs, reader, state, frameVars>>

\* Mutant: a snapshot that came back empty counts as taken.
PromoteEmpty ==
  /\ spc = "snapshot"
  /\ spc' = "upload"
  /\ IF Stable THEN Take(loaded) ELSE lastSeq' = loaded /\ UNCHANGED <<state, pending, shown>>
  /\ UNCHANGED <<helperVars, events, control, pollVars>>

\* ... and takes the snapshot afterwards: the helper may have painted since.
PromoteSnapshot ==
  /\ spc = "snapshot"
  /\ spc' = "upload"
  /\ IF Stable THEN Take(loaded) ELSE UNCHANGED <<state, frameVars>>
  /\ UNCHANGED <<helperVars, events, control, pollVars>>

\* take_frame: the panel uploads the pending frame, crashed or not.
TakeFrame ==
  /\ spc = "upload"
  /\ spc' = "idle"
  /\ shown' = IF pending # 0 THEN pending ELSE shown
  /\ pending' = 0
  /\ UNCHANGED <<helperVars, events, control, pollVars, state, lastSeq>>

\* Mutant: a crashed session still writes to its helper.
UserInputUnchecked ==
  /\ spc = "idle"
  /\ SendControl("idle")
  /\ UNCHANGED <<helperVars, events, pollVars, frameVars>>

\* send_input and the navigation calls.
UserInput ==
  /\ spc = "idle"
  /\ ~Crashed
  /\ SendControl("idle")
  /\ UNCHANGED <<helperVars, events, pollVars, frameVars>>

\* Drop for WebSession: shut the socket down, wait for the helper to leave,
\* kill its process group when it does not leave in time.
Close ==
  /\ spc = "idle"
  /\ spc' = "closing"
  /\ UNCHANGED <<helperVars, events, control, pollVars, state, frameVars>>

Reap ==
  /\ spc = "closing"
  /\ hpc' = "gone"
  /\ spc' = "closed"
  /\ UNCHANGED <<seq, events, control, pollVars, state, frameVars>>

-----------------------------------------------------------------------------

Helper ==
  \/ AttachFrame \/ PaintBegin \/ PaintEnd \/ AnnouncePaint
  \/ SendEvent \/ TakeControl \/ HelperExit

Poll ==
  \/ PollBegin \/ Recv \/ RecvDone \/ DrainDone
  \/ HandleAttach \/ HandleQuery \/ HandleCrash
  \/ \E s \in 0 .. 2 * MaxPaints : HandlePaintReady(s)
  \/ PromoteLoad \/ PromoteSnapshot \/ TakeFrame

Next == Helper \/ Poll \/ UserInput \/ Close \/ Reap

Spec == Init /\ [][Next]_vars

\* The panel of the tab the user looks at is drawn again and again, and each
\* drawing polls and uploads; a drop runs to its end.  Nothing is assumed of
\* the helper or of the user.
FairSpec == Spec /\ WF_vars(Poll) /\ WF_vars(Reap)

-----------------------------------------------------------------------------
(* Properties. *)

\* The newest frame the session has: waiting for upload, or on screen.
Held == IF pending # 0 THEN pending ELSE shown

\* The sequence the session remembers never runs ahead of the pixels it
\* holds.  Otherwise promote_from_shm_sequence would take a frame it never
\* copied for one already uploaded, and a page that stops painting there
\* would show an old frame for good.
NeverAhead == lastSeq <= Held

\* The session is Live only with pixels to show, and says Loading only while
\* it has none ("Loading the page..." covers no frame that was taken).
LiveMeansPixels ==
  /\ state = "Live" => Held # 0
  /\ state = "Loading" => Held = 0

\* A session that was dropped leaves no helper behind (the orphaned helpers
\* Drop's comment reports).
NoOrphan == spc = "closed" => hpc = "gone"

\* What the session remembers and says of its frame and of its helper is so.
SessionHonest == NeverAhead /\ LiveMeansPixels /\ NoOrphan

\* The picture never goes back to an older frame, though PaintReady events
\* arrive late and lastSeq itself does go back.
NeverGoesBack == [][Held' >= Held]_vars

\* A crash is final: no event, answer or sequence word brings the session
\* back, sends the helper anything or takes another frame.
CrashIsFinal ==
  [][Crashed => /\ state' = "Crashed"
                /\ control' <= control
                /\ <<Held, lastSeq, reader>>' = <<Held, lastSeq, reader>>]_vars

\* A frame that stays the latest reaches the screen, whatever PaintReady
\* events were refused by a full socket or handled too early to be of use.
Published(n) == seq = n
OnScreen(n)  == shown = n
FrameReachesScreen ==
  \A n \in {2 * k : k \in 1 .. MaxPaints} :
    Published(n) ~> (~Published(n) \/ OnScreen(n) \/ Crashed \/ Dropped)

\* The death of the helper, in the middle of an emit too, is noticed.
DeathIsNoticed == (hpc = "gone") ~> (Crashed \/ Dropped)

=============================================================================
