---------------------------- MODULE FrameChannel ----------------------------
(***************************************************************************)
(* The shared-memory frame channel between a browser helper and the shell: *)
(* a memfd region whose 64-byte header starts with a seqlock sequence.     *)
(* The helper is the only writer (FrameChannel::emit in mde-web-preview,   *)
(* FrameChannel::publish in mde-web-cef); the shell maps the region        *)
(* read-only and copies frames out (FrameReader::snapshot).                *)
(*                                                                         *)
(* Every store and load of a header word or of a pixel chunk is a step of  *)
(* its own.  The stores of one emit happen in any order between the two    *)
(* increments of the sequence, and so do the loads of one phase of a       *)
(* snapshot: neither memcpy nor the compiler orders them.  The increments  *)
(* and the sequence loads order them as the atomics do on the repository's *)
(* only target, x86_64 (rust-toolchain.toml): no load passes an earlier    *)
(* load, no store an earlier store.                                        *)
(*                                                                         *)
(* A memory cell holds the number of the emit that stored it last, so a    *)
(* torn copy is one whose cells name different emits.                      *)
(***************************************************************************)
EXTENDS Naturals, Sequences

CONSTANTS
  Frames,        \* what a helper may try to emit
  Width,         \* its width, in pixel chunks
  Height,        \* its height
  Capacity,      \* pixel chunks the region holds
  MaxTries,      \* 64 in the code: attempts of one snapshot
  MaxEmits       \* bound: emits of one behaviour

ASSUME FramesAssumption ==
  /\ Width \in [Frames -> Nat]
  /\ Height \in [Frames -> Nat]

ASSUME BoundsAssumption ==
  /\ Capacity \in Nat \ {0}
  /\ MaxTries \in Nat \ {0}
  /\ MaxEmits \in Nat

\* Byte offsets of the header words a reader looks at, and of the pixels.
OFF_WIDTH     == 16
OFF_HEIGHT    == 20
OFF_FORMAT    == 28
OFF_PIXEL_LEN == 40
HEADER_SIZE   == 64

Header == {OFF_WIDTH, OFF_HEIGHT, OFF_FORMAT, OFF_PIXEL_LEN}

Pixels(n) == HEADER_SIZE .. (HEADER_SIZE + n - 1)

Region == Header \cup Pixels(Capacity)

Area(f) == Width[f] * Height[f]

VARIABLES
  seq,      \* the atomic sequence at offset 0: odd while an emit is writing
  cell,     \* the region: which emit stored each cell last, 0 = zero-filled
  emits,    \* the frames emitted so far; the n-th emit writes the number n
  wpc,      \* the writer: "idle" or "storing"
  wleft,    \* the cells the emit in progress has still to store
  rpc,      \* the reader's place in snapshot, or the result of the last one
  s1,       \* the sequence the current attempt loaded first
  got,      \* what the current attempt loaded from each cell
  rleft,    \* the cells it has still to load in this phase
  tries,    \* attempts already used up by this snapshot
  raced     \* history: an emit was in progress, or began, during this snapshot

writerVars == <<seq, cell, emits, wpc, wleft>>
readerVars == <<rpc, s1, got, rleft, tries>>
vars == <<seq, cell, emits, wpc, wleft, rpc, s1, got, rleft, tries, raced>>

Zeroed == [c \in Region |-> 0]

TypeOK ==
  /\ seq \in Nat
  /\ cell \in [Region -> Nat]
  /\ emits \in Seq(Frames)
  /\ wpc \in {"idle", "storing"}
  /\ wleft \in SUBSET Region
  /\ rpc \in {"idle", "load", "header", "pixels", "some", "none"}
  /\ s1 \in Nat
  /\ got \in [Region -> Nat]
  /\ rleft \in SUBSET Region
  /\ tries \in 0 .. MaxTries
  /\ raced \in BOOLEAN

Init ==
  /\ seq = 0
  /\ cell = Zeroed
  /\ emits = <<>>
  /\ wpc = "idle"
  /\ wleft = {}
  /\ rpc = "idle"
  /\ s1 = 0
  /\ got = Zeroed
  /\ rleft = {}
  /\ tries = 0
  /\ raced = FALSE

-----------------------------------------------------------------------------
(* The writer. *)

\* The size checks at the head of emit; a frame that fails them is refused
\* with the region untouched.
Fits(f) == Area(f) <= Capacity

EmitBegin(f) ==
  /\ wpc = "idle"
  /\ Fits(f)
  /\ Len(emits) < MaxEmits
  /\ seq' = seq + 1
  /\ emits' = Append(emits, f)
  /\ wpc' = "storing"
  /\ wleft' = Header \cup Pixels(Area(f))
  /\ raced' = TRUE
  /\ UNCHANGED <<cell, readerVars>>

EmitStore(c) ==
  /\ wpc = "storing"
  /\ c \in wleft
  /\ cell' = [cell EXCEPT ![c] = Len(emits)]
  /\ wleft' = wleft \ {c}
  /\ UNCHANGED <<seq, emits, wpc, readerVars, raced>>

EmitEnd ==
  /\ wpc = "storing"
  /\ wleft = {}
  /\ seq' = seq + 1
  /\ wpc' = "idle"
  /\ UNCHANGED <<cell, emits, wleft, readerVars, raced>>

-----------------------------------------------------------------------------
(* The reader: FrameReader::snapshot. *)

Reading == rpc \in {"load", "header", "pixels"}

SnapshotBegin ==
  /\ ~Reading
  /\ rpc' = "load"
  /\ tries' = 0
  /\ s1' = 0
  /\ got' = Zeroed
  /\ rleft' = {}
  /\ raced' = (seq % 2 = 1)
  /\ UNCHANGED writerVars

Exhausted == tries >= MaxTries

Busy == seq % 2 = 1

\* The head of the retry loop: give up after MaxTries attempts, answer
\* nothing before the first frame, spend an attempt on an odd sequence.
SnapshotLoad ==
  /\ rpc = "load"
  /\ \/ /\ Exhausted \/ seq = 0
        /\ rpc' = "none"
        /\ UNCHANGED <<s1, got, rleft, tries>>
     \/ /\ ~Exhausted
        /\ Busy
        /\ tries' = tries + 1
        /\ UNCHANGED <<rpc, s1, got, rleft>>
     \/ /\ ~Exhausted
        /\ seq # 0
        /\ ~Busy
        /\ rpc' = "header"
        /\ s1' = seq
        /\ got' = Zeroed
        /\ rleft' = Header
        /\ UNCHANGED tries
  /\ UNCHANGED <<writerVars, raced>>

SnapshotRead(c) ==
  /\ rpc \in {"header", "pixels"}
  /\ c \in rleft
  /\ got' = [got EXCEPT ![c] = cell[c]]
  /\ rleft' = rleft \ {c}
  /\ UNCHANGED <<writerVars, rpc, s1, tries, raced>>

\* The frame a header word the attempt loaded belongs to.
FrameOf(c) == emits[got[c]]

PixelLen == Area(FrameOf(OFF_PIXEL_LEN))

\* Mutant: a frame that fills the region is taken for one that overruns it.
GeometryStrict ==
  /\ PixelLen # 0
  /\ PixelLen = Width[FrameOf(OFF_WIDTH)] * Height[FrameOf(OFF_HEIGHT)]
  /\ PixelLen < Capacity

GeometryOK ==
  /\ PixelLen # 0
  /\ PixelLen = Width[FrameOf(OFF_WIDTH)] * Height[FrameOf(OFF_HEIGHT)]
  /\ PixelLen <= Capacity

\* A header that does not describe a frame ends the snapshot at once, even
\* when it is only torn: the sequence is not looked at again.
SnapshotGeometry ==
  /\ rpc = "header"
  /\ rleft = {}
  /\ IF GeometryOK
       THEN rpc' = "pixels" /\ rleft' = Pixels(PixelLen)
       ELSE rpc' = "none" /\ UNCHANGED rleft
  /\ UNCHANGED <<writerVars, s1, got, tries, raced>>

\* Mutants: the sequence is not loaded a second time; it is compared
\* without the writer's mark.
UnverifiedCopy == TRUE
MaskedCopy == seq \div 2 = s1 \div 2

Undisturbed == seq = s1

SnapshotVerify ==
  /\ rpc = "pixels"
  /\ rleft = {}
  /\ IF Undisturbed
       THEN rpc' = "some" /\ UNCHANGED tries
       ELSE rpc' = "load" /\ tries' = tries + 1
  /\ UNCHANGED <<writerVars, s1, got, rleft, raced>>

-----------------------------------------------------------------------------

Writer ==
  \/ \E f \in Frames : EmitBegin(f)
  \/ \E c \in Region : EmitStore(c)
  \/ EmitEnd

Reader ==
  \/ SnapshotBegin
  \/ SnapshotLoad
  \/ \E c \in Region : SnapshotRead(c)
  \/ SnapshotGeometry
  \/ SnapshotVerify

Next == Writer \/ Reader

Spec == Init /\ [][Next]_vars

\* The shell takes a snapshot on every UI frame, so the reader keeps going.
\* Nothing is assumed of the writer: the helper may be killed between any
\* two of its steps, which is a behaviour where Writer never happens again.
FairSpec == Spec /\ WF_vars(Reader)

-----------------------------------------------------------------------------
(* Properties. *)

\* The frames that are finished: an emit in progress, or cut short by the
\* helper's death, does not count.
Finished == IF seq % 2 = 1 THEN Len(emits) - 1 ELSE Len(emits)

\* A snapshot that answers holds one frame and all of it: the header words
\* and every pixel chunk come from the emit its sequence number names, and
\* as many chunks were copied as that frame has (FrameReader::snapshot's
\* "tear-free" promise, against a writer active at any point of the copy).
TearFree ==
  rpc = "some" =>
    /\ 2 * got[OFF_PIXEL_LEN] = s1
    /\ \A c \in Header \cup Pixels(PixelLen) : 2 * got[c] = s1

\* A snapshot comes back empty only for a reason the helper gave: no frame
\* was ever finished, the latest frame has no pixels, or an emit was in
\* progress at some moment of the snapshot.
EmptyOnlyForCause ==
  rpc = "none" =>
    \/ raced
    \/ Len(emits) = 0
    \/ Area(emits[Len(emits)]) = 0

\* What a snapshot answers, a frame or nothing, is so.
SnapshotSound == TearFree /\ EmptyOnlyForCause

\* The channel implements the atomic register of LatestFrame: an answer is
\* the latest finished frame at the instant of the second sequence load.
Register == INSTANCE LatestFrame WITH
  latest  <- Finished,
  reading <- Reading,
  answer  <- IF rpc = "some" THEN s1 \div 2 ELSE 0

ImplementsRegister == Register!Spec

\* A finished frame that stays the latest is delivered: the retry bound and
\* the early return on a torn header cost snapshots, never the frame.
Latest(n) == seq = 2 * n /\ emits[n] \in {f \in Frames : Area(f) # 0}
Shown(n)  == rpc = "some" /\ s1 = 2 * n

Delivered == \A n \in 1 .. MaxEmits : Latest(n) ~> (~Latest(n) \/ Shown(n))

=============================================================================
