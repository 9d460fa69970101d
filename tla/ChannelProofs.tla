---------------------------- MODULE ChannelProofs ---------------------------
(***************************************************************************)
(* Proofs about the two channels between a helper and the shell, for every *)
(* size of them: the frames in shared memory (FrameChannel) and the        *)
(* messages on the socket (SessionStream).                                 *)
(*                                                                         *)
(* Frames: SnapshotSound, and the implementation of the atomic register.   *)
(* While the sequence still has the even value an attempt loaded first,    *)
(* the writer has not moved, so every cell of the latest frame holds that  *)
(* frame's number and so does everything the attempt loaded.  Attempt      *)
(* below says it; it needs Sequence, Stored and HeaderStored about the     *)
(* writer to be inductive.  Calm is about snapshots that no emit raced     *)
(* with: their first attempt goes through.                                 *)
(*                                                                         *)
(* Messages: the stream implements MessageFifo.  The cells on their way    *)
(* are the frames of the messages written whole and not yet decoded, one   *)
(* after the other from the first cell on, and, while no send has failed,  *)
(* what is written of the next one (Placed).  What a failed send leaves    *)
(* behind lies after all of them.                                          *)
(***************************************************************************)
EXTENDS FrameChannel, SessionStream, SequenceTheorems, TLAPS

(***************************************************************************)
(* Frames in shared memory.                                                *)
(***************************************************************************)

\* The cells the n-th emit stores.
FrameCells(n) == Header \cup Pixels(Area(emits[n]))

\* The sequence counts the increments: one per emit begun, one per finished.
Sequence ==
  /\ wpc = "idle" => seq = 2 * Len(emits) /\ wleft = {}
  /\ wpc = "storing" => Len(emits) > 0 /\ seq = 2 * Len(emits) - 1

\* Every emit fits the region.
AllFit == \A n \in 1 .. Len(emits) : Fits(emits[n])

\* What the latest emit has stored carries its number.
Stored ==
  Len(emits) > 0 =>
    \A c \in FrameCells(Len(emits)) \ wleft : cell[c] = Len(emits)

\* Once a frame is finished every header word belongs to some emit.
HeaderStored ==
  seq >= 2 => \A c \in Header : cell[c] \in 1 .. Len(emits)

\* What the attempt in progress has loaded so far.
Loaded ==
  IF rpc = "header" THEN Header \ rleft
                    ELSE (Header \cup Pixels(PixelLen)) \ rleft

Attempt ==
  /\ rpc \in {"header", "pixels", "some"} => s1 >= 2 /\ s1 <= seq /\ s1 % 2 = 0
  /\ rpc \in {"header", "pixels"} => tries < MaxTries
  /\ rpc = "header" =>
       /\ rleft \subseteq Header
       /\ \A c \in Header \ rleft : got[c] \in 1 .. Len(emits)
  /\ rpc \in {"pixels", "some"} =>
       /\ \A c \in Header : got[c] \in 1 .. Len(emits)
       /\ PixelLen \in 0 .. Capacity
       /\ rleft \subseteq Pixels(PixelLen)
  /\ rpc \in {"header", "pixels"} /\ seq = s1 =>
       \A c \in Loaded : 2 * got[c] = s1

IInv ==
  /\ TypeOK
  /\ Sequence
  /\ AllFit
  /\ Stored
  /\ HeaderStored
  /\ Attempt
  /\ TearFree

-----------------------------------------------------------------------------

\* The size of a frame is a natural number.
LEMMA AreaNat == ASSUME NEW f \in Frames PROVE Area(f) \in Nat
  <1>1. Width[f] \in Nat /\ Height[f] \in Nat
    BY FramesAssumption
  <1>2. \A x, y \in Nat : x * y \in Nat
    OBVIOUS
  <1> QED
    BY <1>1, <1>2 DEF Area

\* A frame that fits is stored inside the region.
LEMMA PixelsInRegion ==
  ASSUME NEW n \in Nat, n <= Capacity
  PROVE  Pixels(n) \subseteq Region
  BY BoundsAssumption DEF Pixels, Region, HEADER_SIZE

\* No header word overlaps the pixels.
LEMMA HeaderInRegion == Header \subseteq Region
  BY DEF Region

LEMMA InitIInv == Init => IInv
  <1> SUFFICES ASSUME Init PROVE IInv
    OBVIOUS
  <1>1. Zeroed \in [Region -> Nat]
    BY DEF Zeroed
  <1>2. TypeOK
    <2>1. <<>> \in Seq(Frames)
      OBVIOUS
    <2>2. 0 \in 0 .. MaxTries
      BY BoundsAssumption
    <2> QED
      BY <1>1, <2>1, <2>2 DEF Init, TypeOK
  <1>3. Sequence /\ AllFit /\ Stored /\ HeaderStored /\ Attempt /\ TearFree
    BY DEF Init, Sequence, AllFit, Stored, HeaderStored, Attempt, TearFree
  <1> QED
    BY <1>2, <1>3 DEF IInv

\* Appending an emit leaves the frames of the earlier ones alone.
LEMMA AppendKeeps ==
  ASSUME emits \in Seq(Frames), NEW f \in Frames
  PROVE  /\ Append(emits, f) \in Seq(Frames)
         /\ Len(Append(emits, f)) = Len(emits) + 1
         /\ Append(emits, f)[Len(emits) + 1] = f
         /\ \A n \in 1 .. Len(emits) : Append(emits, f)[n] = emits[n]
  OBVIOUS

LEMMA EmitBeginIInv ==
  ASSUME IInv, NEW f \in Frames, EmitBegin(f)
  PROVE  IInv'
  <1> USE DEF IInv
  <1> DEFINE k == Len(emits)
  <1>1. /\ k \in Nat /\ seq = 2 * k /\ seq' = 2 * k + 1
        /\ emits' = Append(emits, f) /\ Len(emits') = k + 1 /\ emits'[k + 1] = f
        /\ \A n \in 1 .. k : emits'[n] = emits[n]
        /\ emits' \in Seq(Frames)
    BY AppendKeeps DEF EmitBegin, TypeOK, Sequence
  <1>2. Area(f) \in Nat /\ Area(f) <= Capacity
    BY AreaNat DEF EmitBegin, Fits
  <1>3. wleft' \in SUBSET Region
    BY <1>2, PixelsInRegion, HeaderInRegion DEF EmitBegin
  <1>4. TypeOK'
    BY <1>1, <1>3 DEF EmitBegin, TypeOK, readerVars
  <1>5. Sequence'
    BY <1>1 DEF EmitBegin, Sequence
  <1>6. AllFit'
    BY <1>1 DEF AllFit, EmitBegin, Fits
  <1>7. Stored'
    BY <1>1 DEF Stored, FrameCells, EmitBegin
  <1>8. HeaderStored'
    <2>1. seq' >= 2 => seq >= 2
      BY <1>1
    <2> QED
      BY <1>1, <2>1 DEF HeaderStored, EmitBegin
  <1>9. rpc \in {"pixels", "some"} => PixelLen' = PixelLen
    BY <1>1 DEF Attempt, PixelLen, FrameOf, EmitBegin, readerVars, Header
  <1>10. Attempt'
    <2>1. UNCHANGED <<rpc, s1, got, rleft, tries>> /\ s1 \in Nat
      BY DEF EmitBegin, readerVars, TypeOK
    <2>2. rpc \in {"header", "pixels"} => seq' # s1
      BY <1>1, <2>1 DEF Attempt
    <2> QED
      BY <1>1, <1>9, <2>1, <2>2 DEF Attempt
  <1>11. TearFree'
    BY <1>9 DEF TearFree, EmitBegin, readerVars
  <1> QED
    BY <1>4, <1>5, <1>6, <1>7, <1>8, <1>10, <1>11

LEMMA EmitStoreIInv ==
  ASSUME IInv, NEW c \in Region, EmitStore(c)
  PROVE  IInv'
  <1> USE DEF IInv
  <1>1. Len(emits) \in Nat /\ Len(emits) > 0 /\ seq = 2 * Len(emits) - 1
    BY DEF EmitStore, TypeOK, Sequence
  <1>2. TypeOK'
    BY <1>1 DEF EmitStore, TypeOK, readerVars
  <1>3. Sequence' /\ AllFit'
    BY DEF EmitStore, Sequence, AllFit
  <1>4. Stored'
    BY <1>1 DEF EmitStore, Stored, FrameCells, TypeOK
  <1>5. HeaderStored'
    BY <1>1 DEF EmitStore, HeaderStored, TypeOK
  <1>6. PixelLen' = PixelLen
    BY DEF PixelLen, FrameOf, EmitStore, readerVars
  <1>7. Attempt' /\ TearFree'
    <2>1. UNCHANGED <<rpc, s1, got, rleft, tries, seq, emits>>
      BY DEF EmitStore, readerVars
    <2>2. Loaded' = Loaded
      BY <1>6, <2>1 DEF Loaded
    <2> QED
      BY <1>6, <2>1, <2>2 DEF Attempt, TearFree
  <1> QED
    BY <1>2, <1>3, <1>4, <1>5, <1>7

LEMMA EmitEndIInv ==
  ASSUME IInv, EmitEnd
  PROVE  IInv'
  <1> USE DEF IInv
  <1>1. /\ Len(emits) \in Nat /\ Len(emits) > 0
        /\ seq = 2 * Len(emits) - 1 /\ seq' = 2 * Len(emits)
    BY DEF EmitEnd, TypeOK, Sequence
  <1>2. UNCHANGED <<rpc, s1, got, rleft, tries, emits, cell, wleft>> /\ wleft = {}
    BY DEF EmitEnd, readerVars
  <1>3. TypeOK'
    BY <1>1 DEF EmitEnd, TypeOK, readerVars
  <1>4. Sequence' /\ AllFit' /\ Stored'
    BY <1>1, <1>2 DEF EmitEnd, Sequence, AllFit, Stored, FrameCells
  <1>5. HeaderStored'
    BY <1>1, <1>2 DEF HeaderStored, Stored, FrameCells
  <1>6. PixelLen' = PixelLen
    BY <1>2 DEF PixelLen, FrameOf
  <1>7. Attempt'
    <2>1. rpc \in {"header", "pixels"} => seq' # s1
      BY <1>1 DEF Attempt, TypeOK
    <2> QED
      BY <1>1, <1>2, <1>6, <2>1 DEF Attempt, TypeOK
  <1>8. TearFree'
    BY <1>2, <1>6 DEF TearFree
  <1> QED
    BY <1>3, <1>4, <1>5, <1>7, <1>8

\* The reader leaves the writer's part of the invariant alone.
LEMMA WriterPartKept ==
  ASSUME IInv, UNCHANGED writerVars
  PROVE  Sequence' /\ AllFit' /\ Stored' /\ HeaderStored'
  BY DEF IInv, writerVars, Sequence, AllFit, Stored, FrameCells, HeaderStored

LEMMA SnapshotLoadIInv ==
  ASSUME IInv, SnapshotLoad
  PROVE  IInv'
  <1> USE DEF IInv
  <1>1. Zeroed \in [Region -> Nat]
    BY DEF Zeroed
  <1>2. UNCHANGED writerVars
    BY DEF SnapshotLoad
  <1>3. TypeOK'
    BY <1>1, HeaderInRegion, BoundsAssumption DEF Exhausted, Busy, SnapshotLoad, TypeOK, writerVars
  <1>4. Attempt' /\ TearFree'
    <2>1. CASE rpc' \in {"load", "none"}
      BY <2>1 DEF Attempt, TearFree
    <2>2. CASE rpc' = "header"
      <3>1. s1' = seq /\ rleft' = Header /\ seq' = seq /\ seq # 0 /\ seq % 2 = 0
        BY <2>2, <1>2 DEF Busy, SnapshotLoad, writerVars, TypeOK
      <3>2. s1' >= 2
        BY <3>1 DEF TypeOK
      <3>3. Loaded' = {}
        BY <2>2, <3>1 DEF Loaded
      <3>4. tries' < MaxTries
        <4>1. UNCHANGED tries /\ ~(tries >= MaxTries)
          BY <2>2 DEF Exhausted, SnapshotLoad
        <4> QED
          BY <4>1, BoundsAssumption DEF TypeOK
      <3>5. s1' <= seq'
        BY <3>1 DEF TypeOK
      <3> QED
        BY <2>2, <3>1, <3>2, <3>3, <3>4, <3>5 DEF Attempt, TearFree
    <2> QED
      BY <2>1, <2>2 DEF SnapshotLoad
  <1> QED
    BY <1>2, <1>3, <1>4, WriterPartKept

\* What a load finds while the sequence is still the one loaded first.
LEMMA QuietCells ==
  ASSUME IInv, rpc \in {"header", "pixels"}, seq = s1
  PROVE  \A c \in FrameCells(Len(emits)) : 2 * cell[c] = s1
  <1>1. s1 >= 2 /\ s1 % 2 = 0 /\ s1 \in Nat /\ Len(emits) \in Nat
    BY DEF IInv, Attempt, TypeOK
  <1>2. wpc = "idle"
    <2>1. CASE wpc = "storing"
      BY <2>1, <1>1 DEF IInv, Sequence
    <2> QED
      BY <2>1 DEF IInv, TypeOK
  <1>3. seq = 2 * Len(emits) /\ wleft = {} /\ Len(emits) > 0
    BY <1>1, <1>2 DEF IInv, Sequence
  <1> QED
    BY <1>3 DEF IInv, Stored

\* The pixel length an undisturbed attempt works with is the latest frame's.
LEMMA QuietLength ==
  ASSUME IInv, rpc = "pixels", seq = s1, OFF_PIXEL_LEN \notin rleft
  PROVE  Pixels(PixelLen) \subseteq FrameCells(Len(emits))
  <1>1. OFF_PIXEL_LEN \in Loaded
    BY DEF Loaded, Header
  <1>2. 2 * got[OFF_PIXEL_LEN] = s1
    BY <1>1 DEF IInv, Attempt
  <1>3. seq \in Nat /\ Len(emits) \in Nat /\ s1 % 2 = 0
    BY DEF IInv, TypeOK, Attempt
  <1>4. seq = 2 * Len(emits)
    BY <1>3 DEF IInv, Sequence, TypeOK
  <1>5. got[OFF_PIXEL_LEN] = Len(emits)
    <2>1. got[OFF_PIXEL_LEN] \in Nat
      BY HeaderInRegion DEF IInv, TypeOK, Header
    <2> QED
      BY <1>2, <1>3, <1>4, <2>1
  <1> QED
    BY <1>5 DEF PixelLen, FrameOf, FrameCells

\* Header words lie below the pixels.
LEMMA Apart ==
  ASSUME NEW n \in Nat
  PROVE  Header \cap Pixels(n) = {}
  BY DEF Header, Pixels, HEADER_SIZE, OFF_WIDTH, OFF_HEIGHT, OFF_FORMAT, OFF_PIXEL_LEN

LEMMA SnapshotReadIInv ==
  ASSUME IInv, NEW c \in Region, SnapshotRead(c)
  PROVE  IInv'
  <1> USE DEF IInv
  <1>1. UNCHANGED writerVars /\ rpc' = rpc /\ s1' = s1 /\ tries' = tries
    BY DEF SnapshotRead
  <1>2. TypeOK'
    BY DEF SnapshotRead, TypeOK, writerVars
  <1>3. /\ got' = [got EXCEPT ![c] = cell[c]] /\ rleft' = rleft \ {c} /\ c \in rleft
        /\ got \in [Region -> Nat]
        /\ emits' = emits /\ seq' = seq
    BY DEF SnapshotRead, TypeOK, writerVars
  <1>4. CASE rpc = "header"
    <2>1. s1 >= 2 /\ s1 <= seq /\ s1 % 2 = 0 /\ rleft \subseteq Header
      BY <1>4 DEF Attempt
    <2>2. cell[c] \in 1 .. Len(emits)
      BY <1>3, <2>1 DEF HeaderStored, TypeOK
    <2>3. \A d \in Header \ rleft' : got'[d] \in 1 .. Len(emits)
      BY <1>3, <1>4, <2>2, HeaderInRegion DEF Attempt
    <2>4. seq = s1 => \A d \in Loaded' : 2 * got'[d] = s1
      <3> SUFFICES ASSUME seq = s1, NEW d \in Loaded' PROVE 2 * got'[d] = s1
        OBVIOUS
      <3>1. d \in Header \ rleft'
        BY <1>1, <1>4 DEF Loaded
      <3>2. CASE d = c
        BY <1>3, <1>4, <2>1, <3>2, QuietCells DEF FrameCells
      <3>3. CASE d # c
        <4>1. d \in Loaded
          BY <1>3, <1>4, <3>1, <3>3 DEF Loaded
        <4>2. 2 * got[d] = s1
          BY <1>4, <4>1 DEF Attempt
        <4> QED
          BY <1>3, <3>1, <3>3, <4>2, HeaderInRegion
      <3> QED
        BY <3>2, <3>3
    <2>5. Attempt'
      BY <1>1, <1>3, <1>4, <2>1, <2>3, <2>4 DEF Attempt
    <2> QED
      BY <1>1, <1>2, <1>4, <2>5, WriterPartKept DEF TearFree
  <1>5. CASE rpc = "pixels"
    <2>1. /\ s1 >= 2 /\ s1 <= seq /\ s1 % 2 = 0
          /\ rleft \subseteq Pixels(PixelLen) /\ PixelLen \in 0 .. Capacity
          /\ \A d \in Header : got[d] \in 1 .. Len(emits)
      BY <1>5 DEF Attempt
    <2>2. c \notin Header
      BY <1>3, <2>1, Apart, BoundsAssumption
    <2>3. \A d \in Header : got'[d] = got[d]
      BY <1>3, <2>2, HeaderInRegion
    <2>4. PixelLen' = PixelLen
      BY <1>3, <2>3 DEF PixelLen, FrameOf, Header
    <2>5. seq = s1 => \A d \in Loaded' : 2 * got'[d] = s1
      <3> SUFFICES ASSUME seq = s1, NEW d \in Loaded' PROVE 2 * got'[d] = s1
        OBVIOUS
      <3>1. d \in (Header \cup Pixels(PixelLen)) \ rleft' /\ d \in Region
        BY <1>1, <1>5, <2>1, <2>4, HeaderInRegion, PixelsInRegion, BoundsAssumption
           DEF Loaded
      <3>2. CASE d = c
        <4>1. OFF_PIXEL_LEN \notin rleft
          BY <2>1, Apart, BoundsAssumption DEF Header
        <4>2. c \in FrameCells(Len(emits))
          BY <1>3, <1>5, <2>1, <4>1, QuietLength
        <4> QED
          BY <1>3, <1>5, <3>2, <4>2, QuietCells
      <3>3. CASE d # c
        <4>1. d \in Loaded
          BY <1>3, <1>5, <3>1, <3>3 DEF Loaded
        <4>2. 2 * got[d] = s1
          BY <1>5, <4>1 DEF Attempt
        <4> QED
          BY <1>3, <3>1, <3>3, <4>2
      <3> QED
        BY <3>2, <3>3
    <2>6. Attempt'
      BY <1>1, <1>3, <1>5, <2>1, <2>3, <2>4, <2>5 DEF Attempt
    <2> QED
      BY <1>1, <1>2, <1>5, <2>6, WriterPartKept DEF TearFree
  <1> QED
    BY <1>4, <1>5 DEF SnapshotRead

LEMMA SnapshotGeometryIInv ==
  ASSUME IInv, SnapshotGeometry
  PROVE  IInv'
  <1> USE DEF IInv
  <1>1. UNCHANGED writerVars /\ UNCHANGED <<s1, got, tries, raced>>
    BY DEF SnapshotGeometry
  <1>2. rpc = "header" /\ rleft = {}
    BY DEF SnapshotGeometry
  <1>3. /\ s1 >= 2 /\ s1 <= seq /\ s1 % 2 = 0
        /\ \A d \in Header : got[d] \in 1 .. Len(emits)
    BY <1>2 DEF Attempt
  <1>4. PixelLen \in Nat /\ PixelLen' = PixelLen
    <2>1. FrameOf(OFF_PIXEL_LEN) \in Frames
      BY <1>3 DEF FrameOf, Header, TypeOK
    <2> QED
      BY <1>1, <2>1, AreaNat DEF PixelLen, FrameOf, writerVars
  <1>5. CASE GeometryOK
    <2>1. rpc' = "pixels" /\ rleft' = Pixels(PixelLen) /\ PixelLen <= Capacity
      BY <1>5 DEF SnapshotGeometry, GeometryOK
    <2>2. TypeOK'
      BY <1>1, <1>4, <2>1, PixelsInRegion DEF TypeOK, writerVars
    <2>3. Attempt'
      <3>1. Loaded' \subseteq Header /\ Loaded = Header
        BY <1>2, <1>4, <2>1 DEF Loaded
      <3> QED
        BY <1>1, <1>2, <1>3, <1>4, <2>1, <3>1, BoundsAssumption DEF Attempt, writerVars
    <2> QED
      BY <1>1, <2>1, <2>2, <2>3, WriterPartKept DEF TearFree
  <1>6. CASE ~GeometryOK
    <2>1. rpc' = "none" /\ rleft' = rleft
      BY <1>6 DEF SnapshotGeometry
    <2>2. TypeOK' /\ Attempt' /\ TearFree'
      BY <1>1, <2>1 DEF TypeOK, Attempt, TearFree, writerVars
    <2> QED
      BY <1>1, <2>2, WriterPartKept
  <1> QED
    BY <1>5, <1>6

LEMMA SnapshotVerifyIInv ==
  ASSUME IInv, SnapshotVerify
  PROVE  IInv'
  <1> USE DEF IInv
  <1>1. UNCHANGED writerVars /\ UNCHANGED <<s1, got, rleft, raced>>
    BY DEF SnapshotVerify, Undisturbed
  <1>2. rpc = "pixels" /\ rleft = {} /\ PixelLen' = PixelLen
    BY <1>1 DEF SnapshotVerify, Undisturbed, PixelLen, FrameOf, writerVars
  <1>3. TypeOK'
    <2>1. tries + 1 \in 0 .. MaxTries
      BY <1>2, BoundsAssumption DEF Attempt, TypeOK
    <2> QED
      BY <2>1 DEF SnapshotVerify, Undisturbed, TypeOK, writerVars
  <1>4. Attempt'
    BY <1>1, <1>2 DEF SnapshotVerify, Undisturbed, Attempt, writerVars
  <1>5. TearFree'
    <2>1. CASE seq = s1
      <3>1. \A d \in Header \cup Pixels(PixelLen) : 2 * got[d] = s1
        BY <1>2, <2>1 DEF Attempt, Loaded
      <3> QED
        BY <1>1, <1>2, <3>1 DEF TearFree, Header
    <2>2. CASE seq # s1
      BY <2>2 DEF SnapshotVerify, Undisturbed, TearFree
    <2> QED
      BY <2>1, <2>2
  <1> QED
    BY <1>1, <1>3, <1>4, <1>5, WriterPartKept

LEMMA SnapshotBeginIInv ==
  ASSUME IInv, SnapshotBegin
  PROVE  IInv'
  <1>1. Zeroed \in [Region -> Nat]
    BY DEF Zeroed
  <1>2. TypeOK'
    BY <1>1, BoundsAssumption DEF IInv, SnapshotBegin, TypeOK, writerVars
  <1>3. Attempt' /\ TearFree'
    BY DEF SnapshotBegin, Attempt, TearFree
  <1> QED
    BY <1>2, <1>3, WriterPartKept DEF IInv, SnapshotBegin

LEMMA NextIInv == IInv /\ [Next]_vars => IInv'
  <1> SUFFICES ASSUME IInv, [Next]_vars PROVE IInv'
    OBVIOUS
  <1>1. CASE Writer
    BY <1>1, EmitBeginIInv, EmitStoreIInv, EmitEndIInv DEF Writer
  <1>2. CASE Reader
    BY <1>2, SnapshotBeginIInv, SnapshotLoadIInv, SnapshotReadIInv,
       SnapshotGeometryIInv, SnapshotVerifyIInv DEF Reader
  <1>3. CASE UNCHANGED vars
    BY <1>3 DEF vars, IInv, TypeOK, Sequence, AllFit, Stored, FrameCells, HeaderStored,
       Attempt, Loaded, TearFree, PixelLen, FrameOf
  <1> QED
    BY <1>1, <1>2, <1>3 DEF Next

LEMMA SpecIInv == Spec => []IInv
  BY InitIInv, NextIInv, PTL DEF Spec

\* The variables of the frame channel keep their types.
THEOREM TypeCorrect == Spec => []TypeOK
  <1>1. IInv => TypeOK
    BY DEF IInv
  <1> QED
    BY <1>1, SpecIInv, PTL

-----------------------------------------------------------------------------
(* Snapshots that come back empty. *)

\* A snapshot that no emit races with meets an idle writer, spends no
\* attempt and reads under the sequence it loaded.
Calm ==
  ~raced =>
    /\ wpc = "idle"
    /\ Reading => tries = 0
    /\ rpc \in {"header", "pixels"} => seq = s1

\* The header words of a calm attempt are the latest frame's, so they are
\* refused only when that frame has no pixels.
LEMMA CalmGeometry ==
  ASSUME IInv, Calm, ~raced, SnapshotGeometry, ~GeometryOK
  PROVE  Len(emits) > 0 /\ Area(emits[Len(emits)]) = 0
  <1> USE DEF IInv
  <1>1. /\ rpc = "header" /\ rleft = {} /\ wpc = "idle" /\ seq = s1
        /\ s1 >= 2 /\ s1 \in Nat /\ Len(emits) \in Nat
    BY DEF SnapshotGeometry, Calm, Attempt, TypeOK
  <1>2. seq = 2 * Len(emits) /\ Len(emits) > 0
    BY <1>1 DEF Sequence
  <1>3. \A c \in Header : got[c] = Len(emits)
    <2>1. \A c \in Header : 2 * got[c] = s1 /\ got[c] \in Nat
      BY <1>1, HeaderInRegion DEF Attempt, Loaded, TypeOK
    <2> QED
      BY <1>1, <1>2, <2>1
  <1> DEFINE last == emits[Len(emits)]
  <1>4. last \in Frames /\ Area(last) \in Nat /\ Area(last) <= Capacity
    BY <1>1, <1>2, AreaNat DEF TypeOK, AllFit, Fits
  <1>5. FrameOf(OFF_PIXEL_LEN) = last /\ FrameOf(OFF_WIDTH) = last
        /\ FrameOf(OFF_HEIGHT) = last
    BY <1>3 DEF FrameOf, Header
  <1>6. PixelLen = Area(last) /\ PixelLen = Width[last] * Height[last]
    BY <1>5 DEF PixelLen, Area
  <1> QED
    BY <1>2, <1>4, <1>5, <1>6 DEF GeometryOK

LEMMA InitCalm == Init => Calm /\ EmptyOnlyForCause
  BY DEF Init, Calm, Reading, EmptyOnlyForCause

LEMMA WriterCalm ==
  ASSUME IInv, Calm, EmptyOnlyForCause, Writer
  PROVE  Calm' /\ EmptyOnlyForCause'
  <1>1. CASE \E f \in Frames : EmitBegin(f)
    BY <1>1 DEF EmitBegin, Calm, EmptyOnlyForCause
  <1>2. CASE \E c \in Region : EmitStore(c)
    BY <1>2 DEF EmitStore, Calm, EmptyOnlyForCause, readerVars
  <1>3. CASE EmitEnd
    BY <1>3 DEF EmitEnd, Calm, EmptyOnlyForCause, readerVars
  <1> QED
    BY <1>1, <1>2, <1>3 DEF Writer

LEMMA ReaderCalm ==
  ASSUME IInv, Calm, EmptyOnlyForCause, Reader
  PROVE  Calm' /\ EmptyOnlyForCause'
  <1> USE DEF IInv
  <1>1. UNCHANGED writerVars
    BY DEF Reader, SnapshotBegin, SnapshotLoad, SnapshotRead, SnapshotGeometry,
           SnapshotVerify
  <1>2. CASE SnapshotBegin
    <2>1. raced' = (seq % 2 = 1) /\ rpc' = "load" /\ tries' = 0
      BY <1>2 DEF SnapshotBegin
    <2>2. wpc = "storing" => seq % 2 = 1
      <3> SUFFICES ASSUME wpc = "storing" PROVE seq % 2 = 1
        OBVIOUS
      <3>1. Len(emits) \in Nat /\ Len(emits) > 0 /\ seq = 2 * Len(emits) - 1
        BY DEF Sequence, TypeOK
      <3> QED
        BY <3>1
    <2> QED
      BY <1>1, <2>1, <2>2 DEF Calm, EmptyOnlyForCause, writerVars, TypeOK
  <1>3. CASE SnapshotLoad
    <2>1. rpc = "load" /\ raced' = raced
      BY <1>3 DEF SnapshotLoad
    <2>2. ~raced => ~Exhausted /\ ~Busy
      <3> SUFFICES ASSUME ~raced PROVE ~Exhausted /\ ~Busy
        OBVIOUS
      <3>1. tries = 0 /\ wpc = "idle"
        BY <2>1 DEF Calm, Reading
      <3>2. seq = 2 * Len(emits) /\ Len(emits) \in Nat
        BY <3>1 DEF Sequence, TypeOK
      <3> QED
        BY <3>1, <3>2, BoundsAssumption DEF Exhausted, Busy
    <2>3. ~raced /\ seq = 0 => Len(emits) = 0
      BY DEF Calm, Sequence, TypeOK
    <2>4. Calm'
      BY <1>1, <1>3, <2>1, <2>2 DEF SnapshotLoad, Calm, Reading, writerVars
    <2>5. EmptyOnlyForCause'
      BY <1>1, <1>3, <2>1, <2>2, <2>3 DEF SnapshotLoad, EmptyOnlyForCause, writerVars
    <2> QED
      BY <2>4, <2>5
  <1>4. CASE \E c \in Region : SnapshotRead(c)
    BY <1>1, <1>4 DEF SnapshotRead, Calm, Reading, EmptyOnlyForCause, writerVars
  <1>5. CASE SnapshotGeometry
    <2>1. Calm'
      BY <1>1, <1>5 DEF SnapshotGeometry, Calm, Reading, writerVars
    <2>2. EmptyOnlyForCause'
      BY <1>1, <1>5, CalmGeometry DEF SnapshotGeometry, EmptyOnlyForCause, writerVars
    <2> QED
      BY <2>1, <2>2
  <1>6. CASE SnapshotVerify
    <2>1. ~raced => seq = s1
      BY <1>6 DEF SnapshotVerify, Calm
    <2> QED
      BY <1>1, <1>6, <2>1
         DEF SnapshotVerify, Undisturbed, Calm, Reading, EmptyOnlyForCause, writerVars
  <1> QED
    BY <1>2, <1>3, <1>4, <1>5, <1>6 DEF Reader

LEMMA NextCalm ==
  IInv /\ Calm /\ EmptyOnlyForCause /\ [Next]_vars => Calm' /\ EmptyOnlyForCause'
  <1> SUFFICES ASSUME IInv, Calm, EmptyOnlyForCause, [Next]_vars
               PROVE  Calm' /\ EmptyOnlyForCause'
    OBVIOUS
  <1>1. CASE UNCHANGED vars
    BY <1>1 DEF vars, Calm, Reading, EmptyOnlyForCause
  <1> QED
    BY <1>1, WriterCalm, ReaderCalm DEF Next

\* A snapshot that answers is one whole frame, whatever the writer does
\* while it is taken, and one that does not has a cause.
THEOREM SnapshotIsSound == Spec => []SnapshotSound
  <1>1. IInv /\ EmptyOnlyForCause => SnapshotSound
    BY DEF IInv, SnapshotSound
  <1> QED
    BY <1>1, SpecIInv, InitCalm, NextCalm, PTL DEF Spec

-----------------------------------------------------------------------------
(* The channel implements the atomic register. *)

\* The finished frames, told from the writer's place.
LEMMA FinishedFrames ==
  TypeOK /\ Sequence =>
    /\ wpc = "idle" => Finished = Len(emits) /\ seq = 2 * Finished
    /\ wpc = "storing" => Finished = Len(emits) - 1
    /\ Finished \in Nat
  <1> SUFFICES ASSUME TypeOK, Sequence
               PROVE  /\ wpc = "idle" => Finished = Len(emits) /\ seq = 2 * Finished
                      /\ wpc = "storing" => Finished = Len(emits) - 1
                      /\ Finished \in Nat
    OBVIOUS
  <1>1. Len(emits) \in Nat
    BY DEF TypeOK
  <1>2. CASE wpc = "idle"
    BY <1>1, <1>2 DEF Sequence, Finished
  <1>3. CASE wpc = "storing"
    BY <1>1, <1>3 DEF Sequence, Finished
  <1> QED
    BY <1>2, <1>3 DEF TypeOK

\* What the register's answer is mapped to.
RegisterAnswer == IF rpc = "some" THEN s1 \div 2 ELSE 0

LEMMA WriterImplements ==
  ASSUME IInv, Writer
  PROVE  [Register!Next]_(Register!vars)
  <1> USE DEF IInv
  <1>1. UNCHANGED <<rpc, s1>>
    BY DEF Writer, EmitBegin, EmitStore, EmitEnd, readerVars
  <1>2. Reading' = Reading /\ RegisterAnswer' = RegisterAnswer
    BY <1>1 DEF Reading, RegisterAnswer
  <1>3. Len(emits) \in Nat
    BY DEF TypeOK
  <1>4. ASSUME NEW f \in Frames, EmitBegin(f) PROVE Finished' = Finished
    <2>1. Len(emits') = Len(emits) + 1 /\ seq' = 2 * Len(emits) + 1 /\ wpc = "idle"
      BY <1>3, <1>4, AppendKeeps DEF EmitBegin, TypeOK, Sequence
    <2> QED
      BY <1>3, <2>1, FinishedFrames DEF Finished
  <1>5. ASSUME NEW c \in Region, EmitStore(c) PROVE Finished' = Finished
    BY <1>5 DEF EmitStore, Finished
  <1>6. ASSUME EmitEnd PROVE Finished' = Finished + 1
    <2>1. seq' = 2 * Len(emits) /\ emits' = emits /\ wpc = "storing"
      BY <1>3, <1>6 DEF EmitEnd, TypeOK, Sequence
    <2> QED
      BY <1>3, <2>1, FinishedFrames DEF Finished
  <1> QED
    BY <1>2, <1>4, <1>5, <1>6
       DEF Writer, Register!Next, Register!Publish, Register!vars, RegisterAnswer

LEMMA ReaderImplements ==
  ASSUME IInv, Reader
  PROVE  [Register!Next]_(Register!vars)
  <1> USE DEF IInv
  <1>1. UNCHANGED writerVars
    BY DEF Reader, SnapshotBegin, Exhausted, Busy, SnapshotLoad, SnapshotRead, SnapshotGeometry,
           SnapshotVerify, Undisturbed
  <1>2. Finished' = Finished
    BY <1>1 DEF writerVars, Finished
  <1>3. ASSUME rpc' = rpc, s1' = s1 PROVE UNCHANGED Register!vars
    BY <1>2, <1>3 DEF Register!vars, Reading, RegisterAnswer
  <1>4. ASSUME Reading, rpc' \in {"load", "header", "pixels"}
        PROVE  UNCHANGED Register!vars
    BY <1>2, <1>4 DEF Register!vars, Reading
  <1>5. ASSUME Reading, rpc' = "none" PROVE Register!GiveUp
    BY <1>2, <1>5 DEF Register!GiveUp, Reading
  <1>6. CASE SnapshotBegin
    BY <1>2, <1>6 DEF SnapshotBegin, Reading, Register!Ask, Register!Next
  <1>7. CASE SnapshotLoad
    BY <1>4, <1>5, <1>7 DEF Exhausted, Busy, SnapshotLoad, Reading, Register!Next
  <1>8. CASE \E c \in Region : SnapshotRead(c)
    BY <1>3, <1>8 DEF SnapshotRead
  <1>9. CASE SnapshotGeometry
    BY <1>4, <1>5, <1>9 DEF SnapshotGeometry, Reading, Register!Next
  <1>10. CASE SnapshotVerify
    <2>1. CASE seq = s1
      <3>1. s1 \in Nat /\ s1 >= 2 /\ s1 % 2 = 0 /\ Len(emits) \in Nat
        BY <1>10 DEF SnapshotVerify, Undisturbed, Attempt, TypeOK
      <3>2. wpc = "idle"
        <4>1. CASE wpc = "storing"
          BY <2>1, <3>1, <4>1 DEF Sequence
        <4> QED
          BY <4>1 DEF TypeOK
      <3>3. seq = 2 * Finished /\ Finished \in Nat
        BY <3>2, FinishedFrames
      <3>4. s1 \div 2 = Finished /\ Finished > 0
        BY <2>1, <3>1, <3>3
      <3>5. rpc' = "some" /\ s1' = s1 /\ Reading
        BY <1>10, <2>1 DEF SnapshotVerify, Undisturbed, Reading
      <3>6. Register!Answer
        BY <1>2, <3>4, <3>5 DEF Register!Answer, Reading
      <3> QED
        BY <3>6 DEF Register!Next
    <2>2. CASE seq # s1
      BY <1>4, <1>10, <2>2 DEF SnapshotVerify, Undisturbed, Reading
    <2> QED
      BY <2>1, <2>2
  <1> QED
    BY <1>6, <1>7, <1>8, <1>9, <1>10 DEF Reader

\* Seen from outside, the region behaves like a register that is read and
\* written in one step.
THEOREM ChannelIsRegister == Spec => ImplementsRegister
  <1>1. Init => Register!Init
    BY DEF Init, Register!Init, Finished, Reading
  <1>2. IInv /\ [Next]_vars => [Register!Next]_(Register!vars)
    <2> SUFFICES ASSUME IInv, [Next]_vars
                 PROVE  [Register!Next]_(Register!vars)
      OBVIOUS
    <2>1. CASE UNCHANGED vars
      BY <2>1 DEF vars, Register!vars, Finished, Reading
    <2> QED
      BY <2>1, WriterImplements, ReaderImplements DEF Next
  <1> QED
    BY <1>1, <1>2, SpecIInv, PTL DEF Spec, ImplementsRegister, Register!Spec

(***************************************************************************)
(* Messages on the socket.                                                 *)
(***************************************************************************)

\* The cells on their way: first what the receiver has collected.
Stream == rbuf \o sock

\* Of the first w messages all but k are pending: their frames lie one behind
\* the other in strm, start[m] being the place of the first cell of m and
\* start[w + 1] the place behind the last of them.
FramesLie(start, k, w, strm) ==
  /\ k <= w => start[k + 1] = 1
  /\ \A m \in k + 1 .. w :
       /\ start[m + 1] = start[m] + Size[m]
       /\ start[m + 1] <= Len(strm) + 1
       /\ \A j \in 0 .. Size[m] - 1 : strm[start[m] + j] = [of |-> m, at |-> j]
  /\ \A m, n \in k + 1 .. w + 1 : m < n => start[m] < start[n]

\* From place p on, strm is the first a cells of message m.
Begun(p, m, a, strm) ==
  /\ p + a = Len(strm) + 1
  /\ \A j \in 0 .. a - 1 : strm[p + j] = [of |-> m, at |-> j]

\* rest is strm without its first z cells.
Without(rest, strm, z) ==
  /\ Len(strm) = Len(rest) + z
  /\ \A i \in 1 .. Len(rest) : rest[i] = strm[i + z]

Starts(k, w) == [k + 1 .. w + 1 -> Nat \ {0}]

Placed ==
  \E start \in Starts(Len(decoded), Len(whole)) :
    /\ FramesLie(start, Len(decoded), Len(whole), Stream)
    /\ ~failed => Begun(start[Len(whole) + 1], next, at, Stream)

InOrder ==
  /\ \A i \in 1 .. Len(whole) : whole[i] = i
  /\ \A i \in 1 .. Len(decoded) : i <= Len(whole) => decoded[i] = i
  /\ ~failed => next = Len(whole) + 1 /\ Len(decoded) <= Len(whole)

StreamInv == StreamTypeOK /\ InOrder /\ Placed

-----------------------------------------------------------------------------
(* The stream under the three steps that touch it. *)

\* write_all appends a cell.
LEMMA WriteExtends ==
  ASSUME NEW r \in Seq(Cell), NEW s \in Seq(Cell), NEW c \in Cell
  PROVE  r \o Append(s, c) = Append(r \o s, c)
<1>1. Append(s, c) \in Seq(Cell) /\ r \o s \in Seq(Cell)
  OBVIOUS
<1> QED BY <1>1

\* What the receiver collects was next on the way.
LEMMA RecvKeepsTheStream ==
  ASSUME NEW r \in Seq(Cell), NEW s \in Seq(Cell), NEW n \in 1 .. Len(s)
  PROVE  /\ SubSeq(s, 1, n) \in Seq(Cell)
         /\ SubSeq(s, n + 1, Len(s)) \in Seq(Cell)
         /\ Len(SubSeq(s, n + 1, Len(s))) = Len(s) - n
         /\ (r \o SubSeq(s, 1, n)) \o SubSeq(s, n + 1, Len(s)) = r \o s
<1> DEFINE h == SubSeq(s, 1, n)
           t == SubSeq(s, n + 1, Len(s))
<1>1. h \in Seq(Cell)
  BY SubSeqProperties
<1>2. t \in Seq(Cell) /\ Len(t) = Len(s) - n
  BY SubSeqProperties
<1>3. Len(h) = n /\ \A i \in 1 .. n : h[i] = s[i]
  BY SubSeqProperties
<1>4. \A i \in 1 .. Len(s) - n : t[i] = s[i + n]
  BY SubSeqProperties
<1> HIDE DEF h, t
<1> DEFINE q == r \o h
<1>5. /\ q \in Seq(Cell) /\ Len(q) = Len(r) + n
      /\ \A i \in 1 .. Len(q) : q[i] = IF i <= Len(r) THEN r[i] ELSE h[i - Len(r)]
  <2>1. /\ q \in Seq(Cell) /\ Len(q) = Len(r) + Len(h)
        /\ \A i \in 1 .. Len(r) + Len(h) :
              q[i] = IF i <= Len(r) THEN r[i] ELSE h[i - Len(r)]
    BY <1>1, ConcatProperties
  <2> HIDE DEF q
  <2> QED BY <1>3, <2>1
<1> HIDE DEF q
<1>6. /\ q \o t \in Seq(Cell) /\ Len(q \o t) = Len(q) + Len(t)
      /\ \A i \in 1 .. Len(q) + Len(t) :
            (q \o t)[i] = IF i <= Len(q) THEN q[i] ELSE t[i - Len(q)]
  BY <1>2, <1>5, ConcatProperties
<1>7. /\ r \o s \in Seq(Cell) /\ Len(r \o s) = Len(r) + Len(s)
      /\ \A i \in 1 .. Len(r) + Len(s) :
            (r \o s)[i] = IF i <= Len(r) THEN r[i] ELSE s[i - Len(r)]
  BY ConcatProperties
<1>8. Len(q \o t) = Len(r \o s)
  BY <1>2, <1>5, <1>6, <1>7
<1>9. ASSUME NEW i \in 1 .. Len(q \o t) PROVE (q \o t)[i] = (r \o s)[i]
  <2>1. CASE i <= Len(r)
    BY <2>1, <1>5, <1>6, <1>7, <1>8
  <2>2. CASE Len(r) < i /\ i <= Len(r) + n
    BY <2>2, <1>3, <1>5, <1>6, <1>7, <1>8
  <2>3. CASE Len(r) + n < i
    <3>1. i - Len(q) \in 1 .. Len(s) - n /\ (i - Len(q)) + n = i - Len(r)
      BY <2>3, <1>5, <1>7, <1>8
    <3>2. t[i - Len(q)] = s[i - Len(r)]
      BY <3>1, <1>4
    <3> QED BY <2>3, <3>2, <1>2, <1>5, <1>6, <1>7, <1>8
  <2> QED BY <2>1, <2>2, <2>3, <1>8, <1>7
<1>10. q \o t = r \o s
  BY <1>6, <1>7, <1>8, <1>9, SeqEqual
<1> QED BY <1>1, <1>2, <1>10 DEF q, t, h

\* take_frame drops what it takes.
LEMMA TakeShifts ==
  ASSUME NEW r \in Seq(Cell), NEW s \in Seq(Cell), NEW n \in 1 .. Len(r)
  PROVE  LET q == SubSeq(r, n + 1, Len(r)) IN
         /\ q \in Seq(Cell)
         /\ Without(q \o s, r \o s, n)
<1> DEFINE q == SubSeq(r, n + 1, Len(r))
<1>1. /\ q \in Seq(Cell) /\ Len(r) = Len(q) + n
      /\ \A i \in 1 .. Len(q) : q[i] = r[i + n]
  BY SubSeqProperties
<1> HIDE DEF q
<1>2. Len(q \o s) = Len(q) + Len(s) /\ Len(r \o s) = Len(r) + Len(s)
  BY <1>1, ConcatProperties
<1>3. Len(r \o s) = Len(q \o s) + n
  BY <1>1, <1>2
<1>4. ASSUME NEW i \in 1 .. Len(q \o s)
      PROVE  (q \o s)[i] = (r \o s)[i + n]
  <2>1. CASE i <= Len(q)
    BY <1>1, <2>1
  <2>2. CASE i > Len(q)
    BY <1>1, <1>2, <2>2
  <2> QED BY <1>1, <1>2, <2>1, <2>2
<1> QED BY <1>1, <1>3, <1>4 DEF q, Without

-----------------------------------------------------------------------------
(* Types and order. *)

\* Messages have frames of at least one cell.
LEMMA PendingSizes ==
  ASSUME StreamTypeOK, InOrder
  PROVE  /\ Len(decoded) \in Nat /\ Len(whole) \in Nat
         /\ Len(whole) <= MaxMessages
         /\ \A m \in Len(decoded) + 1 .. Len(whole) : m \in Message /\ Size[m] \in Nat \ {0}
<1>1. Len(decoded) \in Nat /\ Len(whole) \in Nat
  BY DEF StreamTypeOK
<1>2. CASE Len(whole) = 0
  BY <1>1, <1>2, BoundAssumption
<1>3. CASE Len(whole) # 0
  <2>1. whole[Len(whole)] \in Message
    BY <1>1, <1>3 DEF StreamTypeOK
  <2>2. Len(whole) \in Message
    BY <2>1, <1>1, <1>3 DEF InOrder
  <2> QED BY <1>1, <2>2, SizeAssumption, BoundAssumption DEF Message
<1> QED BY <1>2, <1>3

\* What is taken first is the frame of the first message not decoded yet.
LEMMA FirstIsPending ==
  ASSUME StreamTypeOK, InOrder, Placed, Len(decoded) < Len(whole)
  PROVE  LET k == Len(decoded) + 1 IN
         /\ k \in Message /\ Size[k] \in Nat \ {0}
         /\ Size[k] <= Len(Stream)
         /\ \A i \in 1 .. Size[k] : Stream[i] = [of |-> k, at |-> i - 1]
<1> DEFINE k == Len(decoded) + 1
<1> PICK start \in Starts(Len(decoded), Len(whole)) :
      FramesLie(start, Len(decoded), Len(whole), Stream)
  BY DEF Placed
<1>1. k \in Message /\ Size[k] \in Nat \ {0}
  BY PendingSizes
<1>2. Len(Stream) \in Nat
  BY DEF Stream, StreamTypeOK
<1>3. /\ start[k] = 1 /\ start[k + 1] = start[k] + Size[k]
      /\ start[k + 1] <= Len(Stream) + 1
      /\ \A j \in 0 .. Size[k] - 1 : Stream[start[k] + j] = [of |-> k, at |-> j]
  BY PendingSizes DEF FramesLie
<1>4. Size[k] <= Len(Stream)
  BY <1>1, <1>2, <1>3
<1>5. ASSUME NEW i \in 1 .. Size[k] PROVE Stream[i] = [of |-> k, at |-> i - 1]
  <2>1. i - 1 \in 0 .. Size[k] - 1 /\ 1 + (i - 1) = i
    BY <1>1
  <2> QED BY <1>3, <2>1
<1> QED BY <1>1, <1>4, <1>5

\* and Take decodes it.
LEMMA TakesTheFirst ==
  ASSUME StreamTypeOK, InOrder, Placed, Len(decoded) < Len(whole),
         NEW n \in Complete, rbuf # <<>>
  PROVE  /\ n = Size[Len(decoded) + 1] /\ n \in 1 .. Len(rbuf)
         /\ IsFrame(SubSeq(rbuf, 1, n))
         /\ Content(SubSeq(rbuf, 1, n)) = Len(decoded) + 1
<1> DEFINE k == Len(decoded) + 1
           s == SubSeq(rbuf, 1, n)
<1>1. /\ k \in Message /\ Size[k] \in Nat \ {0}
      /\ \A i \in 1 .. Size[k] : Stream[i] = [of |-> k, at |-> i - 1]
  BY FirstIsPending
<1>2. Len(rbuf) \in Nat \ {0} /\ \A i \in 1 .. Len(rbuf) : Stream[i] = rbuf[i]
  BY DEF StreamTypeOK, Stream
<1>3. rbuf[1] = [of |-> k, at |-> 0]
  BY <1>1, <1>2
<1>4. n = Size[k] /\ n \in 1 .. Len(rbuf)
  BY <1>1, <1>2, <1>3 DEF Complete, Lengths
<1>5. \A i \in 1 .. n : rbuf[i] = [of |-> k, at |-> i - 1]
  BY <1>1, <1>2, <1>4
<1>6. Len(s) = n /\ \A i \in 1 .. n : s[i] = rbuf[i]
  <2>1. \A i \in 1 .. n : rbuf[i] \in Cell
    BY <1>4 DEF StreamTypeOK
  <2> QED BY <1>4, <2>1, SubSeqProperties
<1>7. IsFrame(s) /\ s[1].of = k
  <2> HIDE DEF s
  <2>1. \A i \in 1 .. Len(s) : s[i] = [of |-> k, at |-> i - 1]
    BY <1>4, <1>5, <1>6
  <2>2. s[1] = [of |-> k, at |-> 0]
    BY <2>1, <1>4, <1>6
  <2>3. s[1].of = k /\ s[1].at = 0 /\ Len(s) = Size[k]
    BY <2>2, <1>4, <1>6
  <2> QED BY <2>1, <2>3 DEF IsFrame
<1> QED BY <1>4, <1>7 DEF Content

\* While no send has failed, nothing is taken before it is whole.
LEMMA NothingElseIsTaken ==
  ASSUME StreamTypeOK, InOrder, Placed, ~failed,
         Len(decoded) = Len(whole), rbuf # <<>>
  PROVE  Complete = {}
<1> PICK start \in Starts(Len(decoded), Len(whole)) :
      /\ FramesLie(start, Len(decoded), Len(whole), Stream)
      /\ Begun(start[Len(whole) + 1], next, at, Stream)
  BY DEF Placed
<1>1. /\ Len(rbuf) \in Nat \ {0} /\ Len(sock) \in Nat /\ at \in Nat
      /\ Len(decoded) \in Nat
      /\ Len(Stream) = Len(rbuf) + Len(sock)
      /\ Stream[1] = rbuf[1]
  BY SizeAssumption DEF StreamTypeOK, Stream
<1>2. start[Len(whole) + 1] = 1
  BY <1>1 DEF FramesLie
<1>3. at = Len(Stream) /\ \A j \in 0 .. at - 1 : Stream[1 + j] = [of |-> next, at |-> j]
  BY <1>1, <1>2 DEF Begun
<1>4. next \in Message /\ at < Size[next] /\ Size[next] \in Nat
  BY <1>1, <1>3, SizeAssumption DEF StreamTypeOK
<1>5. rbuf[1] = [of |-> next, at |-> 0]
  <2>1. 0 \in 0 .. at - 1 /\ 1 + 0 = 1
    BY <1>1, <1>3
  <2> QED BY <1>1, <1>3, <2>1
<1> QED BY <1>1, <1>3, <1>4, <1>5 DEF Complete, Lengths

-----------------------------------------------------------------------------
(* The invariant. *)

LEMMA InitStreamInv == StreamInit => StreamInv
<1> SUFFICES ASSUME StreamInit PROVE StreamInv
  OBVIOUS
<1>1. /\ Len(decoded) = 0 /\ Len(whole) = 0 /\ Len(rbuf) = 0 /\ Len(sock) = 0
      /\ at = 0 /\ next = 1 /\ failed = FALSE
  BY DEF StreamInit
<1>2. StreamTypeOK
  <2>1. /\ next \in 1 .. MaxMessages + 1
        /\ at \in 0 .. (IF next \in Message THEN Size[next] - 1 ELSE 0)
    BY <1>1, BoundAssumption, SizeAssumption
  <2>2. /\ sock \in Seq(Cell) /\ Len(sock) <= Room /\ rbuf \in Seq(Cell)
        /\ decoded \in Seq(Message \cup {Forged}) /\ whole \in Seq(Message)
    BY BoundAssumption DEF StreamInit
  <2> QED BY <2>1, <2>2 DEF StreamInit, StreamTypeOK
<1>3. InOrder
  BY <1>1 DEF InOrder
<1>4. Placed
  <2> DEFINE start == [m \in {1} |-> 1]
  <2>1. Len(decoded) + 1 .. Len(whole) + 1 = {1} /\ Len(decoded) + 1 .. Len(whole) = {}
    BY <1>1
  <2>2. start \in Starts(Len(decoded), Len(whole))
    BY <2>1 DEF Starts
  <2>3. Len(Stream) = 0
    BY DEF StreamInit, Stream
  <2>4. FramesLie(start, Len(decoded), Len(whole), Stream)
    BY <1>1, <2>1 DEF FramesLie
  <2>5. Begun(start[Len(whole) + 1], next, at, Stream)
    BY <1>1, <2>3 DEF Begun
  <2> QED BY <2>2, <2>4, <2>5 DEF Placed
<1> QED BY <1>2, <1>3, <1>4 DEF StreamInv

\* What take_frame cuts off is a piece of the buffer, and is read as a message
\* or as something else.
LEMMA ContentTyped ==
  ASSUME StreamTypeOK, rbuf # <<>>, NEW n \in Complete
  PROVE  /\ n \in 1 .. Len(rbuf)
         /\ Content(SubSeq(rbuf, 1, n)) \in Message \cup {Forged}
<1>1. rbuf \in Seq(Cell) /\ rbuf[1] \in Cell
  BY DEF StreamTypeOK
<1>2. n \in 1 .. Len(rbuf)
  BY <1>1, SizeAssumption DEF Complete, Lengths, Cell
<1>3. SubSeq(rbuf, 1, n)[1] = rbuf[1]
  BY <1>1, <1>2
<1> QED BY <1>1, <1>2, <1>3 DEF Content, Cell

LEMMA TypeStep ==
  ASSUME StreamTypeOK, InOrder, [StreamNext]_streamVars
  PROVE  StreamTypeOK'
<1>1. CASE Write
  <2>1. [of |-> next, at |-> at] \in Cell
    BY <1>1, SizeAssumption DEF Write, StreamTypeOK, Cell
  <2>2. sock' \in Seq(Cell) /\ Len(sock') <= Room
    BY <1>1, <2>1, BoundAssumption DEF Write, CanWrite, StreamTypeOK
  <2>3. /\ next' \in 1 .. MaxMessages + 1
        /\ at' \in 0 .. (IF next' \in Message THEN Size[next'] - 1 ELSE 0)
    BY <1>1, BoundAssumption, SizeAssumption DEF Write, StreamTypeOK, Message
  <2>4. whole' \in Seq(Message)
    <3>1. next \in Message /\ whole \in Seq(Message)
      BY <1>1 DEF Write, StreamTypeOK
    <3>2. Append(whole, next) \in Seq(Message)
      BY <3>1
    <3>3. whole' = whole \/ whole' = Append(whole, next)
      BY <1>1 DEF Write
    <3> QED BY <3>1, <3>2, <3>3
  <2> QED BY <1>1, <2>2, <2>3, <2>4 DEF Write, StreamTypeOK
<1>2. CASE WriteFails
  BY <1>2, BoundAssumption, SizeAssumption DEF WriteFails, StreamTypeOK, Message
<1>3. CASE Leave
  BY <1>3 DEF Leave, StreamTypeOK
<1>4. CASE Recv
  <2>1. PICK n \in 1 .. Len(sock) :
          /\ rbuf' = rbuf \o SubSeq(sock, 1, n)
          /\ sock' = SubSeq(sock, n + 1, Len(sock))
    BY <1>4 DEF Recv
  <2>2. rbuf' \in Seq(Cell) /\ sock' \in Seq(Cell) /\ Len(sock') = Len(sock) - n
    BY <2>1, RecvKeepsTheStream DEF StreamTypeOK
  <2> QED BY <1>4, <2>2, BoundAssumption DEF Recv, StreamTypeOK
<1>5. CASE Take
  <2>1. PICK n \in Complete :
          LET s == SubSeq(rbuf, 1, n) IN
          /\ rbuf' = SubSeq(rbuf, n + 1, Len(rbuf))
          /\ \/ decoded' = Append(decoded, Content(s)) /\ UNCHANGED receiver
             \/ ~IsFrame(s) /\ receiver' = "ended" /\ UNCHANGED decoded
    BY <1>5 DEF Take
  <2>2. n \in 1 .. Len(rbuf) /\ rbuf \in Seq(Cell) /\ sock \in Seq(Cell)
    BY <1>5, ContentTyped DEF Take, StreamTypeOK
  <2>3. rbuf' \in Seq(Cell)
    BY <2>1, <2>2, TakeShifts
  <2>4. Content(SubSeq(rbuf, 1, n)) \in Message \cup {Forged}
    BY <1>5, ContentTyped DEF Take
  <2>5. decoded' \in Seq(Message \cup {Forged})
    <3>1. decoded \in Seq(Message \cup {Forged})
      BY DEF StreamTypeOK
    <3>2. Append(decoded, Content(SubSeq(rbuf, 1, n))) \in Seq(Message \cup {Forged})
      BY <3>1, <2>4
    <3> QED BY <2>1, <3>1, <3>2
  <2>6. receiver' \in {"up", "ended"}
    BY <2>1 DEF StreamTypeOK
  <2> QED BY <1>5, <2>3, <2>5, <2>6 DEF Take, StreamTypeOK
<1>6. CASE TooLong
  BY <1>6 DEF TooLong, StreamTypeOK
<1>7. CASE Eof
  BY <1>7 DEF Eof, StreamTypeOK
<1>8. CASE UNCHANGED streamVars
  BY <1>8 DEF streamVars, StreamTypeOK
<1> QED BY <1>1, <1>2, <1>3, <1>4, <1>5, <1>6, <1>7, <1>8 DEF StreamNext, Poll

\* Whole messages are the first ones, and the first ones are decoded first.
LEMMA OrderStep ==
  ASSUME StreamInv, [StreamNext]_streamVars
  PROVE  InOrder'
<1> USE DEF StreamInv
<1>0. /\ Len(decoded) \in Nat /\ Len(whole) \in Nat
      /\ decoded \in Seq(Message \cup {Forged}) /\ whole \in Seq(Message)
  BY DEF StreamTypeOK
<1>1. CASE Write
  <2>1. CASE whole' = whole /\ next' = next
    BY <1>1, <2>1 DEF Write, InOrder
  <2>2. CASE whole' = Append(whole, next) /\ next' = next + 1 /\ ~failed
    <3>1. /\ Len(whole') = Len(whole) + 1 /\ next = Len(whole) + 1
          /\ \A i \in 1 .. Len(whole) : whole'[i] = whole[i]
          /\ whole'[Len(whole) + 1] = next
      BY <1>0, <2>2 DEF InOrder
    <3>2. Len(decoded) <= Len(whole) /\ decoded' = decoded
      BY <1>1, <2>2 DEF InOrder, Write
    <3> QED BY <1>0, <1>1, <2>2, <3>1, <3>2 DEF Write, InOrder
  <2>3. CASE whole' = whole /\ failed
    BY <1>1, <2>3 DEF Write, InOrder
  <2> QED BY <1>1, <2>1, <2>2, <2>3 DEF Write, StreamTypeOK
<1>2. CASE WriteFails
  BY <1>2 DEF WriteFails, InOrder
<1>3. CASE Take
  <2>1. PICK n \in Complete :
          LET s == SubSeq(rbuf, 1, n) IN
          \/ decoded' = Append(decoded, Content(s))
          \/ ~IsFrame(s) /\ UNCHANGED decoded
    BY <1>3 DEF Take
  <2>2. CASE Len(decoded) < Len(whole)
    <3>1. decoded' = Append(decoded, Len(decoded) + 1)
      BY <1>3, <2>1, <2>2, TakesTheFirst DEF Take
    <3>2. /\ Len(decoded') = Len(decoded) + 1
          /\ \A i \in 1 .. Len(decoded) : decoded'[i] = decoded[i]
          /\ decoded'[Len(decoded) + 1] = Len(decoded) + 1
      BY <3>1, <1>0
    <3>3. \A i \in 1 .. Len(decoded) : i <= Len(whole) => decoded[i] = i
      BY DEF InOrder
    <3>4. \A i \in 1 .. Len(decoded') : decoded'[i] = i
      BY <1>0, <2>2, <3>2, <3>3
    <3> HIDE DEF StreamInv
    <3>5. Len(decoded') <= Len(whole)
      BY <1>0, <2>2, <3>2
    <3> QED BY <1>3, <3>4, <3>5 DEF Take, InOrder, StreamInv
  <2>3. CASE Len(decoded) >= Len(whole)
    <3>1. failed
      <4> SUFFICES ASSUME ~failed PROVE FALSE
        OBVIOUS
      <4>1. Len(decoded) = Len(whole)
        BY <1>0, <2>3 DEF InOrder
      <4>2. rbuf # <<>>
        BY <1>3 DEF Take
      <4> QED BY <4>1, <4>2, NothingElseIsTaken
    <3>2. \A i \in 1 .. Len(decoded) : decoded'[i] = decoded[i]
      <4>1. \A v : v \in Message \cup {Forged} =>
              \A i \in 1 .. Len(decoded) : Append(decoded, v)[i] = decoded[i]
        BY <1>0
      <4>2. Content(SubSeq(rbuf, 1, n)) \in Message \cup {Forged}
        BY ContentTyped, <1>3 DEF Take
      <4> HIDE DEF StreamInv
      <4> QED BY <2>1, <4>1, <4>2
    <3> QED BY <1>0, <1>3, <2>3, <3>1, <3>2 DEF Take, InOrder
  <2> QED BY <1>0, <2>2, <2>3
<1>4. CASE UNCHANGED <<next, decoded, whole, failed>>
  BY <1>4 DEF InOrder
<1> QED
  BY <1>1, <1>2, <1>3, <1>4
  DEF StreamNext, Poll, Leave, Recv, TooLong, Eof, streamVars

\* More cells behind the frames do not move them.
LEMMA FramesExtend ==
  ASSUME NEW k \in Nat, NEW w \in Nat, NEW start \in Starts(k, w),
         w <= MaxMessages,
         NEW strm \in Seq(Cell), NEW c \in Cell,
         FramesLie(start, k, w, strm)
  PROVE  FramesLie(start, k, w, Append(strm, c))
<1> DEFINE more == Append(strm, c)
<1>1. /\ Len(more) = Len(strm) + 1 /\ Len(strm) \in Nat
      /\ \A i \in 1 .. Len(strm) : more[i] = strm[i]
  OBVIOUS
<1> HIDE DEF more
<1>2. ASSUME NEW m \in k + 1 .. w
      PROVE  /\ start[m + 1] = start[m] + Size[m]
             /\ start[m + 1] <= Len(more) + 1
             /\ \A j \in 0 .. Size[m] - 1 : more[start[m] + j] = [of |-> m, at |-> j]
  <2>1. /\ start[m] \in Nat \ {0} /\ start[m + 1] \in Nat \ {0}
        /\ start[m + 1] = start[m] + Size[m]
        /\ start[m + 1] <= Len(strm) + 1
        /\ Size[m] \in Nat
    BY SizeAssumption, BoundAssumption DEF FramesLie, Starts, Message
  <2>2. ASSUME NEW j \in 0 .. Size[m] - 1
        PROVE  more[start[m] + j] = [of |-> m, at |-> j]
    <3>1. start[m] + j \in 1 .. Len(strm)
      BY <1>1, <2>1
    <3> QED BY <1>1, <3>1 DEF FramesLie
  <2> QED BY <1>1, <2>1, <2>2
<1>3. FramesLie(start, k, w, more)
  BY <1>2 DEF FramesLie
<1> QED BY <1>3 DEF more

\* The message that is written goes on behind the frames.
LEMMA BegunExtends ==
  ASSUME NEW strm \in Seq(Cell), NEW p \in Nat \ {0}, NEW a \in Nat,
         NEW m \in Message, Begun(p, m, a, strm)
  PROVE  Begun(p, m, a + 1, Append(strm, [of |-> m, at |-> a]))
<1> DEFINE more == Append(strm, [of |-> m, at |-> a])
<1>1. [of |-> m, at |-> a] \in Cell
  BY DEF Cell
<1>2. /\ Len(more) = Len(strm) + 1 /\ Len(strm) \in Nat
      /\ \A i \in 1 .. Len(strm) : more[i] = strm[i]
      /\ more[Len(strm) + 1] = [of |-> m, at |-> a]
  BY <1>1, AppendProperties
<1> HIDE DEF more
<1>3. p + a = Len(strm) + 1
  BY DEF Begun
<1>4. ASSUME NEW j \in 0 .. a PROVE more[p + j] = [of |-> m, at |-> j]
  <2>1. CASE j = a
    BY <2>1, <1>2, <1>3
  <2>2. CASE j # a
    <3>1. p + j \in 1 .. Len(strm) /\ j \in 0 .. a - 1
      BY <2>2, <1>2, <1>3
    <3> QED BY <3>1, <1>2 DEF Begun
  <2> QED BY <2>1, <2>2
<1>5. Begun(p, m, a + 1, more)
  <2>1. 0 .. (a + 1) - 1 = 0 .. a /\ p + (a + 1) = Len(more) + 1
    BY <1>2, <1>3
  <2> QED BY <1>4, <2>1 DEF Begun
<1> QED BY <1>5 DEF more

\* A frame written whole is the last of the frames.
LEMMA FramesGrow ==
  ASSUME NEW k \in Nat, NEW w \in Nat, k <= w, NEW start \in Starts(k, w),
         w + 1 \in Message,
         NEW strm \in Seq(Cell), FramesLie(start, k, w, strm),
         Begun(start[w + 1], w + 1, Size[w + 1], strm)
  PROVE  \E longer \in Starts(k, w + 1) :
           /\ FramesLie(longer, k, w + 1, strm)
           /\ Begun(longer[w + 2], w + 2, 0, strm)
<1> DEFINE z == Size[w + 1]
           longer == [m \in k + 1 .. w + 2 |-> IF m = w + 2 THEN start[w + 1] + z
                                               ELSE start[m]]
<1>1. z \in Nat \ {0} /\ start[w + 1] \in Nat \ {0} /\ Len(strm) \in Nat
  BY SizeAssumption DEF Starts
<1>2. \A m \in k + 1 .. w + 1 : longer[m] = start[m] /\ start[m] \in Nat \ {0}
  BY DEF Starts
<1>3. longer[w + 2] = start[w + 1] + z
  OBVIOUS
<1>4. longer \in Starts(k, w + 1)
  BY <1>1 DEF Starts
<1> HIDE DEF longer
<1>5. longer[w + 2] = Len(strm) + 1
  BY <1>3 DEF Begun
<1>6. ASSUME NEW m \in k + 1 .. w + 1
      PROVE  /\ longer[m + 1] = longer[m] + Size[m]
             /\ longer[m + 1] <= Len(strm) + 1
             /\ \A j \in 0 .. Size[m] - 1 : strm[longer[m] + j] = [of |-> m, at |-> j]
  <2>1. CASE m = w + 1
    BY <2>1, <1>1, <1>2, <1>3, <1>5 DEF Begun
  <2>2. CASE m # w + 1
    <3>1. m \in k + 1 .. w /\ m + 1 \in k + 1 .. w + 1
      BY <2>2
    <3> QED BY <3>1, <1>2 DEF FramesLie
  <2> QED BY <2>1, <2>2
<1>7. ASSUME NEW m \in k + 1 .. w + 2, NEW n \in k + 1 .. w + 2, m < n
      PROVE  longer[m] < longer[n]
  <2>1. CASE n = w + 2
    <3>1. m \in k + 1 .. w + 1 /\ w + 1 \in k + 1 .. w + 1
      BY <1>7, <2>1
    <3>2. start[m] <= start[w + 1]
      <4>1. CASE m = w + 1
        BY <4>1, <1>1
      <4>2. CASE m < w + 1
        BY <3>1, <4>2, <1>2 DEF FramesLie
      <4> QED BY <3>1, <4>1, <4>2
    <3> QED BY <2>1, <3>1, <3>2, <1>1, <1>2, <1>3
  <2>2. CASE n # w + 2
    <3>1. m \in k + 1 .. w + 1 /\ n \in k + 1 .. w + 1
      BY <1>7, <2>2
    <3> QED BY <3>1, <1>2, <1>7 DEF FramesLie
  <2> QED BY <2>1, <2>2
<1>8. longer[k + 1] = 1
  BY <1>2 DEF FramesLie
<1>9. FramesLie(longer, k, w + 1, strm)
  BY <1>6, <1>7, <1>8 DEF FramesLie
<1>10. Begun(longer[w + 2], w + 2, 0, strm)
  BY <1>1, <1>5 DEF Begun
<1> QED BY <1>4, <1>9, <1>10

\* rest is what is left of strm without its first frame, of z cells.
Shifted(start, k, strm, rest, z) ==
  /\ z \in Nat \ {0} /\ start[k + 2] = 1 + z
  /\ rest \in Seq(Cell) /\ Without(rest, strm, z)

\* Without the first frame, the others begin that much earlier.
Earlier(start, k, w, z) == [m \in k + 2 .. w + 1 |-> start[m] - z]

LEMMA FramesShift ==
  ASSUME NEW k \in Nat, NEW w \in Nat, k < w, NEW start \in Starts(k, w),
         w <= MaxMessages,
         NEW strm \in Seq(Cell), FramesLie(start, k, w, strm),
         NEW z, NEW rest, Shifted(start, k, strm, rest, z),
         NEW x, NEW a \in Nat
  PROVE  /\ Earlier(start, k, w, z) \in Starts(k + 1, w)
         /\ FramesLie(Earlier(start, k, w, z), k + 1, w, rest)
         /\ Begun(start[w + 1], x, a, strm)
              => Begun(Earlier(start, k, w, z)[w + 1], x, a, rest)
<1> DEFINE earlier == Earlier(start, k, w, z)
           r == Len(rest)
           l == Len(strm)
<1>0. \A i \in 1 .. r : rest[i] = strm[i + z]
  BY DEF Shifted, Without
<1>1. l = r + z
  BY DEF Shifted, Without
<1>10. start[k + 2] = 1 + z
  BY DEF Shifted
<1>11. z \in Nat \ {0} /\ r \in Nat
  BY DEF Shifted
<1> HIDE DEF r, l
<1>2. ASSUME NEW m \in k + 2 .. w + 1
      PROVE  start[m] \in Nat /\ start[m] >= 1 + z
  <2>1. start[m] \in Nat /\ start[k + 2] \in Nat
    BY DEF Starts
  <2>2. CASE m = k + 2
    BY <2>1, <2>2, <1>10, <1>11
  <2>3. CASE k + 2 < m
    <3>1. k + 2 \in k + 1 .. w + 1 /\ m \in k + 1 .. w + 1
      OBVIOUS
    <3>2. start[k + 2] < start[m]
      BY <2>3, <3>1 DEF FramesLie
    <3> QED BY <2>1, <3>2, <1>10, <1>11
  <2> QED BY <2>2, <2>3
<1>3. \A m \in k + 2 .. w + 1 : earlier[m] \in Nat \ {0} /\ start[m] = earlier[m] + z
  BY <1>2, <1>11 DEF Earlier
<1>4. earlier \in Starts(k + 1, w)
  <2>1. (k + 1) + 1 .. w + 1 = k + 2 .. w + 1
    OBVIOUS
  <2>2. earlier = [m \in k + 2 .. w + 1 |-> start[m] - z]
    BY DEF Earlier
  <2> QED BY <1>3, <2>1, <2>2 DEF Starts
<1> HIDE DEF earlier
<1>5. ASSUME NEW m \in k + 2 .. w
      PROVE  /\ earlier[m + 1] = earlier[m] + Size[m]
             /\ earlier[m + 1] <= r + 1
             /\ \A j \in 0 .. Size[m] - 1 : rest[earlier[m] + j] = [of |-> m, at |-> j]
  <2>1. m \in k + 1 .. w /\ m \in k + 2 .. w + 1 /\ m + 1 \in k + 2 .. w + 1
    OBVIOUS
  <2>2. Size[m] \in Nat
    BY SizeAssumption, BoundAssumption DEF Message
  <2>3. /\ start[m + 1] = start[m] + Size[m]
        /\ start[m + 1] <= l + 1
    BY <2>1 DEF FramesLie, l
  <2>4. start[m] = earlier[m] + z /\ start[m + 1] = earlier[m + 1] + z
    BY <2>1, <1>3
  <2>7. earlier[m] \in Nat \ {0} /\ earlier[m + 1] \in Nat \ {0}
    BY <2>1, <1>3
  <2>5. /\ earlier[m + 1] = earlier[m] + Size[m]
        /\ earlier[m + 1] <= r + 1
    <3>1. earlier[m + 1] = earlier[m] + Size[m]
      BY <2>2, <2>3, <2>4, <2>7, <1>11
    <3>2. earlier[m + 1] <= r + 1
      BY <1>1, <2>3, <2>4, <2>7, <1>11
    <3> QED BY <3>1, <3>2
  <2>6. ASSUME NEW j \in 0 .. Size[m] - 1
        PROVE  rest[earlier[m] + j] = [of |-> m, at |-> j]
    <3>1. /\ earlier[m] + j \in 1 .. r
          /\ (earlier[m] + j) + z = start[m] + j
      <4>1. earlier[m] + j \in 1 .. r
        <5>1. earlier[m] + Size[m] <= r + 1
          BY <2>5
        <5> QED BY <5>1, <1>11, <2>2, <2>7
      <4>2. (earlier[m] + j) + z = start[m] + j
        BY <2>2, <2>4, <2>7, <1>11
      <4> QED BY <4>1, <4>2
    <3>2. rest[earlier[m] + j] = strm[start[m] + j]
      BY <1>0, <3>1
    <3> QED BY <2>1, <3>2 DEF FramesLie
  <2> QED BY <2>5, <2>6
<1>6. \A m, n \in k + 2 .. w + 1 : m < n => earlier[m] < earlier[n]
  <2> SUFFICES ASSUME NEW m \in k + 2 .. w + 1, NEW n \in k + 2 .. w + 1, m < n
               PROVE  earlier[m] < earlier[n]
    OBVIOUS
  <2>1. start[m] < start[n]
    BY DEF FramesLie
  <2> QED BY <2>1, <1>3, <1>11
<1>7. earlier[k + 2] = 1
  <2>1. earlier[k + 2] \in Nat /\ 1 + z = earlier[k + 2] + z
    BY <1>3, <1>10
  <2> QED BY <2>1, <1>11
<1>8. FramesLie(earlier, k + 1, w, rest)
  <2>1. (k + 1) + 1 = k + 2
    OBVIOUS
  <2> QED BY <1>5, <1>6, <1>7, <2>1 DEF FramesLie, r
<1>9. ASSUME Begun(start[w + 1], x, a, strm)
      PROVE  Begun(earlier[w + 1], x, a, rest)
  <2>1. earlier[w + 1] \in Nat \ {0} /\ start[w + 1] = earlier[w + 1] + z
    BY <1>3
  <2>2. start[w + 1] + a = l + 1
    BY <1>9 DEF Begun, l
  <2>3. earlier[w + 1] + a = r + 1
    BY <1>1, <1>9, <2>1, <2>2, <1>11
  <2>4. ASSUME NEW j \in 0 .. a - 1
        PROVE  rest[earlier[w + 1] + j] = [of |-> x, at |-> j]
    <3>1. /\ earlier[w + 1] + j \in 1 .. r
          /\ (earlier[w + 1] + j) + z = start[w + 1] + j
      <4>1. earlier[w + 1] + j \in 1 .. r
        BY <1>9, <1>11, <2>1, <2>3
      <4>2. (earlier[w + 1] + j) + z = start[w + 1] + j
        BY <1>11, <2>1
      <4> QED BY <4>1, <4>2
    <3>2. rest[earlier[w + 1] + j] = strm[start[w + 1] + j]
      BY <1>0, <3>1
    <3> QED BY <3>2, <1>9 DEF Begun
  <2> QED BY <2>3, <2>4 DEF Begun, r
<1> QED BY <1>4, <1>8, <1>9 DEF earlier

\* Each step leaves the frames of the pending messages in their places: a write
\* goes behind them, and what is taken is the first of them or, after a failure
\* and behind all of them, something else.
LEMMA PlacedStep ==
  ASSUME StreamInv, [StreamNext]_streamVars
  PROVE  Placed'
<1> USE DEF StreamInv
<1> DEFINE k == Len(decoded)
           w == Len(whole)
<1>0. /\ k \in Nat /\ w \in Nat /\ w <= MaxMessages
      /\ rbuf \in Seq(Cell) /\ sock \in Seq(Cell) /\ Stream \in Seq(Cell)
      /\ at \in Nat
  BY PendingSizes, SizeAssumption DEF StreamTypeOK, Stream
<1> PICK start \in Starts(k, w) :
      /\ FramesLie(start, k, w, Stream)
      /\ ~failed => Begun(start[w + 1], next, at, Stream)
  BY DEF Placed
<1>1. CASE Write
  <2> DEFINE c == [of |-> next, at |-> at]
  <2>1. next \in Message /\ c \in Cell
    BY <1>0, <1>1 DEF Write, Cell
  <2>2. Stream' = Append(Stream, c) /\ decoded' = decoded /\ failed' = failed
    <3>1. rbuf' \o sock' = rbuf \o Append(sock, c)
      BY <1>1 DEF Write
    <3> QED BY <3>1, <1>0, <1>1, <2>1, WriteExtends DEF Write, Stream
  <2>3. FramesLie(start, k, w, Append(Stream, c))
    BY <1>0, <2>1, FramesExtend
  <2>4. ~failed => Begun(start[w + 1], next, at + 1, Append(Stream, c))
    <3> SUFFICES ASSUME ~failed
                 PROVE  Begun(start[w + 1], next, at + 1, Append(Stream, c))
      OBVIOUS
    <3>1. start[w + 1] \in Nat \ {0}
      BY <1>0 DEF Starts, InOrder
    <3> QED BY <1>0, <2>1, <3>1, BegunExtends
  <2> HIDE DEF c, k, w
  <2>5. CASE whole' = whole /\ failed
    BY <2>2, <2>3, <2>5 DEF Placed, k, w
  <2>6. CASE at + 1 < Size[next] /\ ~failed
    <3>1. whole' = whole /\ next' = next /\ at' = at + 1
      BY <1>1, <2>6 DEF Write
    <3> QED BY <2>2, <2>3, <2>4, <3>1 DEF Placed, k, w
  <2>7. CASE ~(at + 1 < Size[next]) /\ ~failed
    <3>1. next = w + 1 /\ k <= w
      BY <2>7 DEF InOrder, k, w
    <3>2. at + 1 = Size[next]
      BY <2>1, <2>7, SizeAssumption DEF StreamTypeOK
    <3>3. PICK longer \in Starts(k, w + 1) :
            /\ FramesLie(longer, k, w + 1, Append(Stream, c))
            /\ Begun(longer[w + 2], w + 2, 0, Append(Stream, c))
      <4>1. Begun(start[w + 1], w + 1, Size[w + 1], Append(Stream, c))
        BY <2>4, <2>7, <3>1, <3>2
      <4>2. Append(Stream, c) \in Seq(Cell)
        BY <1>0, <2>1
      <4> QED BY <1>0, <2>1, <2>3, <3>1, <4>1, <4>2, FramesGrow
    <3>4. next' = w + 2 /\ at' = 0 /\ Len(whole') = w + 1
      <4>1. next' = next + 1 /\ at' = 0 /\ whole' = Append(whole, next)
        BY <1>1, <2>7 DEF Write
      <4>2. whole \in Seq(Message)
        BY DEF StreamTypeOK
      <4> QED BY <1>0, <2>1, <3>1, <4>1, <4>2 DEF w
    <3>5. longer[w + 2] = longer[Len(whole') + 1]
      <4>1. Len(whole') + 1 = w + 2
        BY <1>0, <3>4
      <4> QED BY <4>1
    <3>6. Len(decoded') = k
      BY <2>2 DEF k
    <3> QED BY <2>2, <3>3, <3>4, <3>5, <3>6 DEF Placed
  <2> QED BY <1>1, <2>5, <2>6, <2>7 DEF Write
<1>2. CASE WriteFails
  <2>1. UNCHANGED <<decoded, whole>> /\ Stream' = Stream /\ failed'
    BY <1>2 DEF WriteFails, Stream
  <2> QED BY <2>1 DEF Placed
<1>3. CASE Recv
  <2>1. Stream' = Stream
    <3>1. PICK n \in 1 .. Len(sock) :
            /\ rbuf' = rbuf \o SubSeq(sock, 1, n)
            /\ sock' = SubSeq(sock, n + 1, Len(sock))
      BY <1>3 DEF Recv
    <3>2. (rbuf \o SubSeq(sock, 1, n)) \o SubSeq(sock, n + 1, Len(sock)) = rbuf \o sock
      BY <1>0, RecvKeepsTheStream
    <3> QED BY <3>1, <3>2 DEF Stream
  <2>2. UNCHANGED <<decoded, whole, failed, next, at>>
    BY <1>3 DEF Recv
  <2> QED BY <2>1, <2>2 DEF Placed
<1>4. CASE Take
  <2>1. PICK n \in Complete :
          LET s == SubSeq(rbuf, 1, n) IN
          /\ rbuf' = SubSeq(rbuf, n + 1, Len(rbuf))
          /\ \/ decoded' = Append(decoded, Content(s))
             \/ ~IsFrame(s) /\ UNCHANGED decoded
    BY <1>4 DEF Take
  <2>2. rbuf # <<>> /\ UNCHANGED <<whole, failed, next, at, sock>>
    BY <1>4 DEF Take
  <2>3. n \in 1 .. Len(rbuf)
    BY <2>2, ContentTyped
  <2>4. CASE k < w
    <3>1. /\ n = Size[k + 1] /\ IsFrame(SubSeq(rbuf, 1, n))
          /\ Content(SubSeq(rbuf, 1, n)) = k + 1
      BY <2>2, <2>4, TakesTheFirst
    <3>2. Len(decoded') = k + 1
      <4>1. decoded' = Append(decoded, k + 1)
        BY <2>1, <3>1
      <4> QED BY <4>1
    <3>3. Shifted(start, k, Stream, Stream', n)
      <4>1. start[k + 2] = 1 + n /\ n \in Nat \ {0}
        BY <1>0, <2>3, <2>4, <3>1 DEF FramesLie
      <4>2. rbuf' \in Seq(Cell) /\ Without(rbuf' \o sock, rbuf \o sock, n)
        BY <1>0, <2>1, <2>3, TakeShifts
      <4>3. Stream' = rbuf' \o sock
        BY <2>2 DEF Stream
      <4>4. Stream' \in Seq(Cell)
        BY <1>0, <4>2, <4>3
      <4> QED BY <4>1, <4>2, <4>3, <4>4 DEF Shifted, Stream
    <3> HIDE DEF k, w
    <3>4. PICK earlier \in Starts(k + 1, w) :
            /\ FramesLie(earlier, k + 1, w, Stream')
            /\ Begun(start[w + 1], next, at, Stream)
                 => Begun(earlier[w + 1], next, at, Stream')
      <4> DEFINE e == Earlier(start, k, w, n)
      <4>1. PICK rest : rest = Stream'
        OBVIOUS
      <4>2. Shifted(start, k, Stream, rest, n)
        BY <3>3, <4>1
      <4>3. /\ e \in Starts(k + 1, w)
            /\ FramesLie(e, k + 1, w, rest)
            /\ Begun(start[w + 1], next, at, Stream)
                 => Begun(e[w + 1], next, at, rest)
        BY <1>0, <2>4, <4>2, FramesShift
      <4> HIDE DEF e
      <4> QED BY <4>1, <4>3
    <3>5. Len(whole') = w
      BY <2>2 DEF w
    <3>6. ~failed' => Begun(earlier[w + 1], next', at', Stream')
      BY <1>0, <2>2, <3>4
    <3> QED BY <3>2, <3>4, <3>5, <3>6 DEF Placed
  <2>5. CASE k >= w
    <3>1. failed
      BY <1>0, <2>2, <2>5, NothingElseIsTaken DEF InOrder
    <3> DEFINE any == [m \in Len(decoded') + 1 .. Len(whole') + 1 |-> 1]
    <3>2. Len(decoded') \in Nat /\ Len(decoded') >= w /\ Len(whole') = w
      <4>1. decoded \in Seq(Message \cup {Forged})
        BY DEF StreamTypeOK
      <4>2. decoded' = decoded \/ Len(decoded') = k + 1
        BY <2>1, <4>1
      <4> QED BY <1>0, <2>2, <2>5, <4>2
    <3>3. any \in Starts(Len(decoded'), Len(whole'))
      BY DEF Starts
    <3>4. FramesLie(any, Len(decoded'), Len(whole'), Stream')
      <4> HIDE DEF k, w
      <4> QED BY <1>0, <3>2 DEF FramesLie
    <3> QED BY <2>2, <3>1, <3>3, <3>4 DEF Placed
  <2> QED BY <1>0, <2>4, <2>5
<1>5. CASE UNCHANGED <<next, at, rbuf, sock, decoded, whole, failed>>
  <2>1. Stream' = Stream
    BY <1>5 DEF Stream
  <2> QED BY <1>5, <2>1 DEF Placed
<1> QED
  BY <1>1, <1>2, <1>3, <1>4, <1>5 DEF StreamNext, Poll, Leave, TooLong, Eof, streamVars

LEMMA StreamInvStep == StreamInv /\ [StreamNext]_streamVars => StreamInv'
  BY TypeStep, OrderStep, PlacedStep DEF StreamInv

LEMMA StreamInvariance == StreamSpec => []StreamInv
  BY InitStreamInv, StreamInvStep, PTL DEF StreamSpec

\* The sender is within a frame, or between two of them, and the socket never
\* holds more than it has room for (send_frame writes what the socket takes and
\* no more; poll and drain_frames collect what was sent).
THEOREM StreamTypeCorrect == StreamSpec => []StreamTypeOK
<1>1. StreamInv => StreamTypeOK
  BY DEF StreamInv
<1> QED BY <1>1, StreamInvariance, PTL

-----------------------------------------------------------------------------
(* The refinement. *)

\* As long as something sent before a failure is to come, Sound is all that was
\* decoded; afterwards it is all that was sent.
LEMMA SoundIs ==
  ASSUME StreamInv
  PROVE  /\ Len(Sound) \in Nat /\ Len(Sound) <= Len(whole)
         /\ Len(decoded) <= Len(whole) => Sound = decoded
         /\ Len(decoded) >= Len(whole) => Sound = whole
<1>1. /\ Len(decoded) \in Nat /\ Len(whole) \in Nat
      /\ decoded \in Seq(Message \cup {Forged}) /\ whole \in Seq(Message)
  BY DEF StreamInv, StreamTypeOK
<1>2. CASE Len(decoded) <= Len(whole)
  <2>1. Sound = decoded
    BY <1>2 DEF Sound
  <2>2. ASSUME Len(decoded) >= Len(whole) PROVE decoded = whole
    <3>1. Len(decoded) = Len(whole)
      BY <1>1, <1>2, <2>2
    <3>2. \A i \in 1 .. Len(decoded) : decoded[i] = whole[i]
      BY <3>1 DEF StreamInv, InOrder
    <3>3. whole \in Seq(Message \cup {Forged})
      BY <1>1
    <3> QED BY <1>1, <3>1, <3>2, <3>3, SeqEqual
  <2> QED BY <1>1, <1>2, <2>1, <2>2
<1>3. CASE Len(decoded) > Len(whole)
  <2> DEFINE s == SubSeq(decoded, 1, Len(whole))
  <2>1. Sound = s
    BY <1>1, <1>3 DEF Sound
  <2>2. /\ s \in Seq(Message \cup {Forged}) /\ Len(s) = Len(whole)
        /\ \A i \in 1 .. Len(whole) : s[i] = decoded[i]
    <3>1. \A i \in 1 .. Len(whole) : decoded[i] \in Message \cup {Forged}
      BY <1>1, <1>3
    <3> QED BY <1>1, <1>3, <3>1, SubSeqProperties
  <2>3. s = whole
    <3>1. \A i \in 1 .. Len(whole) : s[i] = whole[i]
      BY <1>1, <1>3, <2>2 DEF StreamInv, InOrder
    <3>2. whole \in Seq(Message \cup {Forged})
      BY <1>1
    <3> HIDE DEF s
    <3> QED BY <2>2, <3>1, <3>2, SeqEqual
  <2> QED BY <1>1, <1>3, <2>1, <2>3
<1> QED BY <1>1, <1>2, <1>3

\* The end of a write that completes a frame sends a message, a take of a whole
\* frame receives one, and every other step is nothing to MessageFifo.
LEMMA FifoStep ==
  ASSUME StreamInv, [StreamNext]_streamVars
  PROVE  [Fifo!Next]_<<whole, Sound>>
<1>0. /\ Len(decoded) \in Nat /\ Len(whole) \in Nat
      /\ decoded \in Seq(Message \cup {Forged}) /\ whole \in Seq(Message)
  BY DEF StreamInv, StreamTypeOK
<1>1. CASE UNCHANGED <<whole, decoded>>
  BY <1>1 DEF Sound
<1>2. CASE Write
  <2>1. decoded' = decoded
    BY <1>2 DEF Write
  <2>2. CASE whole' = whole
    BY <1>1, <2>1, <2>2
  <2>3. CASE whole' = Append(whole, next) /\ ~failed
    <3>1. Len(decoded) <= Len(whole) /\ Len(whole') = Len(whole) + 1
      BY <1>0, <1>2, <2>3 DEF StreamInv, InOrder
    <3>2. Sound' = Sound
      BY <1>0, <2>1, <3>1 DEF Sound
    <3>3. next \in Message
      BY <1>2 DEF Write
    <3> QED BY <2>3, <3>2, <3>3 DEF Fifo!Next, Fifo!Send
  <2> QED BY <1>2, <2>2, <2>3 DEF Write
<1>3. CASE Take
  <2>1. PICK n \in Complete :
          LET s == SubSeq(rbuf, 1, n) IN
          \/ decoded' = Append(decoded, Content(s))
          \/ ~IsFrame(s) /\ UNCHANGED decoded
    BY <1>3 DEF Take
  <2>2. whole' = whole /\ rbuf # <<>>
    BY <1>3 DEF Take
  <2>3. CASE Len(decoded) < Len(whole)
    <3>1. decoded' = Append(decoded, Len(decoded) + 1)
      BY <2>1, <2>2, <2>3, TakesTheFirst DEF StreamInv
    <3>2. whole[Len(decoded) + 1] = Len(decoded) + 1
      BY <1>0, <2>3 DEF StreamInv, InOrder
    <3>3. Sound = decoded /\ Len(Sound) < Len(whole)
      BY <1>0, <2>3 DEF Sound
    <3>4. Sound' = decoded'
      <4>1. Len(decoded') <= Len(whole')
        BY <1>0, <2>2, <2>3, <3>1
      <4> QED BY <4>1 DEF Sound
    <3> QED BY <2>2, <3>1, <3>2, <3>3, <3>4 DEF Fifo!Next, Fifo!Receive
  <2>4. CASE Len(decoded) >= Len(whole)
    <3>1. Sound = whole
      BY <2>4, SoundIs
    <3>2. StreamInv'
      BY StreamInvStep
    <3>3. Len(decoded') >= Len(whole')
      BY <1>0, <2>1, <2>2, <2>4
    <3>4. Sound' = whole'
      <4>1. (Len(decoded) >= Len(whole) => Sound = whole)'
        BY <3>2, SoundIs, PTL
      <4> QED BY <3>3, <4>1
    <3> QED BY <2>2, <3>1, <3>4
  <2> QED BY <1>0, <2>3, <2>4
<1> QED
  BY <1>1, <1>2, <1>3
  DEF StreamNext, Poll, WriteFails, Leave, Recv, TooLong, Eof, streamVars

\* Messages arrive whole, each once and in the order of sending, wherever their
\* frames are cut and whatever is sent after a failure (send_frame against
\* take_frame: SessionStream implements MessageFifo).
THEOREM StreamIsFifo == StreamSpec => IsFifo
<1>1. StreamInit => Fifo!Init
  BY DEF StreamInit, Fifo!Init, Sound
<1>2. StreamInv /\ [StreamNext]_streamVars => [Fifo!Next]_<<whole, Sound>>
  BY FifoStep
<1> QED BY <1>1, <1>2, StreamInvariance, PTL DEF StreamSpec, IsFifo, Fifo!Spec
=============================================================================
