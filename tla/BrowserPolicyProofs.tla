------------------------ MODULE BrowserPolicyProofs -------------------------
(***************************************************************************)
(* The safety of BrowserPolicy for any set of peers and policies, any      *)
(* clocks and any number of restarts.                                      *)
(*                                                                         *)
(* KeptUnlessCut needs to know where the document is when the worker dies  *)
(* (Saved): in the file, unless the file is being rewritten.               *)
(* ReportedIsDurable rests on Unsaved: before a document set here has been *)
(* written, the worker has the write in front of it, or has died and knows *)
(* nothing of the document; a peer's document is never this node's own     *)
(* (Foreign).  DecidedAsPublished rests on Ahead: whoever changes what is  *)
(* enforced still has to publish it before the next request is read.       *)
(***************************************************************************)
EXTENDS BrowserPolicy, TLAPS

Saved ==
  durable /\ ~cut => /\ up => own = issued
                     /\ ~At("persisted") => local = issued

Foreign ==
  /\ issued = Baseline \/ issued.by = Me
  /\ \A m \in Peer : Whole(mirror[m]) => mirror[m] = Baseline \/ mirror[m].by = m

Unknown == best # issued /\ converged # issued
Unsaved ==
  issued # Baseline /\ ~durable /\ ~cut =>
    \/ (At("persist") \/ At("persisted")) /\ (own = issued \/ Unknown)
    \/ own # issued /\ Unknown

QuietOps == {"persist", "persisted", "mirror", "mirrored", "exit"}
Ahead ==
  up => \/ todo # <<>> /\ todo[Len(todo)] = "publish"
        \/ /\ \A i \in 1 .. Len(todo) : todo[i] \in QuietOps
           /\ published => status = converged

IInv == TypeOK /\ Saved /\ Foreign /\ Unsaved /\ Ahead

-----------------------------------------------------------------------------
(* Lists and documents. *)

LEMMA ListProps ==
  ASSUME NEW S, NEW s \in Seq(S), s # <<>>, NEW x \in S
  PROVE  /\ Len(s) \in Nat \ {0} /\ Head(s) = s[1] /\ Head(s) \in S
         /\ Tail(s) \in Seq(S) /\ Len(Tail(s)) = Len(s) - 1
         /\ \A i \in 1 .. Len(s) - 1 : Tail(s)[i] = s[i + 1]
         /\ <<x>> \o Tail(s) \in Seq(S) /\ <<x>> \o Tail(s) # <<>>
         /\ Head(<<x>> \o Tail(s)) = x
         /\ Len(<<x>> \o Tail(s)) = Len(s)
         /\ (<<x>> \o Tail(s))[1] = x
         /\ \A i \in 2 .. Len(s) : (<<x>> \o Tail(s))[i] = s[i]
<1> DEFINE t == Tail(s)
<1>1. /\ Len(s) \in Nat \ {0} /\ Head(s) = s[1] /\ Head(s) \in S
      /\ t \in Seq(S) /\ Len(t) = Len(s) - 1
      /\ \A i \in 1 .. Len(s) - 1 : t[i] = s[i + 1]
  OBVIOUS
<1> HIDE DEF t
<1>2. /\ <<x>> \o t \in Seq(S) /\ Len(<<x>> \o t) = Len(t) + 1
      /\ (<<x>> \o t)[1] = x
      /\ \A i \in 2 .. Len(t) + 1 : (<<x>> \o t)[i] = t[i - 1]
  BY <1>1
<1>3. \A i \in 2 .. Len(s) : (<<x>> \o t)[i] = s[i]
  BY <1>1, <1>2
<1>4. <<x>> \o t # <<>> /\ Head(<<x>> \o t) = x
  BY <1>1, <1>2
<1> QED BY <1>1, <1>2, <1>3, <1>4 DEF t

\* A document is neither of the two states of a file without one.
LEMMA DocIsWhole == ASSUME NEW d \in Doc PROVE Whole(d)
<1>1. DOMAIN d = {"policy", "ms", "by"}
  BY DEF Doc
<1>2. DOMAIN Absent = {"file"} /\ DOMAIN Torn = {"file"}
  BY DEF Absent, Torn
<1> QED BY <1>1, <1>2 DEF Whole

LEMMA NewerIsOne ==
  ASSUME NEW d, NEW file
  PROVE  NewerOf(d, file) = d \/ (Whole(file) /\ NewerOf(d, file) = file)
<1>1. CASE Whole(file) /\ file.ms > d.ms
  BY <1>1 DEF NewerOf
<1>2. CASE ~(Whole(file) /\ file.ms > d.ms)
  BY <1>2 DEF NewerOf
<1> QED BY <1>1, <1>2

LEMMA Documents ==
  /\ Baseline \in Doc
  /\ \A p \in Policy, ms \in 1 .. MaxMs : [policy |-> p, ms |-> ms, by |-> Me] \in Doc
  /\ \A m \in Peer : PeerDocs(m) \subseteq Doc
<1>1. 0 \in 0 .. MaxMs /\ 1 .. MaxMs \subseteq 0 .. MaxMs
  BY BoundAssumption
<1>2. Baseline \in Doc
  BY <1>1 DEF Doc, Baseline
<1> QED BY <1>1, <1>2 DEF Doc, PeerDocs

LEMMA Concatenated ==
  ASSUME NEW S, NEW s \in Seq(S), NEW t \in Seq(S), t # <<>>
  PROVE  /\ s \o t \in Seq(S) /\ s \o t # <<>>
         /\ (s \o t)[Len(s \o t)] = t[Len(t)]
         /\ s # <<>> => Head(s \o t) = Head(s)
<1>1. /\ s \o t \in Seq(S) /\ Len(s \o t) = Len(s) + Len(t)
      /\ Len(s) \in Nat /\ Len(t) \in Nat \ {0}
      /\ \A i \in 1 .. Len(s) + Len(t) :
           (s \o t)[i] = IF i <= Len(s) THEN s[i] ELSE t[i - Len(s)]
  OBVIOUS
<1>2. s # <<>> => Len(s) > 0
  OBVIOUS
<1> QED BY <1>1, <1>2

LEMMA Lists ==
  /\ Sync \in Seq(Ops) /\ Sync # <<>> /\ Head(Sync) = "persist"
  /\ <<"publish">> \in Seq(Ops) /\ <<>> \in Seq(Ops)
  /\ Flush \in Seq(Ops) /\ Flush # <<>>
  /\ Head(Flush) = "persist" /\ Flush[Len(Flush)] = "publish"
  /\ <<"persist", "mirror", "exit">> \in Seq(Ops)
<1>1. /\ Sync \in Seq(Ops) /\ Sync # <<>> /\ Head(Sync) = "persist"
      /\ <<"publish">> \in Seq(Ops) /\ <<"publish">> # <<>>
      /\ <<"publish">>[Len(<<"publish">>)] = "publish"
      /\ <<>> \in Seq(Ops)
      /\ <<"persist", "mirror", "exit">> \in Seq(Ops)
  BY DEF Sync, Ops
<1> DEFINE q == <<"publish">>
<1>2. Flush = Sync \o q
  BY DEF Flush
<1> HIDE DEF q
<1>3. q \in Seq(Ops) /\ q # <<>> /\ q[Len(q)] = "publish"
  BY <1>1 DEF q
<1>4. /\ Flush \in Seq(Ops) /\ Flush # <<>>
      /\ Head(Flush) = "persist" /\ Flush[Len(Flush)] = "publish"
  BY <1>1, <1>2, <1>3, Concatenated
<1> QED BY <1>1, <1>4

\* the lists of the two drains
LEMMA DrainLists ==
  ASSUME NEW s \in {<<>>, <<"publish">>, Sync \o <<"publish">>}
  PROVE  /\ s \o Flush \in Seq(Ops) /\ s \o Flush # <<>>
         /\ (s \o Flush)[Len(s \o Flush)] = "publish"
         /\ s = Sync \o <<"publish">> => Head(s \o Flush) = "persist"
<1>1. Flush = Sync \o <<"publish">>
  BY DEF Flush
<1>2. s \in Seq(Ops)
  BY <1>1, Lists
<1> QED BY <1>1, <1>2, Lists, Concatenated

-----------------------------------------------------------------------------
(* Types. *)

\* The list after an item of it is done, or replaced by another operation.
LEMMA ListSteps ==
  ASSUME TypeOK, NEW op \in Ops, At(op), NEW x \in Ops
  PROVE  /\ todo # <<>> /\ todo \in Seq(Ops) /\ Len(todo) \in Nat \ {0} /\ todo[1] = op
         /\ Tail(todo) \in Seq(Ops) /\ <<x>> \o Tail(todo) \in Seq(Ops)
         /\ Len(Tail(todo)) = Len(todo) - 1
         /\ \A i \in 1 .. Len(todo) - 1 : Tail(todo)[i] = todo[i + 1]
         /\ <<x>> \o Tail(todo) # <<>> /\ Head(<<x>> \o Tail(todo)) = x
         /\ Len(<<x>> \o Tail(todo)) = Len(todo)
         /\ (<<x>> \o Tail(todo))[1] = x
         /\ \A i \in 2 .. Len(todo) : (<<x>> \o Tail(todo))[i] = todo[i]
<1>1. todo \in Seq(Ops) /\ todo # <<>> /\ Head(todo) = op
  BY DEF TypeOK, At
<1> QED BY <1>1, ListProps

LEMMA Typed == TypeOK /\ [Next]_vars => TypeOK'
<1> SUFFICES ASSUME TypeOK, [Next]_vars PROVE TypeOK'
  OBVIOUS
<1> USE BoundAssumption, Documents DEF TypeOK, memory, bounds, past
<1>1. CASE Start
  <2>1. Load \in Doc
    BY DEF Load, Whole
  <2> QED BY <1>1, <2>1, Lists DEF Start
<1>2. CASE DrainLaunches
  <2>1. todo' \in Seq(Ops)
    BY <1>2, DrainLists DEF DrainLaunches
  <2>2. lastLaunch' \in {"none", "granted", "refused"}
    BY <1>2 DEF DrainLaunches, Decides
  <2>3. asked' = {} /\ UNCHANGED <<up, own, best, left, converged, local, shareUp, mirror,
                                   manifest, status, published, bounds, past>>
    BY <1>2 DEF DrainLaunches
  <2> QED BY <2>1, <2>2, <2>3
<1>3. CASE DrainSet
  <2>1. todo' \in Seq(Ops)
    BY <1>3, DrainLists, Lists, Concatenated DEF DrainSet
  <2>2. lastLaunch' \in {"none", "granted", "refused"}
    BY <1>3 DEF DrainSet, Decides
  <2>3. own' \in Doc /\ issued' = own'
    BY <1>3 DEF DrainSet
  <2>4. /\ asked' = {} /\ durable' = FALSE /\ cut' = FALSE
        /\ UNCHANGED <<up, best, left, converged, local, shareUp, mirror, manifest,
                       status, published, bounds>>
    BY <1>3 DEF DrainSet
  <2> QED BY <2>1, <2>2, <2>3, <2>4
<1>4. CASE Shutdown
  <2>1. ends' \in 0 .. MaxEnds
    BY <1>4 DEF Shutdown
  <2> QED BY <1>4, <2>1, Lists DEF Shutdown
<1>5. CASE Exit
  BY <1>5, Lists DEF Exit, Forget
<1>6. CASE Crash
  <2>1. ends' \in 0 .. MaxEnds /\ cut' \in BOOLEAN
    BY <1>6 DEF Crash, At
  <2> QED BY <1>6, <2>1, Lists DEF Crash, Forget
<1>7. CASE Persist
  BY <1>7, ListSteps DEF Persist, Done, Then, Ops
<1>8. CASE Persisted
  BY <1>8, ListSteps DEF Persisted, Done, Ops
<1>9. CASE Mirror
  BY <1>9, ListSteps DEF Mirror, Done, Then, Ops
<1>10. CASE Mirrored
  BY <1>10, ListSteps DEF Mirrored, MirroredDoc, Done, Ops
<1>11. CASE Rebuild
  BY <1>11, ListSteps DEF Rebuild, Then, Ops
<1>12. CASE ReadPeer
  <2>1. best' \in Doc
    BY <1>12 DEF ReadPeer, NewerOf, Whole
  <2> QED BY <1>12, <2>1 DEF ReadPeer
<1>13. CASE Rebuilt
  BY <1>13, ListSteps DEF Rebuilt, Done, Ops
<1>14. CASE SyncBrowserData
  <2>1. manifest' \in BOOLEAN
    <3>1. SyncsData \in BOOLEAN
      BY PolicyAssumption DEF SyncsData, RunsOn, Doc
    <3> QED BY <1>14, <3>1 DEF SyncBrowserData
  <2> QED BY <1>14, <2>1, ListSteps DEF SyncBrowserData, Done, Ops
<1>15. CASE PublishState
  BY <1>15, ListSteps DEF PublishState, Done, Ops
<1>16. CASE ShareComesOrGoes
  BY <1>16 DEF ShareComesOrGoes
<1>17. ASSUME NEW q \in Policy, Set(q) PROVE TypeOK'
  BY <1>17 DEF Set
<1>18. ASSUME NEW m \in Peer, SyncMirror(m) \/ SyncRest(m) PROVE TypeOK'
  BY <1>18 DEF SyncMirror, SyncRest
<1>19. CASE UNCHANGED vars
  BY <1>19 DEF vars
<1> QED
  BY <1>1, <1>2, <1>3, <1>4, <1>5, <1>6, <1>7, <1>8, <1>9, <1>10, <1>11, <1>12, <1>13,
     <1>14, <1>15, <1>16, <1>17, <1>18, <1>19 DEF Next, Work

-----------------------------------------------------------------------------
(* The steps of the invariant. *)

\* What most of the worker's steps leave to the invariant.
Elsewhere == {"mirror", "mirrored", "rebuild", "read", "data", "publish", "exit"}

LEMMA SavedStep == TypeOK /\ Saved /\ [Next]_vars => Saved'
<1> SUFFICES ASSUME TypeOK, Saved, [Next]_vars PROVE Saved'
  OBVIOUS
<1> USE DEF memory, bounds, past
<1>1. CASE Start
  <2>1. issued \in Doc /\ ~At("persisted")
    BY <1>1 DEF Start, At, TypeOK
  <2>2. Whole(issued)
    BY <2>1, DocIsWhole
  <2> QED BY <1>1, <2>1, <2>2 DEF Start, Saved, Load
<1>2. CASE DrainLaunches
  <2>1. ~At("persisted") /\ UNCHANGED <<up, own, local, issued, durable, cut>>
    BY <1>2 DEF DrainLaunches, At
  <2> QED BY <2>1 DEF Saved
<1>3. CASE DrainSet
  BY <1>3 DEF DrainSet, Saved
<1>4. CASE Shutdown
  <2>1. ~At("persisted") /\ UNCHANGED <<up, own, local, issued, durable, cut>>
    BY <1>4 DEF Shutdown, At
  <2> QED BY <2>1 DEF Saved
<1>5. CASE Exit
  <2>1. ~At("persisted") /\ up' = FALSE /\ UNCHANGED <<local, issued, durable, cut>>
    BY <1>5 DEF Exit, Forget, At
  <2> QED BY <2>1 DEF Saved
<1>6. CASE Crash
  <2>1. /\ up' = FALSE /\ UNCHANGED <<local, issued, durable>>
        /\ cut' = (cut \/ At("persisted"))
    BY <1>6 DEF Crash, Forget
  <2> QED BY <2>1 DEF Saved
<1>7. CASE Persist
  <2>1. At("persist") /\ ~At("persisted") /\ UNCHANGED <<up, own, issued, durable>>
    BY <1>7 DEF Persist, At
  <2>2. CASE cut' = TRUE
    BY <2>2 DEF Saved
  <2>3. CASE Then("persisted") /\ UNCHANGED cut
    <3>1. Head(todo') = "persisted" /\ todo' # <<>>
      BY <2>1, <2>3, ListSteps DEF Then, Ops
    <3>2. At("persisted")'
      BY <2>1, <3>1 DEF At
    <3> QED BY <2>1, <2>3, <3>2 DEF Saved
  <2> QED BY <1>7, <2>2, <2>3 DEF Persist
<1>8. CASE Persisted
  <2>1. up /\ UNCHANGED <<up, own, issued>>
    BY <1>8 DEF Persisted, At
  <2>2. CASE local' = own /\ own = issued
    BY <2>1, <2>2 DEF Saved
  <2>3. CASE own # issued /\ UNCHANGED <<durable, cut>>
    BY <2>1, <2>3 DEF Saved
  <2>4. CASE cut' = TRUE
    BY <2>4 DEF Saved
  <2> QED BY <1>8, <2>2, <2>3, <2>4 DEF Persisted
<1>9. CASE Mirror \/ Mirrored \/ Rebuild \/ ReadPeer \/ Rebuilt \/ SyncBrowserData \/ PublishState
  <2>1. ~At("persisted") /\ UNCHANGED <<up, own, local, issued, durable, cut>>
    <3>1. \E op \in Elsewhere : At(op)
      BY <1>9 DEF Mirror, Mirrored, Rebuild, Rebuilt, SyncBrowserData, PublishState,
                  Elsewhere, ReadPeer
    <3>2. ~At("persisted")
      BY <3>1 DEF At, Elsewhere
    <3>3. UNCHANGED <<up, own, local, issued, durable, cut>>
      BY <1>9 DEF Mirror, Mirrored, Rebuild, ReadPeer, Rebuilt, SyncBrowserData, PublishState
    <3> QED BY <3>2, <3>3
  <2> QED BY <2>1 DEF Saved
<1>10. CASE \/ ShareComesOrGoes \/ UNCHANGED vars \/ \E q \in Policy : Set(q)
            \/ \E m \in Peer : SyncMirror(m) \/ SyncRest(m)
  <2>1. UNCHANGED <<up, todo, own, local, issued, durable, cut>>
    BY <1>10 DEF ShareComesOrGoes, vars, Set, SyncMirror, SyncRest
  <2> QED BY <2>1 DEF Saved, At
<1> QED
  BY <1>1, <1>2, <1>3, <1>4, <1>5, <1>6, <1>7, <1>8, <1>9, <1>10 DEF Next, Work

LEMMA ForeignStep == TypeOK /\ Foreign /\ [Next]_vars => Foreign'
<1> SUFFICES ASSUME TypeOK, Foreign, [Next]_vars PROVE Foreign'
  OBVIOUS
<1> USE NodeAssumption DEF memory, bounds, past
<1>1. CASE DrainSet
  BY <1>1 DEF DrainSet, Foreign
<1>2. CASE Mirror \/ Mirrored
  BY <1>2 DEF Mirror, Mirrored, Foreign, TypeOK
<1>3. ASSUME NEW m \in Peer, SyncMirror(m) \/ SyncRest(m) PROVE Foreign'
  <2>1. PICK d \in PeerDocs(m) \cup {Torn} : mirror' = [mirror EXCEPT ![m] = d]
    BY <1>3 DEF SyncMirror, SyncRest
  <2>2. Whole(d) => d = Baseline \/ d.by = m
    BY DEF PeerDocs, Whole
  <2>3. issued' = issued
    BY <1>3 DEF SyncMirror, SyncRest
  <2> QED BY <2>1, <2>2, <2>3 DEF Foreign, TypeOK
<1>4. CASE UNCHANGED <<mirror, issued>>
  BY <1>4 DEF Foreign
<1> QED
  <2>1. \/ UNCHANGED <<mirror, issued>> \/ DrainSet \/ Mirror \/ Mirrored
        \/ \E m \in Peer : SyncMirror(m) \/ SyncRest(m)
    BY DEF Next, Work, vars, Start, DrainLaunches, Shutdown, Exit, Crash, Persist, Persisted,
           Rebuild, ReadPeer, Rebuilt, SyncBrowserData, PublishState, ShareComesOrGoes, Set
  <2> QED BY <1>1, <1>2, <1>3, <1>4, <2>1

LEMMA UnsavedStep == TypeOK /\ Foreign /\ Unsaved /\ [Next]_vars => Unsaved'
<1> SUFFICES ASSUME TypeOK, Foreign, Unsaved, [Next]_vars,
                    issued' # Baseline, ~durable', ~cut'
             PROVE  \/ (At("persist")' \/ At("persisted")') /\ (own' = issued' \/ Unknown')
                    \/ own' # issued' /\ Unknown'
  BY DEF Unsaved
<1> USE DEF memory, bounds, past
<1>1. CASE Start
  <2>1. ~At("persist") /\ ~At("persisted") /\ UNCHANGED <<best, converged, issued, durable, cut>>
    BY <1>1 DEF Start, At
  <2>2. At("persist")'
    BY <1>1, Lists DEF Start, At
  <2> QED BY <2>1, <2>2 DEF Unsaved, Unknown
<1>2. CASE DrainSet
  <2>1. own' = issued' /\ up' /\ todo' = Sync \o <<"publish">> \o Flush
    BY <1>2 DEF DrainSet
  <2>2. todo' = (Sync \o <<"publish">>) \o Flush
    BY <2>1, Lists
  <2>3. At("persist")'
    BY <2>1, <2>2, DrainLists DEF At
  <2> QED BY <2>1, <2>3
<1>3. CASE Exit \/ Crash
  <2>1. /\ own' = Baseline /\ best' = Baseline /\ converged' = Baseline
    BY <1>3 DEF Exit, Crash, Forget
  <2> QED BY <2>1 DEF Unknown
<1>4. CASE Persist
  <2>1. At("persist") /\ Then("persisted") /\ UNCHANGED <<up, own, best, converged, issued, durable, cut>>
    BY <1>4 DEF Persist
  <2>2. Head(todo') = "persisted" /\ todo' # <<>>
    BY <2>1, ListSteps DEF Then, Ops
  <2>3. At("persisted")'
    BY <2>1, <2>2 DEF At
  <2> QED BY <2>1, <2>3 DEF Unsaved, Unknown
<1>5. CASE Persisted
  <2>1. own # issued /\ UNCHANGED <<own, best, converged, issued, durable, cut>>
    BY <1>5 DEF Persisted
  <2> QED BY <2>1 DEF Unsaved, Unknown
<1>6. CASE \/ DrainLaunches \/ Shutdown \/ Mirror \/ Mirrored \/ SyncBrowserData
           \/ PublishState
  <2>1. ~At("persist") /\ ~At("persisted")
    BY <1>6 DEF DrainLaunches, Shutdown, Mirror, Mirrored, SyncBrowserData, PublishState, At
  <2>2. UNCHANGED <<own, best, converged, issued, durable, cut>>
    BY <1>6 DEF DrainLaunches, Shutdown, Mirror, Mirrored, SyncBrowserData, PublishState
  <2> QED BY <2>1, <2>2 DEF Unsaved, Unknown
<1>7. CASE Rebuild \/ ReadPeer \/ Rebuilt
  <2>1. ~At("persist") /\ ~At("persisted")
    BY <1>7 DEF Rebuild, ReadPeer, Rebuilt, At
  <2>2. /\ own # issued /\ best # issued /\ converged # issued
        /\ UNCHANGED <<own, issued>> /\ converged' \in {converged, best}
    BY <1>7, <2>1 DEF Rebuild, ReadPeer, Rebuilt, Unsaved, Unknown
  <2>3. best' # issued
    <3>1. CASE ReadPeer
      <4>1. PICK m \in left : best' = IF shareUp THEN NewerOf(best, mirror[m]) ELSE best
        BY <3>1 DEF ReadPeer
      <4>2. best' = best \/ (Whole(mirror[m]) /\ best' = mirror[m])
        <5>1. best' = best \/ best' = NewerOf(best, mirror[m])
          BY <4>1
        <5> QED BY <5>1, NewerIsOne
      <4>3. m \in Peer /\ m # Me
        BY NodeAssumption DEF TypeOK
      <4> QED BY <2>2, <4>2, <4>3 DEF Foreign
    <3>2. CASE Rebuild \/ Rebuilt
      BY <2>2, <3>2 DEF Rebuild, Rebuilt
    <3> QED BY <1>7, <3>1, <3>2
  <2> QED BY <2>2, <2>3 DEF Unknown
<1>8. CASE \/ ShareComesOrGoes \/ UNCHANGED vars \/ \E q \in Policy : Set(q)
           \/ \E m \in Peer : SyncMirror(m) \/ SyncRest(m)
  <2>1. UNCHANGED <<up, todo, own, best, converged, issued, durable, cut>>
    BY <1>8 DEF ShareComesOrGoes, vars, Set, SyncMirror, SyncRest
  <2> QED BY <2>1 DEF Unsaved, Unknown, At
<1> QED BY <1>1, <1>2, <1>3, <1>4, <1>5, <1>6, <1>7, <1>8 DEF Next, Work

LEMMA AheadStep == TypeOK /\ Ahead /\ [Next]_vars => Ahead'
<1> SUFFICES ASSUME TypeOK, Ahead, [Next]_vars PROVE Ahead'
  OBVIOUS
<1> USE DEF memory, bounds, past
<1>1. CASE Start \/ DrainLaunches \/ DrainSet
  <2>1. todo' # <<>> /\ todo'[Len(todo')] = "publish"
    BY <1>1, Lists, DrainLists, Concatenated DEF Start, DrainLaunches, DrainSet
  <2> QED BY <2>1 DEF Ahead
<1>2. CASE Shutdown
  <2>1. todo = <<>> /\ up /\ UNCHANGED <<status, published, converged>>
    BY <1>2 DEF Shutdown
  <2>2. published => status = converged
    BY <2>1 DEF Ahead
  <2>3. \A i \in 1 .. Len(todo') : todo'[i] \in QuietOps
    BY <1>2 DEF Shutdown, QuietOps
  <2> QED BY <2>1, <2>2, <2>3 DEF Ahead
<1>3. CASE Exit \/ Crash
  BY <1>3 DEF Exit, Crash, Forget, Ahead
\* An item is done or replaced, and nothing published needs to be.
<1>4. ASSUME NEW op \in Ops, At(op), op # "publish", NEW x \in QuietOps \cup {"read"},
             todo' = Tail(todo) \/ todo' = <<x>> \o Tail(todo),
             UNCHANGED <<status, published>>, up',
             op \in QuietOps => x \in QuietOps /\ converged' = converged
      PROVE  Ahead'
  <2>1. QuietOps \cup {"read"} \subseteq Ops
    BY DEF QuietOps, Ops
  <2>2. CASE todo[Len(todo)] = "publish"
    <3>1. Len(todo) # 1 /\ Len(todo) \in Nat \ {0} /\ todo \in Seq(Ops)
      BY <1>4, <2>1, <2>2, ListSteps
    <3>2. CASE todo' = Tail(todo)
      <4>0. Len(todo) - 1 \in 1 .. Len(todo) - 1 /\ (Len(todo) - 1) + 1 = Len(todo)
        <5> DEFINE n == Len(todo)
        <5>1. n \in Nat \ {0} /\ n # 1
          BY <3>1
        <5> HIDE DEF n
        <5>2. n - 1 \in 1 .. n - 1 /\ (n - 1) + 1 = n
          BY <5>1
        <5> QED BY <5>2 DEF n
      <4>1. Len(todo') = Len(todo) - 1 /\ todo'[Len(todo) - 1] = todo[Len(todo)]
        <5>1. /\ Len(Tail(todo)) = Len(todo) - 1
              /\ \A i \in 1 .. Len(todo) - 1 : Tail(todo)[i] = todo[i + 1]
          BY <1>4, <2>1, ListSteps
        <5> QED BY <3>2, <4>0, <5>1
      <4>2. todo' # <<>>
        BY <3>1, <4>1
      <4> QED BY <2>2, <3>1, <4>1, <4>2 DEF Ahead
    <3>3. CASE todo' = <<x>> \o Tail(todo)
      <4>1. Len(todo') = Len(todo) /\ todo'[Len(todo)] = todo[Len(todo)] /\ todo' # <<>>
        BY <1>4, <2>1, <3>1, <3>3, ListSteps
      <4> QED BY <2>2, <4>1 DEF Ahead
    <3> QED BY <1>4, <3>2, <3>3
  <2>3. CASE todo[Len(todo)] # "publish"
    <3>1. /\ up /\ \A i \in 1 .. Len(todo) : todo[i] \in QuietOps
          /\ published => status = converged
      BY <1>4, <2>3 DEF Ahead, At
    <3>2. op \in QuietOps /\ Len(todo) \in Nat \ {0}
      BY <1>4, <2>1, <3>1, ListSteps
    <3>3. \A i \in 1 .. Len(todo') : todo'[i] \in QuietOps
      <4>1. CASE todo' = Tail(todo)
        BY <1>4, <2>1, <3>1, <3>2, <4>1, ListSteps
      <4>2. CASE todo' = <<x>> \o Tail(todo)
        BY <1>4, <2>1, <3>1, <3>2, <4>2, ListSteps
      <4> QED BY <1>4, <4>1, <4>2
    <3> QED BY <1>4, <3>1, <3>2, <3>3 DEF Ahead
  <2> QED BY <2>2, <2>3
<1>5. CASE Persist \/ Persisted \/ Mirror \/ Mirrored
  <2>1. \E op \in {"persist", "persisted", "mirror", "mirrored"} : At(op)
    BY <1>5 DEF Persist, Persisted, Mirror, Mirrored
  <2>2. PICK x \in {"persisted", "mirrored"} : todo' = Tail(todo) \/ todo' = <<x>> \o Tail(todo)
    BY <1>5 DEF Persist, Persisted, Mirror, Mirrored, Done, Then
  <2>3. UNCHANGED <<status, published, converged>> /\ up'
    BY <1>5 DEF Persist, Persisted, Mirror, Mirrored, At
  <2> QED BY <1>4, <2>1, <2>2, <2>3 DEF QuietOps, Ops
<1>6. CASE Rebuild \/ Rebuilt \/ SyncBrowserData
  <2>1. \E op \in {"rebuild", "read", "data"} : At(op)
    BY <1>6 DEF Rebuild, Rebuilt, SyncBrowserData
  <2>2. todo' = Tail(todo) \/ todo' = <<"read">> \o Tail(todo)
    BY <1>6 DEF Rebuild, Rebuilt, SyncBrowserData, Done, Then
  <2>3. UNCHANGED <<status, published>> /\ up'
    BY <1>6 DEF Rebuild, Rebuilt, SyncBrowserData, At
  <2> QED BY <1>4, <2>1, <2>2, <2>3 DEF QuietOps, Ops
<1>7. CASE PublishState
  <2>1. /\ At("publish") /\ todo' = Tail(todo) /\ up /\ UNCHANGED <<up, converged>>
        /\ published' => status' = converged
    BY <1>7 DEF PublishState, Done, At
  <2>2. /\ todo \in Seq(Ops) /\ Len(todo) \in Nat \ {0} /\ todo[1] = "publish"
        /\ todo' \in Seq(Ops) /\ Len(todo') = Len(todo) - 1
        /\ \A i \in 1 .. Len(todo) - 1 : todo'[i] = todo[i + 1]
    BY <2>1, ListSteps DEF Ops
  <2>3. todo[Len(todo)] = "publish"
    <3>1. ~(\A i \in 1 .. Len(todo) : todo[i] \in QuietOps)
      BY <2>2 DEF QuietOps
    <3> QED BY <2>1, <3>1 DEF Ahead
  <2>4. CASE Len(todo) = 1
    BY <2>1, <2>2, <2>4 DEF Ahead
  <2>5. CASE Len(todo) # 1
    <3>1. todo' # <<>> /\ todo'[Len(todo')] = "publish"
      BY <2>2, <2>3, <2>5
    <3> QED BY <3>1 DEF Ahead
  <2> QED BY <2>4, <2>5
<1>8. CASE \/ ReadPeer \/ ShareComesOrGoes \/ UNCHANGED vars \/ \E q \in Policy : Set(q)
           \/ \E m \in Peer : SyncMirror(m) \/ SyncRest(m)
  <2>1. UNCHANGED <<up, todo, status, published, converged>>
    BY <1>8 DEF ReadPeer, ShareComesOrGoes, vars, Set, SyncMirror, SyncRest
  <2> QED BY <2>1 DEF Ahead
<1> QED BY <1>1, <1>2, <1>3, <1>5, <1>6, <1>7, <1>8 DEF Next, Work

-----------------------------------------------------------------------------
(* The theorems. *)

LEMMA Initial == Init => IInv
<1> SUFFICES ASSUME Init PROVE IInv
  OBVIOUS
<1>1. TypeOK
  <2>1. /\ 0 \in 0 .. MaxSets /\ 0 \in 0 .. MaxNews /\ 0 \in 0 .. MaxEnds
        /\ Baseline \in Doc /\ <<>> \in Seq(Ops)
    <3>1. MaxSets \in Nat /\ MaxNews \in Nat /\ MaxEnds \in Nat
      BY BoundAssumption
    <3>2. Baseline \in Doc
      BY Documents
    <3> QED BY <3>1, <3>2
  <2>2. mirror \in [Peer \cup {Me} -> Doc \cup {Absent, Torn}]
    BY DEF Init
  <2> QED BY <2>1, <2>2 DEF Init, TypeOK
<1>2. \A m \in Peer : ~Whole(mirror[m])
  BY DEF Init, Whole
<1>3. Saved /\ Foreign /\ Unsaved /\ Ahead
  BY <1>2 DEF Init, Saved, Foreign, Unsaved, Ahead
<1> QED BY <1>1, <1>3 DEF IInv

LEMMA Invariance == Spec => []IInv
<1>1. IInv /\ [Next]_vars => IInv'
  BY Typed, SavedStep, ForeignStep, UnsavedStep, AheadStep DEF IInv
<1> QED BY Initial, <1>1, PTL DEF Spec

\* Every variable keeps its type.
THEOREM TypeCorrect == Spec => []TypeOK
<1>1. IInv => TypeOK
  BY DEF IInv
<1> QED BY <1>1, Invariance, PTL

\* A document that was written completely survives every end of the worker,
\* until a later rewriting of its file breaks off (persist_own_local).
THEOREM WrittenIsKept == Spec => []KeptUnlessCut
<1>1. IInv => KeptUnlessCut
  BY DEF IInv, Saved, KeptUnlessCut, Kept, At
<1> QED BY <1>1, Invariance, PTL

\* The state published on the bus is about a document the node has tried to
\* write, and launches are decided by the policy it told last.
THEOREM PublishedIsHonest == Spec => StateHonest
<1>1. IInv /\ [Next]_vars =>
        (status' # status /\ status' = issued /\ issued # Baseline => durable \/ cut)
  <2> SUFFICES ASSUME IInv, [Next]_vars, status' # status, status' = issued,
                      issued # Baseline
               PROVE  durable \/ cut
    OBVIOUS
  <2>1. At("publish") /\ converged = issued
    BY DEF Next, Work, vars, Start, DrainLaunches, DrainSet, Shutdown, Exit, Crash, Persist,
           Persisted, Mirror, Mirrored, Rebuild, ReadPeer, Rebuilt, SyncBrowserData,
           PublishState, ShareComesOrGoes, Set, SyncMirror, SyncRest
  <2>2. ~At("persist") /\ ~At("persisted")
    BY <2>1 DEF At
  <2> QED BY <2>1, <2>2 DEF IInv, Unsaved, Unknown
<1>2. IInv /\ [Next]_vars =>
        (up' /\ lastLaunch' # lastLaunch /\ published
           => (lastLaunch' = "granted") = RunsOn(status.policy))
  <2> SUFFICES ASSUME IInv, [Next]_vars, up', lastLaunch' # lastLaunch, published
               PROVE  (lastLaunch' = "granted") = RunsOn(status.policy)
    OBVIOUS
  <2>1. DrainLaunches \/ DrainSet
    BY DEF Next, Work, vars, Start, Shutdown, Exit, Crash, Forget, Persist,
           Persisted, Mirror, Mirrored, Rebuild, ReadPeer, Rebuilt, SyncBrowserData,
           PublishState, ShareComesOrGoes, Set, SyncMirror, SyncRest, memory
  <2>2. up /\ todo = <<>>
    BY <2>1 DEF DrainLaunches, DrainSet
  <2>3. status = converged
    BY <2>2 DEF IInv, Ahead
  <2>4. lastLaunch' = IF MayLaunch THEN "granted" ELSE "refused"
    BY <2>1 DEF DrainLaunches, DrainSet, Decides
  <2>5. RunsOn(converged.policy) \in BOOLEAN
    BY PolicyAssumption DEF IInv, TypeOK, RunsOn, Doc
  <2> QED BY <2>3, <2>4, <2>5 DEF MayLaunch
<1> QED BY <1>1, <1>2, Invariance, PTL DEF Spec, StateHonest, ReportedIsDurable, DecidedAsPublished
=============================================================================
