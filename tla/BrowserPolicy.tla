---------------------------- MODULE BrowserPolicy ---------------------------
(***************************************************************************)
(* The browser policy worker of one node (browser_policy.rs) among its     *)
(* peers.  The node has a policy document of its own, kept in a local file *)
(* and mirrored to the shared root, where Syncthing brings the mirrors of  *)
(* the peers; the worker enforces the newest document it sees.             *)
(*                                                                         *)
(* Both files are rewritten in place at every tick (std::fs::write         *)
(* truncates first), so half a file can be what the worker's next start    *)
(* finds, and what Syncthing copies: a peer's mirror may be torn.          *)
(*                                                                         *)
(* A policy says on which roles the browser may run; its other fields      *)
(* travel with the document and decide nothing here.                       *)
(***************************************************************************)
EXTENDS Naturals, Sequences

CONSTANTS Me, Peer,      \* this node, the others
          role,          \* this node's
          Policy,        \* policies an operator sets
          Permissive,    \* the one nobody set
          MaxMs,         \* bound: clocks read 1 .. MaxMs, and may be set back
          MaxSets,       \* bound: how often a policy is set here
          MaxNews,       \* bound: how often a peer's mirror changes
          MaxEnds        \* bound: how often the worker ends

ASSUME PolicyAssumption ==
  /\ \A p \in Policy \cup {Permissive} :
       p.default \in BOOLEAN /\ p.roles \in [DOMAIN p.roles -> BOOLEAN]
  /\ Permissive.default /\ DOMAIN Permissive.roles = {}
ASSUME BoundAssumption == {MaxMs, MaxSets, MaxNews, MaxEnds} \subseteq Nat
ASSUME NodeAssumption == Me \notin Peer

None == "nobody"
Doc == [policy : Policy \cup {Permissive}, ms : 0 .. MaxMs,
        by : Peer \cup {Me, None}]
Baseline == [policy |-> Permissive, ms |-> 0, by |-> None]
Absent   == [file |-> "absent"]
Torn     == [file |-> "torn"]
Whole(file) == file \notin {Absent, Torn}

VARIABLES
  asked,     \* policies in the requests past the cursor of the set topic
  up,        \* the worker runs
  todo,      \* what its run loop still has to do, the next item first
  own,       \* the document authored here
  best, left,\* of the rebuild under way: the newest so far, peers to read
  converged, \* the document it enforces
  lastLaunch,\* how the last launch request of this life was decided
  local,     \* the file with its own document
  shareUp,   \* the shared root exists
  mirror,    \* the mirrors in it, by author
  manifest,  \* its shared manifest of browser data exists
  status,    \* the document of the state published last
  published, \* the last state could be published
  sets, news, ends,  \* how often each happened
  issued,    \* the document authored last                      (history)
  durable,   \* it has been written completely                  (history)
  cut        \* writing it failed, or broke off                 (history)

memory == <<own, best, left, converged, lastLaunch>>
bounds == <<sets, news, ends>>
past   == <<issued, durable, cut>>
vars == <<asked, up, todo, memory, local, shareUp, mirror, manifest, status,
          published, bounds, past>>

\* enforced_for, as far as the permission to run goes
RunsOn(p) == IF role \in DOMAIN p.roles THEN p.roles[role] ELSE p.default

-----------------------------------------------------------------------------
Ops == {"persist", "persisted", "mirror", "mirrored", "rebuild", "read", "data",
        "publish", "exit"}

\* Mutant: a set is written with the next flush only.
SyncRebuilding == <<"rebuild", "data">>

Sync == <<"persist", "mirror", "rebuild", "data">>

\* at the start, and at the end of every tick
Flush == Sync \o <<"publish">>

At(op) == up /\ todo # <<>> /\ Head(todo) = op
Done == todo' = Tail(todo)
Then(op) == todo' = <<op>> \o Tail(todo)

TypeOK ==
  /\ asked \subseteq Policy
  /\ up \in BOOLEAN /\ shareUp \in BOOLEAN
  /\ todo \in Seq(Ops)
  /\ own \in Doc /\ best \in Doc /\ converged \in Doc /\ left \subseteq Peer
  /\ lastLaunch \in {"none", "granted", "refused"}
  /\ local \in Doc \cup {Absent, Torn}
  /\ mirror \in [Peer \cup {Me} -> Doc \cup {Absent, Torn}]
  /\ manifest \in BOOLEAN
  /\ status \in Doc /\ published \in BOOLEAN
  /\ sets \in 0 .. MaxSets /\ news \in 0 .. MaxNews /\ ends \in 0 .. MaxEnds
  /\ issued \in Doc /\ durable \in BOOLEAN /\ cut \in BOOLEAN

Init ==
  /\ asked = {}
  /\ up = FALSE
  /\ todo = <<>>
  /\ own = Baseline /\ best = Baseline /\ converged = Baseline /\ left = {}
  /\ lastLaunch = "none"
  /\ local = Absent
  /\ shareUp = FALSE
  /\ mirror = [n \in Peer \cup {Me} |-> Absent]
  /\ manifest = FALSE
  /\ status = Baseline /\ published = FALSE
  /\ sets = 0 /\ news = 0 /\ ends = 0
  /\ issued = Baseline /\ durable = FALSE /\ cut = FALSE

-----------------------------------------------------------------------------
(* The operator, the peers and the shared root.                            *)

\* a signed request on action/browser-policy/set
Set(p) ==
  /\ sets < MaxSets
  /\ sets' = sets + 1
  /\ asked' = asked \cup {p}
  /\ UNCHANGED <<up, todo, memory, local, shareUp, mirror, manifest, status,
                 published, news, ends, past>>

PeerDocs(m) == [policy : Policy, ms : 1 .. MaxMs, by : {m}] \cup {Baseline}

\* Syncthing brings a document of a peer, or half of one.  A peer authors with
\* a clock of its own, and may lose its document as this node may.
SyncMirror(m) ==
  /\ news < MaxNews
  /\ news' = news + 1
  /\ mirror' \in {[mirror EXCEPT ![m] = d] : d \in PeerDocs(m) \cup {Torn}}
  /\ UNCHANGED <<asked, up, todo, memory, local, shareUp, manifest, status,
                 published, sets, ends, past>>

\* ... and the rest of it.
SyncRest(m) ==
  /\ mirror[m] = Torn
  /\ mirror' \in {[mirror EXCEPT ![m] = d] : d \in PeerDocs(m)}
  /\ UNCHANGED <<asked, up, todo, memory, local, shareUp, manifest, status,
                 published, bounds, past>>

ShareComesOrGoes ==
  /\ shareUp' = ~shareUp
  /\ UNCHANGED <<asked, up, todo, memory, local, mirror, manifest, status,
                 published, bounds, past>>

-----------------------------------------------------------------------------
(* The run loop.                                                           *)

\* Mutant: the worker flushes before it has loaded its document.
LoadNothing == Baseline

\* Mutant: whatever the file holds is taken for a document.
LoadBlind == local

\* load: without a file that can be read the worker begins with the baseline
Load == IF Whole(local) THEN local ELSE Baseline

\* load, seed_cursors (which skips whatever waits on the topics), flush
Start ==
  /\ ~up
  /\ up' = TRUE
  /\ own' = Load
  /\ asked' = {}
  /\ todo' = Flush
  /\ UNCHANGED <<best, left, converged, lastLaunch, local, shareUp, mirror,
                 manifest, status, published, bounds, past>>

\* enforce, for a launch: by the document of the last rebuild
MayLaunch == RunsOn(converged.policy)

Decides(launched) ==
  lastLaunch' = IF ~launched THEN lastLaunch
                ELSE IF MayLaunch THEN "granted" ELSE "refused"

\* drain_requests without a valid set: requests whose token does not hold are
\* refused, and launches are decided and published.
DrainLaunches ==
  /\ up /\ todo = <<>>
  /\ asked' = {}
  /\ \E launched \in BOOLEAN :
       /\ Decides(launched)
       /\ todo' = (IF launched THEN <<"publish">> ELSE <<>>) \o Flush
  /\ UNCHANGED <<up, own, best, left, converged, local, shareUp, mirror, manifest,
                 status, published, bounds, past>>

\* drain_requests with one: of several the last is the document, and a launch
\* of the same batch is decided by the policy enforced so far.
DrainSet ==
  /\ up /\ todo = <<>>
  /\ asked' = {}
  /\ \E p \in asked, ms \in 1 .. MaxMs :
       own' = [policy |-> p, ms |-> ms, by |-> Me]
  /\ issued' = own' /\ durable' = FALSE /\ cut' = FALSE
  /\ \E launched \in BOOLEAN : Decides(launched)
  /\ todo' = Sync \o <<"publish">> \o Flush
  /\ UNCHANGED <<up, best, left, converged, local, shareUp, mirror, manifest,
                 status, published, bounds>>

Shutdown ==
  /\ up /\ todo = <<>>
  /\ ends < MaxEnds
  /\ ends' = ends + 1
  /\ todo' = <<"persist", "mirror", "exit">>
  /\ UNCHANGED <<asked, up, memory, local, shareUp, mirror, manifest, status,
                 published, sets, news, past>>

\* A worker starts with none of what the last one knew.
Forget ==
  /\ up' = FALSE
  /\ todo' = <<>>
  /\ own' = Baseline /\ best' = Baseline /\ converged' = Baseline /\ left' = {}
  /\ lastLaunch' = "none"

Exit ==
  /\ At("exit")
  /\ Forget
  /\ UNCHANGED <<asked, local, shareUp, mirror, manifest, status, published,
                 bounds, past>>

\* The daemon dies between two steps, or in the middle of a write.
Crash ==
  /\ up
  /\ ends < MaxEnds
  /\ ends' = ends + 1
  /\ Forget
  /\ cut' = (cut \/ At("persisted"))
  /\ UNCHANGED <<asked, local, shareUp, mirror, manifest, status, published, sets,
                 news, issued, durable>>

-----------------------------------------------------------------------------
(* persist_own_local and mirror_doc_to_share: truncate, then write.        *)

Persist ==
  /\ At("persist")
  /\ \/ local' = Torn /\ Then("persisted") /\ UNCHANGED cut
     \/ cut' = TRUE /\ Done /\ UNCHANGED local   \* the file cannot be opened
  /\ UNCHANGED <<asked, up, memory, shareUp, mirror, manifest, status, published,
                 bounds, issued, durable>>

Persisted ==
  /\ At("persisted")
  /\ \/ /\ local' = own
        /\ IF own = issued THEN durable' = TRUE /\ cut' = FALSE
                           ELSE UNCHANGED <<durable, cut>>
     \/ cut' = TRUE /\ UNCHANGED <<local, durable>>   \* the disk is full
  /\ Done
  /\ UNCHANGED <<asked, up, memory, shareUp, mirror, manifest, status, published,
                 bounds, issued>>

Mirror ==
  /\ At("mirror")
  /\ IF shareUp THEN mirror' = [mirror EXCEPT ![Me] = Torn] /\ Then("mirrored")
                ELSE Done /\ UNCHANGED mirror
  /\ UNCHANGED <<asked, up, memory, local, shareUp, manifest, status, published,
                 bounds, past>>

MirroredDoc == own

Mirrored ==
  /\ At("mirrored")
  /\ mirror' = [mirror EXCEPT ![Me] = IF shareUp THEN MirroredDoc ELSE @]
  /\ Done
  /\ UNCHANGED <<asked, up, memory, local, shareUp, manifest, status, published,
                 bounds, past>>

-----------------------------------------------------------------------------
(* rebuild_converged, sync_browser_data, publish_state.                    *)

Rebuild ==
  /\ At("rebuild")
  /\ best' = own
  /\ left' = IF shareUp THEN Peer ELSE {}
  /\ Then("read")
  /\ UNCHANGED <<asked, up, own, converged, lastLaunch, local, shareUp,
                 mirror, manifest, status, published, bounds, past>>

\* Mutant: whichever document is read last wins.
NewerOfLast(d, file) == IF Whole(file) THEN file ELSE d

\* a document is replaced by a strictly newer one
NewerOf(d, file) == IF Whole(file) /\ file.ms > d.ms THEN file ELSE d

\* the peers in the order of the directory; one that vanished is skipped
ReadPeer ==
  /\ At("read")
  /\ \E m \in left :
       /\ left' = left \ {m}
       /\ best' = IF shareUp THEN NewerOf(best, mirror[m]) ELSE best
  /\ UNCHANGED <<asked, up, todo, own, converged, lastLaunch, local,
                 shareUp, mirror, manifest, status, published, bounds, past>>

Rebuilt ==
  /\ At("read") /\ left = {}
  /\ converged' = best
  /\ Done
  /\ UNCHANGED <<asked, up, own, best, left, lastLaunch, local, shareUp,
                 mirror, manifest, status, published, bounds, past>>

SyncsData == RunsOn(converged.policy)

\* the manifest is written, or removed, where the share is
SyncBrowserData ==
  /\ At("data")
  /\ manifest' = IF shareUp THEN SyncsData ELSE manifest
  /\ Done
  /\ UNCHANGED <<asked, up, memory, local, shareUp, mirror, status, published,
                 bounds, past>>

\* a failure to write to the bus is only logged
PublishState ==
  /\ At("publish")
  /\ \/ status' = converged /\ published' = TRUE
     \/ published' = FALSE /\ UNCHANGED status
  /\ Done
  /\ UNCHANGED <<asked, up, memory, local, shareUp, mirror, manifest, bounds, past>>

-----------------------------------------------------------------------------
Work ==
  \/ DrainLaunches \/ DrainSet
  \/ Persist \/ Persisted \/ Mirror \/ Mirrored
  \/ Rebuild \/ ReadPeer \/ Rebuilt \/ SyncBrowserData \/ PublishState
  \/ Exit

Next ==
  \/ Start \/ Work
  \/ Shutdown \/ Crash
  \/ ShareComesOrGoes
  \/ \E p \in Policy : Set(p)
  \/ \E m \in Peer : SyncMirror(m) \/ SyncRest(m)

Spec == Init /\ [][Next]_vars

\* The daemon is started again and its loop goes on; what Syncthing began to
\* bring it brings in the end.
FairSpec ==
  /\ Spec
  /\ WF_vars(Start) /\ WF_vars(Work)
  /\ \A m \in Peer : WF_vars(SyncRest(m))

-----------------------------------------------------------------------------
(* Properties.                                                             *)

Kept == IF up THEN own = issued ELSE local = issued

\* A document that was written completely is the node's document from then
\* on, through every end of the worker; except if a later rewriting of the
\* same file broke off.
KeptUnlessCut == durable /\ ~cut => Kept

\* The fleet is told that a document set here is the policy only after the
\* node has tried to make it durable.
ReportedIsDurable ==
  [][status' # status /\ status' = issued /\ issued # Baseline
       => durable \/ cut]_vars

\* A launch is decided by the policy the fleet was told last, not by one that
\* is being set, written or read at the moment.
DecidedAsPublished ==
  [][up' /\ lastLaunch' # lastLaunch /\ published
       => (lastLaunch' = "granted") = RunsOn(status.policy)]_vars

\* What the node publishes of its policy is what it does.
StateHonest == ReportedIsDurable /\ DecidedAsPublished

Visible == {own} \cup {mirror[m] : m \in {m \in Peer : Whole(mirror[m])}}

\* Once the shared root stays, the node comes to enforce a newest one of its
\* own document and the peers', and keeps to it: neither clocks set back nor
\* torn files nor restarts leave it behind.  Its peers can then read its own
\* document, except while it is rewritten, and its browser data is shared
\* exactly if the browser may run.
Converges ==
  <>[]shareUp =>
    /\ <>[](converged \in Visible /\ \A d \in Visible : converged.ms >= d.ms)
    /\ <>[](mirror[Me] \in {own, Torn})
    /\ <>[](manifest = RunsOn(converged.policy))
=============================================================================
