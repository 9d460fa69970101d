---------------------------- MODULE SessionSync -----------------------------
(***************************************************************************)
(* Session snapshots and tabs sent to other devices, end to end: the       *)
(* browser shell publishes signed requests on two bus topics, the worker   *)
(* of browser_session_sync.rs applies them to files, Syncthing carries the *)
(* shared root to the other nodes, and the receiving node's shell          *)
(* (web/mod.rs) opens the tabs.                                            *)
(*                                                                         *)
(* The worker keeps its cursors in memory, so a restart reads both topics  *)
(* from their beginning; that nothing is applied twice rests on the ledger *)
(* of spent nonces (browser_policy.rs, action_auth) and on the expiry of   *)
(* the tokens.  The receiving shell has a ledger of its own, files that    *)
(* mark the tabs it has taken.  Daemon and shell may die between any two   *)
(* of their steps.                                                         *)
(*                                                                         *)
(* A request is a number; the requests of one topic are published in this  *)
(* order.  Instead of a clock each request has an age: its token is early, *)
(* at the edge (now is the very millisecond of its expiry) or over.        *)
(***************************************************************************)
EXTENDS Naturals, Sequences

CONSTANTS Snap,        \* snapshots the shell of this host may publish
          NodeTab,     \* tabs it may send to the other node
          PhoneTab,    \* tabs it may send to a phone
          Workload,    \* bound: sets of requests, of which it publishes one
          MaxEnds      \* bound: how often the worker ends, and the other shell

ASSUME RequestAssumption ==
  /\ Snap \cup NodeTab \cup PhoneTab \subseteq Nat \ {0}
  /\ Snap \cap (NodeTab \cup PhoneTab) = {}
  /\ NodeTab \cap PhoneTab = {}
ASSUME BoundAssumption == MaxEnds \in Nat

Tab     == NodeTab \cup PhoneTab
Request == Snap \cup Tab
None    == 0
Age     == {"early", "edge", "over"}

VARIABLES
  published,  \* requests on the bus
  age,        \* of each request's token
  ledger,     \* requests whose nonce has a file in spent-nonces
  up,         \* the worker runs
  todo,       \* what its run loop still has to do, the next item first
  seen,       \* its cursors: the last request read of each topic
  last,       \* last_host is set
  pending,    \* pending_local
  told,       \* last_body of the status publisher
  local,      \* the snapshot in latest.json of the local root
  outbox,     \* handoffs in the local outbox
  shareUp,    \* the shared root is mounted and writable
  share,      \* the snapshot in latest.json of the shared root
  shareOut,   \* handoffs in this node's replica of the shared outbox
  inbox,      \* handoffs in the other node's replica of it
  unlinked,   \* deleted in the inbox, the deletion not yet replicated
  status,     \* the latest record of the status topic
  calls,      \* how often a handoff went out to its phone
  shell,      \* the other shell: the tab it is taking, what it remembers
  marks,      \* its tombstones on disk
  applied,    \* how often a request was applied                  (history)
  dropped,    \* requests lost to a crash or a failing local disk (history)
  unmarked,   \* handoffs whose tombstone could not be written    (history)
  opened,     \* how often the other shell opened the tab         (history)
  ends        \* how often the worker or the other shell has ended

bus    == <<published, age>>
memory == <<todo, seen, last, pending, told>>
files  == <<local, outbox, share, shareOut>>
other  == <<inbox, unlinked, shell, marks, unmarked, opened>>
vars == <<bus, ledger, up, memory, files, shareUp, other, status, calls, applied,
          dropped, ends>>

-----------------------------------------------------------------------------
(* The worker's work: a list of items, each an operation with the requests *)
(* of its batch.                                                           *)

Ops == {"list snaps", "list tabs", "snaps", "tabs", "save", "store", "call",
        "mirror", "scan", "send", "unlink", "tell", "exit"}
Item == [op : Ops, batch : SUBSET Request]
Do(op) == [op |-> op, batch |-> {}]
On(op, S) == [op |-> op, batch |-> S]

\* Mutant: the outbox is mirrored when something is stored, and only then.
FlushWithoutScan == <<Do("mirror"), Do("tell")>>

\* mirror_pending, mirror_send_tab_outbox, publish_status: at the start of
\* run, at the end of every tick and before run returns
Flush == <<Do("mirror"), Do("scan"), Do("tell")>>

At(op) == up /\ todo # <<>> /\ Head(todo).op = op
Batch  == Head(todo).batch
First(S) == CHOOSE r \in S : \A q \in S : r <= q
Cur    == First(Batch)

\* the item in front is done, or replaced by others
Done == todo' = Tail(todo)
Then(items) == todo' = items \o Tail(todo)

Unread(S, cursor) == {r \in published \cap S : r > cursor}

Status == [syncing |-> shareUp /\ ~pending, pending |-> pending, host |-> last,
           body |-> TRUE]
Silent == [syncing |-> FALSE, pending |-> FALSE, host |-> FALSE, body |-> FALSE]
Statuses == [syncing : BOOLEAN, pending : BOOLEAN, host : BOOLEAN,
             body : BOOLEAN]
IdleShell == [taking |-> None, step |-> "idle", knows |-> {}, queue |-> {}]

TypeOK ==
  /\ published \subseteq Request
  /\ age \in [Request -> Age]
  /\ ledger \subseteq Request
  /\ up \in BOOLEAN
  /\ todo \in Seq(Item)
  /\ seen \in [{"snap", "tab"} -> Request \cup {None}]
  /\ last \in BOOLEAN /\ pending \in BOOLEAN /\ shareUp \in BOOLEAN
  /\ told \in Statuses /\ status \in Statuses
  /\ local \in Snap \cup {None} /\ share \in Snap \cup {None}
  /\ outbox \subseteq Tab /\ shareOut \subseteq Tab
  /\ inbox \subseteq NodeTab /\ unlinked \subseteq NodeTab
  /\ calls \in [PhoneTab -> Nat]
  /\ shell \in [taking : NodeTab \cup {None},
                step : {"idle", "mark", "unlink"},
                knows : SUBSET NodeTab, queue : SUBSET NodeTab]
  /\ marks \subseteq NodeTab /\ unmarked \subseteq NodeTab
  /\ applied \in [Request -> Nat]
  /\ dropped \subseteq Request
  /\ opened \in [NodeTab -> Nat]
  /\ ends \in [{"worker", "shell"} -> 0 .. MaxEnds]

Init ==
  /\ published = {}
  /\ age = [r \in Request |-> "early"]
  /\ ledger = {}
  /\ up = FALSE
  /\ todo = <<>>
  /\ seen = [k \in {"snap", "tab"} |-> None]
  /\ last = FALSE /\ pending = FALSE /\ shareUp = FALSE
  /\ told = Silent /\ status = Silent
  /\ local = None /\ share = None
  /\ outbox = {} /\ shareOut = {} /\ inbox = {} /\ unlinked = {}
  /\ calls = [t \in PhoneTab |-> 0]
  /\ shell = IdleShell
  /\ marks = {} /\ unmarked = {}
  /\ applied = [r \in Request |-> 0]
  /\ dropped = {}
  /\ opened = [t \in NodeTab |-> 0]
  /\ ends = [p \in {"worker", "shell"} |-> 0]

-----------------------------------------------------------------------------
(* The publishing shell, time, and the shared root.                        *)

\* publish_authorized_browser_mutation: a fresh token each time
Publish(r) ==
  /\ r \notin published
  /\ \E w \in Workload : published \cup {r} \subseteq w
  /\ \A q \in published : (r \in Snap) = (q \in Snap) => q < r
  /\ published' = published \cup {r}
  /\ UNCHANGED <<age, ledger, up, memory, files, shareUp, other, status, calls,
                 applied, dropped, ends>>

Grow(r) ==
  /\ r \in published
  /\ age[r] # "over"
  /\ age' = [age EXCEPT ![r] = IF @ = "early" THEN "edge" ELSE "over"]
  /\ UNCHANGED <<published, ledger, up, memory, files, shareUp, other, status,
                 calls, applied, dropped, ends>>

MountOrUnmount ==
  /\ shareUp' = ~shareUp
  /\ UNCHANGED <<bus, ledger, up, memory, files, other, status, calls, applied,
                 dropped, ends>>

\* Syncthing carries a new or rewritten file over ...
SyncCopy(t) ==
  /\ t \in shareOut \ (inbox \cup unlinked)
  /\ inbox' = inbox \cup {t}
  /\ UNCHANGED <<bus, ledger, up, memory, files, shareUp, unlinked, shell, marks,
                 unmarked, opened, status, calls, applied, dropped, ends>>

\* ... and a deletion back, unless the file was written again meanwhile.
SyncDelete(t) ==
  /\ t \in unlinked
  /\ unlinked' = unlinked \ {t}
  /\ shareOut' = shareOut \ {t}
  /\ UNCHANGED <<bus, ledger, up, memory, local, outbox, share, shareUp, inbox,
                 shell, marks, unmarked, opened, status, calls, applied, dropped,
                 ends>>

-----------------------------------------------------------------------------
(* The worker's run loop.                                                  *)

Start ==
  /\ ~up
  /\ up' = TRUE
  /\ todo' = Flush
  /\ UNCHANGED <<bus, ledger, seen, last, pending, told, files, shareUp, other,
                 status, calls, applied, dropped, ends>>

Tick ==
  /\ up /\ todo = <<>>
  /\ todo' = <<Do("list snaps"), Do("list tabs")>> \o Flush
  /\ UNCHANGED <<bus, ledger, up, seen, last, pending, told, files, shareUp,
                 other, status, calls, applied, dropped, ends>>

Ends(p) == ends[p] < MaxEnds /\ ends' = [ends EXCEPT ![p] = @ + 1]

\* shutdown.wait() wins the select
Shutdown ==
  /\ up /\ todo = <<>>
  /\ Ends("worker")
  /\ todo' = Flush \o <<Do("exit")>>
  /\ UNCHANGED <<bus, ledger, up, seen, last, pending, told, files, shareUp,
                 other, status, calls, applied, dropped>>

\* What the next worker begins with (new): neither cursors nor last_host.
Forget ==
  /\ up' = FALSE
  /\ todo' = <<>>
  /\ seen' = [k \in {"snap", "tab"} |-> None]
  /\ last' = FALSE /\ pending' = FALSE
  /\ told' = Silent

Exit ==
  /\ At("exit")
  /\ Forget
  /\ UNCHANGED <<bus, ledger, files, shareUp, other, status, calls, applied,
                 dropped, ends>>

\* Death of the daemon between two steps: a request that was claimed and
\* not yet written is gone.
Crash ==
  /\ up
  /\ Ends("worker")
  /\ Forget
  /\ dropped' = dropped \cup
       (IF At("save") \/ At("store") THEN Batch ELSE {})
  /\ UNCHANGED <<bus, ledger, files, shareUp, other, status, calls, applied>>

-----------------------------------------------------------------------------
(* drain_snapshots and drain_send_tabs.                                    *)

Unfinished(op) == IF Batch = {Cur} THEN <<>> ELSE <<On(op, Batch \ {Cur})>>

List(listOp, S, topic, op) ==
  /\ At(listOp)
  /\ LET new == Unread(S, seen[topic]) IN
       IF new = {} THEN Done ELSE Then(<<On(op, new)>>)
  /\ UNCHANGED <<bus, ledger, up, seen, last, pending, told, files, shareUp,
                 other, status, calls, applied, dropped, ends>>

ListSnaps == List("list snaps", Snap, "snap", "snaps")

ListTabs == List("list tabs", Tab, "tab", "tabs")

\* Mutant: a nonce is swept in the very millisecond in which it is still valid.
SweptEarly == {q \in ledger : age[q] = "early"}

\* claim_nonce first sweeps the nonces that have expired: expiry < now
Swept == {q \in ledger : age[q] # "over"}

\* Mutant: a nonce that is in the ledger already is accepted.
ValidTwice(r) == age[r] # "over"

\* authorize: the token is not over, and its nonce not spent
Valid(r) == age[r] # "over" /\ r \notin Swept

\* One message: the cursor moves first, the nonce is spent next.
Claim(topic, op, effect) ==
  /\ At(op)
  /\ seen' = [seen EXCEPT ![topic] = Cur]
  /\ Valid(Cur)
  /\ ledger' = Swept \cup {Cur}
  /\ Then(<<On(effect, {Cur})>> \o Unfinished(op))
  /\ UNCHANGED <<bus, up, last, pending, told, files, shareUp, other, status,
                 calls, applied, dropped, ends>>

\* The token is over, or spent (then the sweep has been made).
Refuse(topic, op) ==
  /\ At(op)
  /\ seen' = [seen EXCEPT ![topic] = Cur]
  /\ ~Valid(Cur)
  /\ ledger' = IF age[Cur] = "over" THEN ledger ELSE Swept
  /\ Then(Unfinished(op))
  /\ UNCHANGED <<bus, up, last, pending, told, files, shareUp, other, status,
                 calls, applied, dropped, ends>>

\* The nonce cannot be written, or not be synced: the message is refused.
ClaimFails(topic, op) ==
  /\ At(op)
  /\ seen' = [seen EXCEPT ![topic] = Cur]
  /\ Valid(Cur)
  /\ ledger' \in {Swept, Swept \cup {Cur}}
  /\ dropped' = dropped \cup {Cur}
  /\ Then(Unfinished(op))
  /\ UNCHANGED <<bus, up, last, pending, told, files, shareUp, other, status,
                 calls, applied, ends>>

\* Mutant: snapshots are authorized for the verb of handoffs, so all are refused.
ReadSnapWrongVerb ==
  /\ At("snaps")
  /\ seen' = [seen EXCEPT !["snap"] = Cur]
  /\ Then(Unfinished("snaps"))
  /\ UNCHANGED <<bus, ledger, up, last, pending, told, files, shareUp, other,
                 status, calls, applied, dropped, ends>>

ReadSnap ==
  \/ Claim("snap", "snaps", "save")
  \/ Refuse("snap", "snaps")
  \/ ClaimFails("snap", "snaps")
ReadTab ==
  \/ Claim("tab", "tabs", "store")
  \/ Refuse("tab", "tabs")
  \/ ClaimFails("tab", "tabs")

\* apply_snapshot: write_atomic into the local root, then mirror and report
Save ==
  /\ At("save")
  /\ local' = Cur
  /\ last' = TRUE /\ pending' = TRUE
  /\ applied' = [applied EXCEPT ![Cur] = @ + 1]
  /\ Then(<<Do("mirror"), Do("tell")>>)
  /\ UNCHANGED <<bus, ledger, up, seen, told, outbox, share, shareOut, shareUp,
                 other, status, calls, dropped, ends>>

\* apply_send_tab: into the local outbox, on to the phone, then the mirror
Store ==
  /\ At("store")
  /\ outbox' = outbox \cup Batch
  /\ applied' = [applied EXCEPT ![Cur] = @ + 1]
  /\ Then((IF Cur \in PhoneTab THEN <<On("call", Batch)>> ELSE <<>>)
          \o <<Do("scan")>>)
  /\ UNCHANGED <<bus, ledger, up, seen, last, pending, told, local, share,
                 shareOut, shareUp, other, status, calls, dropped, ends>>

\* the local write fails: the message is given up
WriteFails ==
  /\ At("save") \/ At("store")
  /\ dropped' = dropped \cup Batch
  /\ Done
  /\ UNCHANGED <<bus, ledger, up, seen, last, pending, told, files, shareUp,
                 other, status, calls, applied, ends>>

\* publish_phone_send_tab; a failure to sign or to publish is only logged
Call ==
  /\ At("call")
  /\ \E n \in {0, 1} : calls' = [calls EXCEPT ![Cur] = @ + n]
  /\ Done
  /\ UNCHANGED <<bus, ledger, up, seen, last, pending, told, files, shareUp,
                 other, status, applied, dropped, ends>>

-----------------------------------------------------------------------------
(* The mirrors and the status.                                             *)

\* mirror_pending.  Without last_host there is nothing to mirror.
Mirror ==
  /\ At("mirror")
  /\ IF shareUp /\ last
       THEN share' = local /\ pending' = FALSE
       ELSE UNCHANGED <<share, pending>>
  /\ Done
  /\ UNCHANGED <<bus, ledger, up, seen, last, told, local, outbox, shareOut,
                 shareUp, other, status, calls, applied, dropped, ends>>

\* mirror_send_tab_outbox reads the outbox once ...
Scan ==
  /\ At("scan")
  /\ IF shareUp /\ outbox # {} THEN Then(<<On("send", outbox)>>) ELSE Done
  /\ UNCHANGED <<bus, ledger, up, seen, last, pending, told, files, shareUp,
                 other, status, calls, applied, dropped, ends>>

\* Mutant: the local copy goes although the share did not take it.
SendForgetting ==
  /\ At("send")
  /\ IF shareUp
       THEN /\ shareOut' = shareOut \cup {Cur}
            /\ unlinked' = unlinked \ {Cur}
       ELSE UNCHANGED <<shareOut, unlinked>>
  /\ Then(<<On("unlink", {Cur})>> \o Unfinished("send"))
  /\ UNCHANGED <<bus, ledger, up, seen, last, pending, told, local, outbox,
                 share, shareUp, inbox, shell, marks, unmarked, opened, status,
                 calls, applied, dropped, ends>>

\* ... and takes each handoff to the share; one that cannot be written stays.
Send ==
  /\ At("send")
  /\ IF shareUp
       THEN /\ shareOut' = shareOut \cup {Cur}
            /\ unlinked' = unlinked \ {Cur}
            /\ Then(<<On("unlink", {Cur})>> \o Unfinished("send"))
       ELSE /\ Then(Unfinished("send"))
            /\ UNCHANGED <<shareOut, unlinked>>
  /\ UNCHANGED <<bus, ledger, up, seen, last, pending, told, local, outbox,
                 share, shareUp, inbox, shell, marks, unmarked, opened, status,
                 calls, applied, dropped, ends>>

Unlink ==
  /\ At("unlink")
  /\ outbox' = outbox \ Batch
  /\ Done
  /\ UNCHANGED <<bus, ledger, up, seen, last, pending, told, local, share,
                 shareOut, shareUp, other, status, calls, applied, dropped, ends>>

\* publish_status through RetainedStatusPublisher: an unchanged body is not
\* written again, one that could not be written is tried again.
Tell ==
  /\ At("tell")
  /\ \/ told # Status /\ status' = Status /\ told' = Status
     \/ UNCHANGED <<status, told>>
  /\ Done
  /\ UNCHANGED <<bus, ledger, up, seen, last, pending, files, shareUp, other,
                 calls, applied, dropped, ends>>

-----------------------------------------------------------------------------
(* The other node's shell: drain_incoming_send_tabs.                       *)

\* A record that was taken before, in this life or an earlier one, opens
\* nothing.
Take(t) ==
  /\ shell.step = "idle"
  /\ t \in inbox
  /\ shell' = [shell EXCEPT !.taking = t, !.step = "mark",
                 !.queue = IF t \in shell.knows \cup marks THEN @ ELSE @ \cup {t}]
  /\ UNCHANGED <<bus, ledger, up, memory, files, shareUp, inbox, unlinked, marks,
                 unmarked, opened, status, calls, applied, dropped, ends>>

\* remember_consumed_send_tab: the tombstone, if it can be written
Mark ==
  /\ shell.step = "mark"
  /\ shell' = [shell EXCEPT !.step = "unlink", !.knows = @ \cup {shell.taking}]
  /\ \/ marks' = marks \cup {shell.taking} /\ UNCHANGED unmarked
     \/ unmarked' = unmarked \cup {shell.taking} /\ UNCHANGED marks
  /\ UNCHANGED <<bus, ledger, up, memory, files, shareUp, inbox, unlinked,
                 opened, status, calls, applied, dropped, ends>>

\* the record is removed, if it can be
Drop ==
  /\ shell.step = "unlink"
  /\ shell' = [shell EXCEPT !.step = "idle", !.taking = None]
  /\ \/ /\ inbox' = inbox \ {shell.taking}
        /\ unlinked' = IF shell.taking \in inbox
                         THEN unlinked \cup {shell.taking} ELSE unlinked
     \/ UNCHANGED <<inbox, unlinked>>
  /\ UNCHANGED <<bus, ledger, up, memory, files, shareUp, marks, unmarked, opened,
                 status, calls, applied, dropped, ends>>

\* drain_live_tab_requests opens the tab, or cannot: no seat, no helper, or
\* more tabs than a start-up opens.
Open(t) ==
  /\ shell.step = "idle"
  /\ t \in shell.queue
  /\ shell' = [shell EXCEPT !.queue = @ \ {t}]
  /\ \E n \in {0, 1} : opened' = [opened EXCEPT ![t] = @ + n]
  /\ UNCHANGED <<bus, ledger, up, memory, files, shareUp, inbox, unlinked, marks,
                 unmarked, status, calls, applied, dropped, ends>>

\* (a shell that holds nothing restarts without a trace)
ShellRestart ==
  /\ shell # IdleShell
  /\ Ends("shell")
  /\ shell' = IdleShell
  /\ UNCHANGED <<bus, ledger, up, memory, files, shareUp, inbox, unlinked, marks,
                 unmarked, opened, status, calls, applied, dropped>>

-----------------------------------------------------------------------------
Work ==
  \/ Tick \/ ListSnaps \/ ListTabs \/ ReadSnap \/ ReadTab
  \/ Save \/ Store \/ WriteFails \/ Call
  \/ Mirror \/ Scan \/ Send \/ Unlink \/ Tell \/ Exit

Receive == Mark \/ Drop \/ \E t \in NodeTab : Open(t)

Environment ==
  \/ \E r \in Request : Publish(r) \/ Grow(r)
  \/ MountOrUnmount
  \/ \E t \in NodeTab : SyncCopy(t) \/ SyncDelete(t)
  \/ Shutdown \/ Crash \/ ShellRestart

Next ==
  \/ Start \/ Work
  \/ Receive \/ \E t \in NodeTab : Take(t)
  \/ Environment

Spec == Init /\ [][Next]_vars

\* The daemon is started again after it ended and its loop goes on; a poll
\* of the other shell takes every record it finds, whatever else is there;
\* Syncthing delivers.
FairSpec ==
  /\ Spec
  /\ WF_vars(Start) /\ WF_vars(Work) /\ WF_vars(Receive)
  /\ \A t \in NodeTab : SF_vars(Take(t)) /\ WF_vars(SyncCopy(t) \/ SyncDelete(t))

-----------------------------------------------------------------------------
(* Properties.                                                             *)

\* A request has its effect at most once, although every restart reads the
\* topics from their beginning: whatever is still valid is in the ledger.
AppliedOnce ==
  /\ \A r \in Request : applied[r] <= 1
  /\ \A t \in PhoneTab : calls[t] <= 1

\* The other shell opens a tab once, also when the record comes back (a
\* mirror repeated after a crash, a deletion that was overtaken) and the
\* shell has been restarted; except if its tombstone could not be written.
OpensOnce == \A t \in NodeTab : opened[t] <= 1 \/ t \in unmarked

\* Nothing happens twice, on either node.
OnlyOnce == AppliedOnce /\ OpensOnce

\* A handoff that was stored once is in some outbox until the other shell
\* has taken it; no crash between two steps of the mirror loses it.
HandoffKept ==
  \A t \in Tab :
    applied[t] > 0 => t \in outbox \cup shareOut \cup inbox \cup marks \cup unmarked

\* The saved session is never replaced by an older one, although old snapshots
\* are read again after every restart; except by one whose nonce could not be
\* written, which a restart finds still valid.
SnapshotNeverOlder == [][local' >= local \/ local' \in dropped]_vars

\* A worker that has a snapshot of its own does not report it as mirrored
\* before it is.
HonestWithinLife ==
  [][status' # status /\ status'.syncing /\ status'.host => share' = local']_vars

\* The saved session only advances, and the status tells the truth of it.
SnapshotHonest == SnapshotNeverOlder /\ HonestWithinLife

\* Every request is applied, or its token runs out, or it was lost to a
\* crash or a failed write: the worker skips none.
RequestSettled ==
  \A r \in Request :
    r \in published ~> applied[r] > 0 \/ age[r] = "over" \/ r \in dropped

\* Once the share stays mounted, a stored handoff reaches the share, and the
\* other shell takes it if it is for a node.
HandoffArrives ==
  <>[]shareUp =>
    /\ \A t \in PhoneTab : t \in outbox ~> t \in shareOut
    /\ \A t \in NodeTab : t \in outbox ~> t \in marks \cup unmarked
=============================================================================
