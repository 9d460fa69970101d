------------------------------ MODULE BusStore ------------------------------
(***************************************************************************)
(* The store of the message bus (mde-bus/src/persist.rs), as its clients   *)
(* use it at the same time: threads and processes that write messages, the *)
(* daemon's retention pass (retention.rs) that deletes them, the operator's *)
(* `persist repair` command, and consumers that poll a topic by cursor.    *)
(*                                                                         *)
(* A message is two things: a JSON file named by its ULID, which is the    *)
(* authoritative copy, and a row of the SQLite index, which is what        *)
(* readers query.  Nothing joins the two in one transaction, so each       *)
(* client's steps on them interleave with everyone else's, and any client  *)
(* may die between two of its own.                                         *)
(*                                                                         *)
(* A ULID is the number of its minting.  Messages go to one topic, their   *)
(* audit records to another; bodies, titles and priorities are left out,   *)
(* and which messages a retention pass picks is left open here (module     *)
(* BusRetention has the choice).                                           *)
(***************************************************************************)
EXTENDS Naturals, FiniteSets

CONSTANTS Writer,     \* threads of the processes that call Persist::write
          Consumer,   \* pollers of the topic, one per list_since cursor
          MaxUlid     \* bound: how many ULIDs are ever minted

ASSUME MaxUlidAssumption == MaxUlid \in Nat

Ulid == 1 .. MaxUlid
None == 0

VARIABLES
  minted,    \* the last ULID handed out by ULID_GEN
  file,      \* ULIDs whose <ulid>.json is in the spool
  row,       \* ULIDs with a row in index.sqlite
  auditOf,   \* for the ULID of an audit record, the message it is about
  writer,    \* where each writer is inside write_full
  reaper,    \* the retention pass: victims left, and the one being deleted
  repair,    \* the repair command: its reading of the index and of the spool
  cursor,    \* each consumer's list_since cursor
  handled,   \* how often each consumer was given each message
  acked,     \* messages whose write returned Ok           (history)
  refused,   \* messages whose write returned Err          (history)
  reaped,    \* ULIDs whose file a retention pass removed  (history)
  calm       \* nobody touched the store since the repair began (history)

store   == <<minted, file, row, auditOf>>
answers == <<acked, refused>>
readers == <<cursor, handled>>
vars == <<store, writer, reaper, repair, readers, answers, reaped, calm>>

IdleWriter == [pc |-> "idle", ulid |-> None, audits |-> FALSE, record |-> None]
IdleReaper == [pc |-> "idle", victims |-> {}, at |-> None]
IdleRepair == [pc |-> "idle", prune |-> FALSE, indexed |-> {}, unread |-> {},
               todo |-> {}, missing |-> {}, at |-> None]

TypeOK ==
  /\ minted \in 0 .. MaxUlid
  /\ file \subseteq Ulid
  /\ row \subseteq Ulid
  /\ auditOf \in [Ulid -> Ulid \cup {None}]
  /\ writer \in [Writer -> [pc : {"idle", "minted", "stored", "indexed",
                                  "auditing"},
                            ulid : Ulid \cup {None}, audits : BOOLEAN,
                            record : Ulid \cup {None}]]
  /\ reaper \in [pc : {"idle", "file", "row"}, victims : SUBSET Ulid,
                 at : Ulid \cup {None}]
  /\ repair \in [pc : {"idle", "walk", "reindex", "insert", "done"},
                 prune : BOOLEAN, indexed : SUBSET Ulid, unread : SUBSET Ulid,
                 todo : SUBSET Ulid, missing : SUBSET Ulid,
                 at : Ulid \cup {None}]
  /\ cursor \in [Consumer -> Ulid \cup {None}]
  /\ handled \in [Consumer -> [Ulid -> Nat]]
  /\ acked \subseteq Ulid
  /\ refused \subseteq Ulid
  /\ reaped \subseteq Ulid
  /\ calm \in BOOLEAN

Init ==
  /\ minted = 0
  /\ file = {}
  /\ row = {}
  /\ auditOf = [u \in Ulid |-> None]
  /\ writer = [w \in Writer |-> IdleWriter]
  /\ reaper = IdleReaper
  /\ repair = IdleRepair
  /\ cursor = [c \in Consumer |-> None]
  /\ handled = [c \in Consumer |-> [u \in Ulid |-> 0]]
  /\ acked = {}
  /\ refused = {}
  /\ reaped = {}
  /\ calm = FALSE

-----------------------------------------------------------------------------
(* write_full.  The ULID is minted first, the file is published by a       *)
(* rename next, and the row is inserted last.                              *)

\* next_ulid, for a topic that is_auditable or one that is not
Mint(w) ==
  /\ writer[w].pc = "idle"
  /\ minted < MaxUlid
  /\ minted' = minted + 1
  /\ \E audits \in BOOLEAN :
       writer' = [writer EXCEPT ![w] = [pc |-> "minted", ulid |-> minted + 1,
                                        audits |-> audits, record |-> None]]
  /\ UNCHANGED <<file, row, auditOf, reaper, repair, readers, answers, reaped,
                 calm>>

\* the tmp file is renamed to <ulid>.json
StoreFile(w) ==
  /\ writer[w].pc = "minted"
  /\ file' = file \cup {writer[w].ulid}
  /\ writer' = [writer EXCEPT ![w].pc = "stored"]
  /\ calm' = FALSE
  /\ UNCHANGED <<minted, row, auditOf, reaper, repair, readers, answers, reaped>>

\* mkdir, the tmp write or the rename fails: Err, and no message file
StoreFails(w) ==
  /\ writer[w].pc = "minted"
  /\ refused' = refused \cup {writer[w].ulid}
  /\ writer' = [writer EXCEPT ![w] = IdleWriter]
  /\ UNCHANGED <<store, reaper, repair, readers, acked, reaped, calm>>

\* the INSERT; a message that is not audited is answered Ok here
InsertRow(w) ==
  LET u == writer[w].ulid IN
  /\ writer[w].pc = "stored"
  /\ u \notin row
  /\ row' = row \cup {u}
  /\ calm' = FALSE
  /\ IF writer[w].audits
     THEN /\ writer' = [writer EXCEPT ![w].pc = "indexed"]
          /\ UNCHANGED acked
     ELSE /\ writer' = [writer EXCEPT ![w] = IdleWriter]
          /\ acked' = acked \cup {u}
  /\ UNCHANGED <<minted, file, auditOf, reaper, repair, readers, refused, reaped>>

\* the INSERT fails, because a repair has indexed the file already (the ULID is
\* the primary key) or for a reason of SQLite's own: Err, and the file lingers
InsertFails(w) ==
  /\ writer[w].pc = "stored"
  /\ refused' = refused \cup {writer[w].ulid}
  /\ writer' = [writer EXCEPT ![w] = IdleWriter]
  /\ UNCHANGED <<store, reaper, repair, readers, acked, reaped, calm>>

\* the audit record of an indexed message is itself a write: its file first
StoreAudit(w) ==
  LET a == minted + 1 IN
  /\ writer[w].pc = "indexed"
  /\ minted < MaxUlid
  /\ minted' = a
  /\ file' = file \cup {a}
  /\ auditOf' = [auditOf EXCEPT ![a] = writer[w].ulid]
  /\ writer' = [writer EXCEPT ![w].pc = "auditing", ![w].record = a]
  /\ calm' = FALSE
  /\ UNCHANGED <<row, reaper, repair, readers, answers, reaped>>

\* ... then its row, and the caller of the message's write is answered Ok
InsertAudit(w) ==
  /\ writer[w].pc = "auditing"
  /\ writer[w].record \notin row
  /\ row' = row \cup {writer[w].record}
  /\ acked' = acked \cup {writer[w].ulid}
  /\ writer' = [writer EXCEPT ![w] = IdleWriter]
  /\ calm' = FALSE
  /\ UNCHANGED <<minted, file, auditOf, reaper, repair, readers, refused, reaped>>

\* a failed audit write is logged and does not fail the message's write
AuditFails(w) ==
  /\ writer[w].pc \in {"indexed", "auditing"}
  /\ acked' = acked \cup {writer[w].ulid}
  /\ writer' = [writer EXCEPT ![w] = IdleWriter]
  /\ UNCHANGED <<store, reaper, repair, readers, refused, reaped, calm>>

\* the writer's process dies: its caller never learns what became of the write
WriterCrash(w) ==
  /\ writer[w].pc # "idle"
  /\ writer' = [writer EXCEPT ![w] = IdleWriter]
  /\ UNCHANGED <<store, reaper, repair, readers, answers, reaped, calm>>

-----------------------------------------------------------------------------
(* The retention pass picks its victims from the index and deletes them    *)
(* one by one, the file before the row.                                    *)

SelectVictims ==
  /\ reaper.pc = "idle"
  /\ \E V \in SUBSET row \ {{}} :
       reaper' = [pc |-> "file", victims |-> V, at |-> None]
  /\ UNCHANGED <<store, writer, repair, readers, answers, reaped, calm>>

\* Mutant: a file that cannot be removed does not stop the pass.
RemoveFileIgnoring ==
  /\ reaper.pc = "file"
  /\ \E v \in reaper.victims, removed \in BOOLEAN :
       /\ file' = IF removed THEN file \ {v} ELSE file
       /\ reaped' = reaped \cup {v}
       /\ reaper' = [reaper EXCEPT !.pc = "row", !.at = v]
  /\ calm' = FALSE
  /\ UNCHANGED <<minted, row, auditOf, writer, repair, readers, answers>>

RemoveFile ==
  /\ reaper.pc = "file"
  /\ \E v \in reaper.victims :
       /\ file' = file \ {v}
       /\ reaped' = reaped \cup {v}
       /\ reaper' = [reaper EXCEPT !.pc = "row", !.at = v]
  /\ calm' = FALSE
  /\ UNCHANGED <<minted, row, auditOf, writer, repair, readers, answers>>

RemoveRow ==
  LET left == reaper.victims \ {reaper.at} IN
  /\ reaper.pc = "row"
  /\ row' = row \ {reaper.at}
  /\ reaper' = IF left = {} THEN IdleReaper
               ELSE [pc |-> "file", victims |-> left, at |-> None]
  /\ calm' = FALSE
  /\ UNCHANGED <<minted, file, auditOf, writer, repair, readers, answers, reaped>>

\* an I/O or SQL error ends the pass, or the daemon dies in it
ReaperStops ==
  /\ reaper.pc # "idle"
  /\ reaper' = IdleReaper
  /\ UNCHANGED <<store, writer, repair, readers, answers, reaped, calm>>

-----------------------------------------------------------------------------
(* repair_divergence: the index is read, then the spool is walked, and the *)
(* two readings are compared.                                              *)

ReadIndex ==
  /\ repair.pc = "idle"
  /\ \E prune \in BOOLEAN :
       repair' = [IdleRepair EXCEPT !.pc = "walk", !.prune = prune,
                                    !.indexed = row, !.unread = Ulid]
  /\ calm' = TRUE
  /\ UNCHANGED <<store, writer, reaper, readers, answers, reaped>>

\* the walk comes past each message's path in its own time
WalkSpool ==
  /\ repair.pc = "walk"
  /\ \E u \in repair.unread :
       LET left == repair.unread \ {u} IN
       repair' = [repair EXCEPT
         !.pc = IF left = {} THEN "reindex" ELSE "walk",
         !.unread = left,
         !.todo = repair.todo \cup ({u} \cap (file \ repair.indexed)),
         !.missing = repair.missing \cup ({u} \cap (repair.indexed \ file))]
  /\ UNCHANGED <<store, writer, reaper, readers, answers, reaped, calm>>

\* a file without a row is read again; if it has gone the repair gives up
RereadFile ==
  /\ repair.pc = "reindex"
  /\ \E u \in repair.todo :
       repair' = IF u \in file THEN [repair EXCEPT !.pc = "insert", !.at = u]
                 ELSE IdleRepair
  /\ UNCHANGED <<store, writer, reaper, readers, answers, reaped, calm>>

\* Mutant: the loop over the files without a row ends with the first.
ReindexFirst ==
  /\ repair.pc = "insert"
  /\ row' = row \cup {repair.at}
  /\ repair' = [repair EXCEPT !.pc = "reindex", !.at = None, !.todo = {}]
  /\ UNCHANGED <<minted, file, auditOf, writer, reaper, readers, answers, reaped,
                 calm>>

\* INSERT OR IGNORE of the message that was read
Reindex ==
  /\ repair.pc = "insert"
  /\ row' = row \cup {repair.at}
  /\ repair' = [repair EXCEPT !.pc = "reindex", !.at = None,
                              !.todo = repair.todo \ {repair.at}]
  /\ UNCHANGED <<minted, file, auditOf, writer, reaper, readers, answers, reaped,
                 calm>>

\* Mutant: every row that the first reading of the index did not see goes too.
PruneUnread ==
  /\ repair.pc = "reindex"
  /\ repair.todo = {}
  /\ repair.prune
  /\ \E u \in repair.missing \cup (row \ repair.indexed) :
       /\ row' = row \ {u}
       /\ repair' = [repair EXCEPT !.missing = repair.missing \ {u}]
  /\ UNCHANGED <<minted, file, auditOf, writer, reaper, readers, answers, reaped,
                 calm>>

\* with prune_missing_rows, and every file indexed, the rows that had no file are
\* deleted one by one
PruneRow ==
  /\ repair.pc = "reindex"
  /\ repair.todo = {}
  /\ repair.prune
  /\ \E u \in repair.missing :
       /\ row' = row \ {u}
       /\ repair' = [repair EXCEPT !.missing = repair.missing \ {u}]
  /\ UNCHANGED <<minted, file, auditOf, writer, reaper, readers, answers, reaped,
                 calm>>

FinishRepair ==
  /\ repair.pc = "reindex"
  /\ repair.todo = {}
  /\ repair.prune => repair.missing = {}
  /\ repair' = [repair EXCEPT !.pc = "done"]
  /\ UNCHANGED <<store, writer, reaper, readers, answers, reaped, calm>>

\* the command returns, with its report or, at any earlier point, with an error
RepairStops ==
  /\ repair.pc # "idle"
  /\ repair' = IdleRepair
  /\ UNCHANGED <<store, writer, reaper, readers, answers, reaped, calm>>

-----------------------------------------------------------------------------
(* A consumer asks for the messages past its cursor and moves the cursor   *)
(* to the last of them.                                                    *)

\* Mutant: the cursor is inclusive.
NewerOrEqual(c) == {u \in row : auditOf[u] = None /\ u >= cursor[c]}

\* list_since: the topic's rows with a ULID beyond the cursor
Newer(c) == {u \in row : auditOf[u] = None /\ u > cursor[c]}

Poll(c) ==
  /\ \E last \in Newer(c) :
       /\ \A u \in Newer(c) : u <= last
       /\ cursor' = [cursor EXCEPT ![c] = last]
  /\ handled' = [handled EXCEPT ![c] =
                   [u \in Ulid |-> IF u \in Newer(c) THEN handled[c][u] + 1
                                   ELSE handled[c][u]]]
  /\ UNCHANGED <<store, writer, reaper, repair, answers, reaped, calm>>

-----------------------------------------------------------------------------
Write(w) ==
  \/ Mint(w) \/ StoreFile(w) \/ StoreFails(w) \/ InsertRow(w) \/ InsertFails(w)
  \/ StoreAudit(w) \/ InsertAudit(w) \/ AuditFails(w) \/ WriterCrash(w)
Retain == SelectVictims \/ RemoveFile \/ RemoveRow \/ ReaperStops
RepairStep ==
  \/ ReadIndex \/ WalkSpool \/ RereadFile \/ Reindex \/ PruneRow
  \/ FinishRepair \/ RepairStops

Next ==
  \/ \E w \in Writer : Write(w)
  \/ Retain
  \/ RepairStep
  \/ \E c \in Consumer : Poll(c)

Spec == Init /\ [][Next]_vars

-----------------------------------------------------------------------------
(* What the store promises.                                                *)

\* A write that was answered Ok stays readable and durable until retention takes
\* it: whatever other writers, crashes and repairs do in between, its file is in
\* the spool and its row in the index.  A repair is the danger: it deletes rows,
\* from two readings of a store that moved between them.
AckedIsKept == acked \ reaped \subseteq file \cap row

\* Retention never leaves a file nobody indexes.  Victims are found through the
\* index, so a file that lost its row first would stay in the tmpfs for ever; the
\* pass deletes the file first so that stopping half-way leaves the row, which
\* the next pass finds again.
NoLeakedFile == acked \cap file \subseteq row

\* No consumer is handed one message twice, though writers insert out of ULID
\* order, rows vanish under retention and repairs bring rows back.
AtMostOnce == \A c \in Consumer, u \in Ulid : handled[c][u] <= 1

\* The audit trail tells of no write whose caller was told that it failed: the
\* record is only written once the message is indexed, and failing to write the
\* record is not passed on to the caller.
NoAuditOfRefused == \A a \in file \cup row : auditOf[a] \notin refused

\* The answer a writer got stays true: what was acknowledged is there, and what
\* was refused is not on record.
AnswersHold == AckedIsKept /\ NoAuditOfRefused

\* A repair that nobody disturbed leaves the index equal to the spool when it was
\* told to prune, and every file indexed when it was not, whatever crash of a
\* writer or of a retention pass it started from.
RepairConverges ==
  repair.pc = "done" /\ calm =>
    /\ file \subseteq row
    /\ repair.prune => row = file

\* Said of the code, and not so: polling by cursor sees every message, because
\* ULIDs are in the order of insertion (persist.rs, ULID_GEN and list_since).
CursorSeesAll ==
  \A c \in Consumer, u \in row :
    auditOf[u] = None /\ u <= cursor[c] => handled[c][u] > 0
=============================================================================
