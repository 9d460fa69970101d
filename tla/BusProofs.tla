------------------------------ MODULE BusProofs -----------------------------
(***************************************************************************)
(* Proofs about the two modules of the bus, for any set of writers,        *)
(* consumers and kinds of message, any caps and any number of messages:    *)
(* first the store (BusStore), then the choice of a retention pass         *)
(* (BusRetention).                                                         *)
(***************************************************************************)
EXTENDS BusStore, BusRetention, FiniteSetTheorems, WellFoundedInduction, TLAPS

(***************************************************************************)
(* The store: a file is there before its row, and goes before it.          *)
(***************************************************************************)

\* Every file that ever was in the spool is there or was taken by retention:
\* nothing else removes files, so this set only grows.
Seen == file \cup reaped

\* A row never comes before its file, and a file that went does not come back.
SpoolSound ==
  /\ row \subseteq Seen
  /\ file \cap reaped = {}
  /\ Seen \cup refused \subseteq 1 .. minted

\* Minted and never stored; and stored and indexed, until retention takes it.
Fresh == (1 .. minted) \ Seen
Kept  == reaped \cup (file \cap row)

\* How far each write has come, and what that says of its files and rows.
OnItsWay(w) ==
  /\ writer[w].pc # "idle" => writer[w].ulid \in (1 .. minted) \ refused
  /\ writer[w].pc = "minted" => writer[w].ulid \in Fresh
  /\ writer[w].pc = "stored" => writer[w].ulid \in Seen
  /\ writer[w].pc \in {"indexed", "auditing"} => writer[w].ulid \in Kept
  /\ writer[w].pc = "auditing" => writer[w].record \in Seen

WritersSound == \A w \in Writer : OnItsWay(w)

\* Two writes never share a ULID.
Distinct ==
  \A w, v \in Writer :
    w # v /\ writer[w].pc # "idle" /\ writer[v].pc # "idle"
      => writer[w].ulid # writer[v].ulid

\* What retention and a repair have in hand comes from the index or the spool; the
\* rows a repair would prune are of files that retention took.
PassesSound ==
  /\ reaper.victims \subseteq Seen
  /\ reaper.pc = "row" => reaper.at \in reaped
  /\ repair.indexed \subseteq Seen
  /\ repair.todo \subseteq Seen
  /\ repair.missing \subseteq reaped
  /\ repair.pc = "insert" => repair.at \in Seen

\* An audited message was indexed, so its write can no longer be refused.
AuditSound ==
  \A a \in Ulid :
    /\ auditOf[a] \in {None} \cup (1 .. minted)
    /\ auditOf[a] \notin refused
    /\ \A w \in Writer :
         writer[w].pc \in {"minted", "stored"} => auditOf[a] # writer[w].ulid

Strong ==
  /\ TypeOK
  /\ SpoolSound
  /\ WritersSound
  /\ Distinct
  /\ PassesSound
  /\ AuditSound
  /\ AckedIsKept

-----------------------------------------------------------------------------
(* Types. *)

\* What the writers and the passes have in hand are ULIDs.
LEMMA HandsTyped ==
  ASSUME TypeOK, WritersSound, PassesSound
  PROVE  /\ \A w \in Writer : writer[w].pc # "idle" => writer[w].ulid \in Ulid
         /\ \A w \in Writer : writer[w].pc = "auditing" => writer[w].record \in Ulid
         /\ repair.pc = "insert" => repair.at \in Ulid
<1>1. 1 .. minted \subseteq Ulid /\ Seen \subseteq Ulid
  BY MaxUlidAssumption DEF TypeOK, Ulid, Seen
<1> QED BY <1>1, Zenon DEF WritersSound, OnItsWay, PassesSound

LEMMA TypeStep ==
  TypeOK /\ WritersSound /\ PassesSound /\ [Next]_vars => TypeOK'
<1> SUFFICES ASSUME TypeOK, WritersSound, PassesSound, [Next]_vars PROVE TypeOK'
  OBVIOUS
<1>h. /\ \A w \in Writer : writer[w].pc # "idle" => writer[w].ulid \in Ulid
      /\ \A w \in Writer : writer[w].pc = "auditing" => writer[w].record \in Ulid
      /\ repair.pc = "insert" => repair.at \in Ulid
  BY HandsTyped
<1>n. /\ minted \in Nat /\ None \notin Ulid
      /\ minted < MaxUlid => minted + 1 \in Ulid /\ minted + 1 \in 0 .. MaxUlid
  BY MaxUlidAssumption DEF TypeOK, Ulid, None
<1> DEFINE Writers == [Writer -> [pc : {"idle", "minted", "stored", "indexed",
                                        "auditing"},
                                  ulid : Ulid \cup {None}, audits : BOOLEAN,
                                  record : Ulid \cup {None}]]
<1> USE DEF TypeOK, IdleWriter, IdleReaper, IdleRepair, store, readers, answers
<1>1. ASSUME NEW w \in Writer, Mint(w) PROVE TypeOK'
  BY <1>1, <1>h, <1>n DEF Mint
<1>2. ASSUME NEW w \in Writer, StoreFile(w) PROVE TypeOK'
  <2>1. file' \subseteq Ulid
    BY <1>2, <1>h DEF StoreFile
  <2>2. writer' \in Writers
    <3>1. writer \in Writers /\ writer' = [writer EXCEPT ![w].pc = "stored"]
      BY <1>2 DEF StoreFile
    <3> QED BY ONLY <3>1
  <2> QED BY <1>2, <2>1, <2>2 DEF StoreFile
<1>3. ASSUME NEW w \in Writer, StoreFails(w) PROVE TypeOK'
  BY <1>3, <1>h, <1>n DEF StoreFails
<1>4. ASSUME NEW w \in Writer, InsertRow(w) PROVE TypeOK'
  <2>1. row' \subseteq Ulid /\ acked' \subseteq Ulid
    BY <1>4, <1>h DEF InsertRow
  <2>2. \/ writer' = [writer EXCEPT ![w].pc = "indexed"]
        \/ writer' = [writer EXCEPT ![w] = IdleWriter]
    BY <1>4 DEF InsertRow
  <2>3. writer' \in Writers
    <3>1. writer \in Writers
      OBVIOUS
    <3>2. CASE writer' = [writer EXCEPT ![w].pc = "indexed"]
      BY ONLY <3>1, <3>2
    <3>3. CASE writer' = [writer EXCEPT ![w] = IdleWriter]
      BY ONLY <3>1, <3>3 DEF IdleWriter
    <3> QED BY <2>2, <3>2, <3>3
  <2> QED BY <1>4, <2>1, <2>3 DEF InsertRow
<1>5. ASSUME NEW w \in Writer, InsertFails(w) PROVE TypeOK'
  BY <1>5, <1>h, <1>n DEF InsertFails
<1>6. ASSUME NEW w \in Writer, StoreAudit(w) PROVE TypeOK'
  <2>1. minted + 1 \in Ulid /\ minted' \in 0 .. MaxUlid
    BY <1>6, <1>n DEF StoreAudit
  <2>2. file' \subseteq Ulid
    BY <1>6, <2>1 DEF StoreAudit
  <2>3. writer' \in Writers
    <3>1. writer \in Writers /\ minted' \in Ulid
      BY <1>6, <2>1 DEF StoreAudit
    <3>2. writer' = [writer EXCEPT ![w].pc = "auditing", ![w].record = minted']
      BY <1>6 DEF StoreAudit
    <3> QED BY ONLY <3>1, <3>2
  <2>4. auditOf' \in [Ulid -> Ulid \cup {None}]
    BY <1>6, <1>h, <2>1 DEF StoreAudit
  <2> QED BY <1>6, <2>1, <2>2, <2>3, <2>4 DEF StoreAudit
<1>7. ASSUME NEW w \in Writer, InsertAudit(w) PROVE TypeOK'
  BY <1>7, <1>h, <1>n DEF InsertAudit
<1>8. ASSUME NEW w \in Writer, AuditFails(w) PROVE TypeOK'
  BY <1>8, <1>h, <1>n DEF AuditFails
<1>9. ASSUME NEW w \in Writer, WriterCrash(w) PROVE TypeOK'
  BY <1>9, <1>h, <1>n DEF WriterCrash
<1>10. CASE SelectVictims
  BY <1>10, <1>h DEF SelectVictims
<1>11. CASE RemoveFile
  <2>1. PICK v \in reaper.victims :
          /\ file' = file \ {v} /\ reaped' = reaped \cup {v}
          /\ reaper' = [reaper EXCEPT !.pc = "row", !.at = v]
    BY <1>11 DEF RemoveFile
  <2>2. v \in Ulid
    OBVIOUS
  <2>3. reaper' \in [pc : {"idle", "file", "row"}, victims : SUBSET Ulid,
                     at : Ulid \cup {None}]
    BY <2>1, <2>2
  <2>4. file' \subseteq Ulid /\ reaped' \subseteq Ulid
    BY <2>1, <2>2
  <2> QED BY <1>11, <2>3, <2>4 DEF RemoveFile
<1>12. CASE RemoveRow
  BY <1>12, <1>h DEF RemoveRow
<1>13. CASE ReaperStops
  BY <1>13, <1>h DEF ReaperStops
<1>14. CASE ReadIndex
  BY <1>14, <1>h DEF ReadIndex
<1>15. CASE WalkSpool
  <2>1. PICK u \in repair.unread :
          repair' = [repair EXCEPT
            !.pc = IF repair.unread \ {u} = {} THEN "reindex" ELSE "walk",
            !.unread = repair.unread \ {u},
            !.todo = repair.todo \cup ({u} \cap (file \ repair.indexed)),
            !.missing = repair.missing \cup ({u} \cap (repair.indexed \ file))]
    BY <1>15 DEF WalkSpool
  <2>2. /\ repair.todo \cup ({u} \cap (file \ repair.indexed)) \subseteq Ulid
        /\ repair.missing \cup ({u} \cap (repair.indexed \ file)) \subseteq Ulid
        /\ repair.unread \ {u} \subseteq Ulid
    OBVIOUS
  <2>3. repair' \in [pc : {"idle", "walk", "reindex", "insert", "done"},
                     prune : BOOLEAN, indexed : SUBSET Ulid, unread : SUBSET Ulid,
                     todo : SUBSET Ulid, missing : SUBSET Ulid,
                     at : Ulid \cup {None}]
    BY <2>1, <2>2
  <2> QED BY <1>15, <2>3 DEF WalkSpool
<1>16. CASE RereadFile
  <2>1. PICK u \in repair.todo :
          repair' = IF u \in file THEN [repair EXCEPT !.pc = "insert", !.at = u]
                    ELSE IdleRepair
    BY <1>16 DEF RereadFile
  <2>2. u \in Ulid
    OBVIOUS
  <2>3. repair' \in [pc : {"idle", "walk", "reindex", "insert", "done"},
                     prune : BOOLEAN, indexed : SUBSET Ulid, unread : SUBSET Ulid,
                     todo : SUBSET Ulid, missing : SUBSET Ulid,
                     at : Ulid \cup {None}]
    BY <2>1, <2>2
  <2> QED BY <1>16, <2>3 DEF RereadFile
<1>17. CASE Reindex
  BY <1>17, <1>h DEF Reindex
<1>18. CASE FinishRepair
  BY <1>18, <1>h DEF FinishRepair
<1>19. CASE RepairStops
  BY <1>19, <1>h DEF RepairStops
<1>22. CASE PruneRow
  <2>1. PICK u \in repair.missing :
          /\ row' = row \ {u}
          /\ repair' = [repair EXCEPT !.missing = repair.missing \ {u}]
    BY <1>22 DEF PruneRow
  <2>2. row' \subseteq Ulid /\ repair.missing \ {u} \subseteq Ulid
    BY <2>1
  <2>3. repair' \in [pc : {"idle", "walk", "reindex", "insert", "done"},
                     prune : BOOLEAN, indexed : SUBSET Ulid, unread : SUBSET Ulid,
                     todo : SUBSET Ulid, missing : SUBSET Ulid,
                     at : Ulid \cup {None}]
    BY <2>1, <2>2
  <2> QED BY <1>22, <2>2, <2>3 DEF PruneRow
<1>20. ASSUME NEW c \in Consumer, Poll(c) PROVE TypeOK'
  BY <1>20 DEF Poll, Newer
<1>21. CASE UNCHANGED vars
  BY <1>21 DEF vars
<1> QED BY <1>1, <1>2, <1>3, <1>4, <1>5, <1>6, <1>7, <1>8, <1>9, <1>10, <1>11, <1>12, <1>13, <1>14, <1>15, <1>16, <1>17, <1>18, <1>19, <1>20, <1>21,
           <1>22, Zenon
  DEF Next, Write, Retain, RepairStep

-----------------------------------------------------------------------------
(* Safety. *)

\* The part of the strengthening that is about one step's hands and the store.
Sound == TypeOK /\ SpoolSound /\ WritersSound /\ PassesSound

\* Nothing is ever forgotten: a ULID minted, seen or kept stays so.
LEMMA Grows ==
  ASSUME Sound, [Next]_vars
  PROVE  /\ 1 .. minted \subseteq (1 .. minted)'
         /\ Seen \subseteq Seen'
         /\ Kept \subseteq Kept'
<1> USE DEF Sound, store, readers, answers
<1>a. minted \in Nat
  BY DEF TypeOK
<1>b. minted' \in {minted, minted + 1}
  BY DEF Next, vars, Write, Retain, RepairStep, Mint, StoreFile, StoreFails,
     InsertRow, InsertFails, StoreAudit, InsertAudit, AuditFails, WriterCrash,
     SelectVictims, RemoveFile, RemoveRow, ReaperStops, ReadIndex, WalkSpool,
     RereadFile, Reindex, PruneRow, FinishRepair, RepairStops, Poll
<1>1. 1 .. minted \subseteq (1 .. minted)'
  BY <1>a, <1>b
<1>2. Seen \subseteq Seen' /\ Kept \subseteq Kept'
  <2> USE DEF Seen, Kept
  <2>1. CASE /\ file \subseteq file' /\ row \subseteq row' /\ reaped \subseteq reaped'
    BY <2>1, Zenon
  <2>2. CASE RemoveFile
    BY <2>2, Zenon DEF RemoveFile
  <2>3. CASE RemoveRow
    BY <2>3, Zenon DEF RemoveRow, PassesSound
  <2>4. CASE PruneRow
    BY <2>4, Zenon DEF PruneRow, PassesSound
  <2>5. \/ file \subseteq file' /\ row \subseteq row' /\ reaped \subseteq reaped'
        \/ RemoveFile \/ RemoveRow \/ PruneRow
    BY DEF Next, vars, Write, Retain, RepairStep, Mint, StoreFile, StoreFails,
       InsertRow, InsertFails, StoreAudit, InsertAudit, AuditFails, WriterCrash,
       SelectVictims, ReaperStops, ReadIndex, WalkSpool,
       RereadFile, Reindex, FinishRepair, RepairStops, Poll
  <2> QED BY <2>1, <2>2, <2>3, <2>4, <2>5
<1> QED BY <1>1, <1>2

LEMMA SpoolStep ==
  ASSUME Sound, [Next]_vars
  PROVE  SpoolSound'
<1> USE DEF Sound, store, readers, answers
<1>a. /\ minted \in Nat /\ minted + 1 \notin 1 .. minted
      /\ 1 .. minted \subseteq 1 .. (minted + 1) /\ minted + 1 \in 1 .. (minted + 1)
  BY DEF TypeOK
<1> USE DEF SpoolSound, Seen
<1>1. ASSUME NEW w \in Writer, Mint(w) PROVE SpoolSound'
  BY <1>1, <1>a, Zenon DEF Mint
<1>2. ASSUME NEW w \in Writer, StoreFile(w) PROVE SpoolSound'
  BY <1>2, Zenon DEF StoreFile, WritersSound, OnItsWay, Fresh
<1>3. ASSUME NEW w \in Writer, StoreFails(w) \/ InsertFails(w) PROVE SpoolSound'
  <2>1. writer[w].pc # "idle"
    BY <1>3 DEF StoreFails, InsertFails
  <2> QED BY <1>3, <2>1, Zenon DEF StoreFails, InsertFails, WritersSound, OnItsWay
<1>4. ASSUME NEW w \in Writer, InsertRow(w) PROVE SpoolSound'
  BY <1>4, Zenon DEF InsertRow, WritersSound, OnItsWay
<1>5. ASSUME NEW w \in Writer, StoreAudit(w) PROVE SpoolSound'
  BY <1>5, <1>a, Zenon DEF StoreAudit
<1>6. ASSUME NEW w \in Writer, InsertAudit(w) PROVE SpoolSound'
  BY <1>6, Zenon DEF InsertAudit, WritersSound, OnItsWay
<1>7. CASE RemoveFile
  BY <1>7, Zenon DEF RemoveFile, PassesSound
<1>8. CASE RemoveRow
  BY <1>8, Zenon DEF RemoveRow
<1>9. CASE Reindex
  BY <1>9, Zenon DEF Reindex, PassesSound
<1>10. CASE PruneRow
  BY <1>10, Zenon DEF PruneRow
<1>11. CASE UNCHANGED <<minted, file, row, reaped, refused>>
  BY <1>11, Zenon
<1>12. \/ \E w \in Writer : \/ Mint(w) \/ StoreFile(w) \/ StoreFails(w)
                              \/ InsertFails(w) \/ InsertRow(w) \/ StoreAudit(w)
                              \/ InsertAudit(w)
       \/ RemoveFile \/ RemoveRow \/ Reindex \/ PruneRow
       \/ UNCHANGED <<minted, file, row, reaped, refused>>
  BY DEF Next, vars, Write, Retain, RepairStep, AuditFails, WriterCrash,
     SelectVictims, ReaperStops, ReadIndex, WalkSpool, RereadFile,
     FinishRepair, RepairStops, Poll
<1> QED BY <1>1, <1>2, <1>3, <1>4, <1>5, <1>6, <1>7, <1>8, <1>9, <1>10, <1>11,
           <1>12

LEMMA PassesStep ==
  ASSUME Sound, [Next]_vars
  PROVE  PassesSound'
<1> USE DEF Sound, store, readers, answers
<1>g. Seen \subseteq Seen' /\ reaped \subseteq reaped'
  <2>1. reaped \subseteq reaped'
    BY DEF Next, vars, Write, Retain, RepairStep, Mint, StoreFile, StoreFails,
       InsertRow, InsertFails, StoreAudit, InsertAudit, AuditFails, WriterCrash,
       SelectVictims, RemoveFile, RemoveRow, ReaperStops, ReadIndex, WalkSpool,
       RereadFile, Reindex, PruneRow, FinishRepair, RepairStops, Poll
  <2> QED BY <2>1, Grows
<1>s. row \subseteq Seen
  BY DEF SpoolSound
<1>1. CASE UNCHANGED <<reaper, repair>>
  BY <1>1, <1>g, Zenon DEF PassesSound
<1>r. ASSUME UNCHANGED repair,
             /\ reaper'.victims \subseteq Seen'
             /\ reaper'.pc = "row" => reaper'.at \in reaped'
      PROVE  PassesSound'
  BY <1>r, <1>g, Zenon DEF PassesSound
<1>p. ASSUME UNCHANGED reaper,
             /\ repair'.indexed \subseteq Seen'
             /\ repair'.todo \subseteq Seen'
             /\ repair'.missing \subseteq reaped'
             /\ repair'.pc = "insert" => repair'.at \in Seen'
      PROVE  PassesSound'
  BY <1>p, <1>g, Zenon DEF PassesSound
<1>2. CASE SelectVictims
  <2>1. PICK V \in SUBSET row \ {{}} :
          reaper' = [pc |-> "file", victims |-> V, at |-> None]
    BY <1>2 DEF SelectVictims
  <2>2. reaper'.victims = V /\ reaper'.pc = "file"
    BY <2>1
  <2> QED BY <1>2, <2>2, <1>r, <1>g, <1>s DEF SelectVictims
<1>3. CASE RemoveFile
  <2>1. PICK v \in reaper.victims : /\ reaped' = reaped \cup {v}
                                    /\ reaper' = [reaper EXCEPT !.pc = "row", !.at = v]
    BY <1>3 DEF RemoveFile
  <2>2. reaper'.victims = reaper.victims /\ reaper'.at = v
    BY <2>1 DEF TypeOK
  <2> QED BY <1>3, <2>1, <2>2, <1>r, <1>g DEF RemoveFile, PassesSound
<1>4. CASE RemoveRow
  <2>1. reaper'.victims \subseteq reaper.victims /\ reaper'.pc # "row"
    BY <1>4 DEF RemoveRow, IdleReaper
  <2> QED BY <1>4, <2>1, <1>r, <1>g DEF RemoveRow, PassesSound
<1>5. CASE ReaperStops
  BY <1>5, <1>r DEF ReaperStops, IdleReaper
<1>6. CASE ReadIndex
  <2>1. /\ repair'.indexed = row /\ repair'.todo = {} /\ repair'.missing = {}
        /\ repair'.pc = "walk"
    BY <1>6 DEF ReadIndex, IdleRepair
  <2> QED BY <1>6, <2>1, <1>p, <1>g, <1>s DEF ReadIndex
<1>7. CASE WalkSpool
  <2>1. PICK u \in repair.unread :
          repair' = [repair EXCEPT
            !.pc = IF repair.unread \ {u} = {} THEN "reindex" ELSE "walk",
            !.unread = repair.unread \ {u},
            !.todo = repair.todo \cup ({u} \cap (file \ repair.indexed)),
            !.missing = repair.missing \cup ({u} \cap (repair.indexed \ file))]
    BY <1>7 DEF WalkSpool
  <2>2. /\ repair'.indexed = repair.indexed /\ repair'.pc # "insert"
        /\ repair'.todo \subseteq repair.todo \cup file
        /\ repair'.missing \subseteq repair.missing \cup (repair.indexed \ file)
    BY <2>1 DEF TypeOK
  <2>3. repair.indexed \ file \subseteq reaped /\ file \subseteq Seen
    BY Zenon DEF PassesSound, Seen
  <2> QED BY <1>7, <2>2, <2>3, <1>p, <1>g DEF WalkSpool, PassesSound
<1>8. CASE RereadFile
  <2>1. PICK u \in repair.todo :
          repair' = IF u \in file THEN [repair EXCEPT !.pc = "insert", !.at = u]
                    ELSE IdleRepair
    BY <1>8 DEF RereadFile
  <2>2. CASE repair' = [repair EXCEPT !.pc = "insert", !.at = u]
    <3>1. /\ repair'.indexed = repair.indexed /\ repair'.todo = repair.todo
          /\ repair'.missing = repair.missing /\ repair'.at = u
      BY <2>2 DEF TypeOK
    <3> QED BY <1>8, <3>1, <1>p, <1>g DEF RereadFile, PassesSound
  <2>3. CASE repair' = IdleRepair
    BY <1>8, <2>3, <1>p DEF RereadFile, IdleRepair
  <2> QED BY <2>1, <2>2, <2>3
<1>9. CASE Reindex
  <2>1. /\ repair'.indexed = repair.indexed /\ repair'.todo \subseteq repair.todo
        /\ repair'.missing = repair.missing /\ repair'.pc = "reindex"
    BY <1>9 DEF Reindex, TypeOK
  <2> QED BY <1>9, <2>1, <1>p, <1>g DEF Reindex, PassesSound
<1>10. CASE FinishRepair
  <2>1. /\ repair'.indexed = repair.indexed /\ repair'.todo = repair.todo
        /\ repair'.missing = repair.missing /\ repair'.pc = "done"
    BY <1>10 DEF FinishRepair, TypeOK
  <2> QED BY <1>10, <2>1, <1>p, <1>g DEF FinishRepair, PassesSound
<1>11. CASE RepairStops
  BY <1>11, <1>p DEF RepairStops, IdleRepair
<1>13. CASE PruneRow
  <2>1. /\ repair'.indexed = repair.indexed /\ repair'.todo = repair.todo
        /\ repair'.missing \subseteq repair.missing /\ repair'.pc = "reindex"
    BY <1>13 DEF PruneRow, TypeOK
  <2> QED BY <1>13, <2>1, <1>p, <1>g DEF PruneRow, PassesSound
<1>12. \/ UNCHANGED <<reaper, repair>>
       \/ SelectVictims \/ RemoveFile \/ RemoveRow \/ ReaperStops
       \/ ReadIndex \/ WalkSpool \/ RereadFile \/ Reindex \/ PruneRow
       \/ FinishRepair \/ RepairStops
  BY DEF Next, vars, Write, Retain, RepairStep, Mint, StoreFile, StoreFails,
     InsertRow, InsertFails, StoreAudit, InsertAudit, AuditFails, WriterCrash, Poll
<1> QED BY <1>1, <1>2, <1>3, <1>4, <1>5, <1>6, <1>7, <1>8, <1>9, <1>10, <1>11,
           <1>12, <1>13

LEMMA AckedStep ==
  ASSUME Sound, AckedIsKept, [Next]_vars
  PROVE  AckedIsKept'
<1> USE DEF Sound, store, readers, answers
<1>g. Kept \subseteq Kept'
  BY Grows
<1>k. acked \subseteq Kept
  BY Zenon DEF AckedIsKept, Kept
<1>a. acked' \subseteq Kept' => AckedIsKept'
  BY Zenon DEF AckedIsKept, Kept
<1>1. CASE UNCHANGED acked
  BY <1>1, <1>g, <1>k, <1>a
<1>2. ASSUME NEW w \in Writer, InsertRow(w) PROVE AckedIsKept'
  <2>1. writer[w].ulid \in Seen /\ acked' \subseteq acked \cup {writer[w].ulid}
    BY <1>2 DEF InsertRow, WritersSound, OnItsWay
  <2>2. writer[w].ulid \in Kept'
    BY <1>2, <2>1, Zenon DEF InsertRow, Seen, Kept
  <2> QED BY <2>1, <2>2, <1>g, <1>k, <1>a
<1>3. ASSUME NEW w \in Writer, InsertAudit(w) \/ AuditFails(w) PROVE AckedIsKept'
  <2>1. writer[w].ulid \in Kept /\ acked' = acked \cup {writer[w].ulid}
    BY <1>3 DEF InsertAudit, AuditFails, WritersSound, OnItsWay
  <2> QED BY <2>1, <1>g, <1>k, <1>a
<1>4. \/ UNCHANGED acked
      \/ \E w \in Writer : InsertRow(w) \/ InsertAudit(w) \/ AuditFails(w)
  BY DEF Next, vars, Write, Retain, RepairStep, Mint, StoreFile, StoreFails,
     InsertFails, StoreAudit, WriterCrash,
     SelectVictims, RemoveFile, RemoveRow, ReaperStops, ReadIndex, WalkSpool,
     RereadFile, Reindex, PruneRow, FinishRepair, RepairStops, Poll
<1> QED BY <1>1, <1>2, <1>3, <1>4

LEMMA WritersStep ==
  ASSUME Sound, Distinct, [Next]_vars
  PROVE  WritersSound'
<1> USE DEF Sound, store, readers, answers
<1>a. minted \in Nat /\ minted + 1 \in 1 .. (minted + 1) /\ minted + 1 \notin 1 .. minted
  BY DEF TypeOK
<1>g. /\ 1 .. minted \subseteq (1 .. minted)' /\ Seen \subseteq Seen'
      /\ Kept \subseteq Kept'
  BY Grows
<1>s. Seen \cup refused \subseteq 1 .. minted
  BY DEF SpoolSound
\* a writer that does not move is only told apart from the ULIDs of one that does
<1>u. ASSUME NEW v \in Writer, writer'[v] = writer[v],
             \/ refused' = refused /\ Seen' \subseteq Seen
             \/ \E u : /\ refused' \subseteq refused \cup {u}
                       /\ Seen' \subseteq Seen \cup {u}
                       /\ writer[v].pc # "idle" => writer[v].ulid # u
      PROVE  OnItsWay(v)'
  <2>1. /\ writer[v].pc # "idle" => writer[v].ulid \in (1 .. minted) \ refused
        /\ writer[v].pc = "minted" => writer[v].ulid \in (1 .. minted) \ Seen
        /\ writer[v].pc = "stored" => writer[v].ulid \in Seen
        /\ writer[v].pc \in {"indexed", "auditing"} => writer[v].ulid \in Kept
        /\ writer[v].pc = "auditing" => writer[v].record \in Seen
    BY Zenon DEF WritersSound, OnItsWay, Fresh
  <2>2. writer[v].pc = "minted" => writer[v].pc # "idle"
    OBVIOUS
  <2>3. writer[v].pc # "idle" => writer[v].ulid \notin refused'
    BY ONLY <1>u, <2>1
  <2>4. writer[v].pc = "minted" => writer[v].ulid \notin Seen'
    BY ONLY <1>u, <2>1, <2>2
  <2> QED BY <1>u, <1>g, <2>1, <2>2, <2>3, <2>4, Zenon DEF OnItsWay, Fresh
<1>i. ASSUME NEW v \in Writer, writer'[v] = IdleWriter PROVE OnItsWay(v)'
  BY <1>i DEF OnItsWay, IdleWriter
<1> SUFFICES ASSUME NEW v \in Writer PROVE OnItsWay(v)'
  BY DEF WritersSound
<1>1. ASSUME NEW w \in Writer, Mint(w) PROVE OnItsWay(v)'
  <2>1. CASE v = w
    <3>1. /\ writer'[v].pc = "minted" /\ writer'[v].ulid = minted + 1
          /\ minted' = minted + 1 /\ refused' = refused /\ Seen' = Seen
      BY <1>1, <2>1 DEF Mint, TypeOK, Seen
    <3> QED BY <3>1, <1>a, <1>s DEF OnItsWay, Fresh
  <2>2. CASE v # w
    <3>1. writer'[v] = writer[v] /\ refused' = refused /\ Seen' = Seen
      BY <1>1, <2>2 DEF Mint, TypeOK, Seen
    <3> QED BY <3>1, <1>u
  <2> QED BY <2>1, <2>2
<1>2. ASSUME NEW w \in Writer, StoreFile(w) PROVE OnItsWay(v)'
  <2>1. /\ refused' = refused /\ Seen' = Seen \cup {writer[w].ulid}
        /\ writer[w].pc = "minted"
    BY <1>2 DEF StoreFile, Seen
  <2>2. CASE v = w
    <3>1. writer'[v].pc = "stored" /\ writer'[v].ulid = writer[v].ulid
      BY <1>2, <2>2 DEF StoreFile, TypeOK
    <3> QED BY <2>1, <2>2, <3>1, <1>g DEF WritersSound, OnItsWay
  <2>3. CASE v # w
    <3>1. writer'[v] = writer[v]
      BY <1>2, <2>3 DEF StoreFile, TypeOK
    <3>2. writer[v].pc # "idle" => writer[v].ulid # writer[w].ulid
      BY <2>1, <2>3 DEF Distinct
    <3> QED BY <2>1, <3>1, <3>2, <1>u
  <2> QED BY <2>2, <2>3
<1>3. ASSUME NEW w \in Writer, StoreFails(w) \/ InsertFails(w) PROVE OnItsWay(v)'
  <2>1. /\ refused' = refused \cup {writer[w].ulid} /\ Seen' = Seen
        /\ writer[w].pc # "idle"
    BY <1>3 DEF StoreFails, InsertFails, Seen
  <2>2. CASE v = w
    BY <1>3, <2>2, <1>i DEF StoreFails, InsertFails, TypeOK
  <2>3. CASE v # w
    <3>1. writer'[v] = writer[v]
      BY <1>3, <2>3 DEF StoreFails, InsertFails, TypeOK
    <3>2. writer[v].pc # "idle" => writer[v].ulid # writer[w].ulid
      BY <2>1, <2>3 DEF Distinct
    <3> QED BY <2>1, <3>1, <3>2, <1>u
  <2> QED BY <2>2, <2>3
<1>4. ASSUME NEW w \in Writer, InsertRow(w) PROVE OnItsWay(v)'
  <2>1. refused' = refused /\ Seen' = Seen
    BY <1>4 DEF InsertRow, Seen
  <2>2. CASE v # w
    <3>1. writer'[v] = writer[v]
      BY <1>4, <2>2 DEF InsertRow, TypeOK
    <3> QED BY <2>1, <3>1, <1>u
  <2>3. CASE v = w /\ writer[w].audits
    <3>1. writer'[v].pc = "indexed" /\ writer'[v].ulid = writer[v].ulid
      BY <1>4, <2>3 DEF InsertRow, TypeOK
    <3>2. writer[v].ulid \in Seen /\ writer[v].ulid \in 1 .. minted \ refused
      BY <1>4, <2>3 DEF InsertRow, WritersSound, OnItsWay
    <3>3. writer[v].ulid \in Kept'
      BY <1>4, <2>3, <3>2, Zenon DEF InsertRow, Seen, Kept
    <3> QED BY <2>1, <3>1, <3>2, <3>3, <1>g DEF OnItsWay
  <2>4. CASE v = w /\ ~writer[w].audits
    BY <1>4, <2>4, <1>i DEF InsertRow, TypeOK
  <2> QED BY <2>2, <2>3, <2>4
<1>5. ASSUME NEW w \in Writer, StoreAudit(w) PROVE OnItsWay(v)'
  <2>1. refused' = refused /\ Seen' = Seen \cup {minted + 1}
    BY <1>5 DEF StoreAudit, Seen
  <2>2. CASE v # w
    <3>1. writer'[v] = writer[v]
      BY <1>5, <2>2 DEF StoreAudit, TypeOK
    <3>2. writer[v].pc # "idle" => writer[v].ulid # minted + 1
      BY <1>a DEF WritersSound, OnItsWay
    <3> QED BY <2>1, <3>1, <3>2, <1>u
  <2>3. CASE v = w
    <3>1. /\ writer'[v].pc = "auditing" /\ writer'[v].ulid = writer[v].ulid
          /\ writer'[v].record = minted + 1
      BY <1>5, <2>3 DEF StoreAudit, TypeOK
    <3>2. writer[v].ulid \in Kept /\ writer[v].ulid \in 1 .. minted \ refused
      BY <1>5, <2>3 DEF StoreAudit, WritersSound, OnItsWay
    <3> QED BY <2>1, <3>1, <3>2, <1>g DEF OnItsWay
  <2> QED BY <2>2, <2>3
<1>6. ASSUME NEW w \in Writer, InsertAudit(w) \/ AuditFails(w) \/ WriterCrash(w)
      PROVE  OnItsWay(v)'
  <2>1. refused' = refused /\ Seen' = Seen
    BY <1>6 DEF InsertAudit, AuditFails, WriterCrash, Seen
  <2>2. CASE v = w
    BY <1>6, <2>2, <1>i DEF InsertAudit, AuditFails, WriterCrash, TypeOK
  <2>3. CASE v # w
    <3>1. writer'[v] = writer[v]
      BY <1>6, <2>3 DEF InsertAudit, AuditFails, WriterCrash, TypeOK
    <3> QED BY <2>1, <3>1, <1>u
  <2> QED BY <2>2, <2>3
<1>7. CASE RemoveFile
  <2>1. Seen' \subseteq Seen
    BY <1>7, Zenon DEF RemoveFile, Seen, PassesSound
  <2> QED BY <1>7, <2>1, <1>u DEF RemoveFile
<1>8. CASE UNCHANGED <<writer, refused, file, reaped>>
  BY <1>8, <1>u DEF Seen
<1>9. \/ \E w \in Writer : Write(w)
      \/ RemoveFile
      \/ UNCHANGED <<writer, refused, file, reaped>>
  BY DEF Next, vars, Retain, RepairStep, SelectVictims, RemoveRow, ReaperStops,
     ReadIndex, WalkSpool, RereadFile, Reindex, PruneRow, FinishRepair, RepairStops, Poll
<1> QED BY <1>1, <1>2, <1>3, <1>4, <1>5, <1>6, <1>7, <1>8, <1>9 DEF Write

LEMMA DistinctStep ==
  ASSUME Sound, Distinct, [Next]_vars
  PROVE  Distinct'
<1> USE DEF Sound, store, readers, answers
<1>a. minted \in Nat /\ minted + 1 \notin 1 .. minted
  BY DEF TypeOK
<1>1. ASSUME NEW w \in Writer, Mint(w) PROVE Distinct'
  <2>1. /\ writer'[w].ulid = minted + 1
        /\ \A v \in Writer : v # w => writer'[v] = writer[v]
    BY <1>1 DEF Mint, TypeOK
  <2>2. \A v \in Writer : writer[v].pc # "idle" => writer[v].ulid # minted + 1
    BY <1>a DEF WritersSound, OnItsWay
  <2> QED BY <2>1, <2>2, Zenon DEF Distinct
\* every other step lets a write go on with its ULID, or end
<1>2. ASSUME \A w \in Writer : \/ writer'[w].pc = "idle"
                               \/ /\ writer[w].pc # "idle"
                                  /\ writer'[w].ulid = writer[w].ulid
      PROVE  Distinct'
  BY <1>2, Zenon DEF Distinct
<1>3. ASSUME NEW w \in Writer, StoreFile(w) \/ StoreAudit(w) PROVE Distinct'
  <2>1. \A v \in Writer : v # w => writer'[v] = writer[v]
    BY <1>3 DEF StoreFile, StoreAudit, TypeOK
  <2>2. writer[w].pc # "idle" /\ writer'[w].ulid = writer[w].ulid
    BY <1>3 DEF StoreFile, StoreAudit, TypeOK
  <2> QED BY <1>2, <2>1, <2>2
<1>4. ASSUME NEW w \in Writer, InsertRow(w) PROVE Distinct'
  <2>1. \A v \in Writer : v # w => writer'[v] = writer[v]
    BY <1>4 DEF InsertRow, TypeOK
  <2>2. \/ writer'[w].pc = "idle"
        \/ writer[w].pc # "idle" /\ writer'[w].ulid = writer[w].ulid
    BY <1>4 DEF InsertRow, TypeOK, IdleWriter
  <2> QED BY <1>2, <2>1, <2>2
<1>5. ASSUME NEW w \in Writer, writer' = [writer EXCEPT ![w] = IdleWriter]
      PROVE  Distinct'
  <2>1. \A v \in Writer : writer'[v].pc = "idle" \/ writer'[v] = writer[v]
    BY <1>5 DEF TypeOK, IdleWriter
  <2> QED BY <1>2, <2>1
<1>6. CASE UNCHANGED writer
  BY <1>2, <1>6
<1>7. \/ \E w \in Writer : \/ Mint(w) \/ StoreFile(w) \/ StoreAudit(w)
                             \/ InsertRow(w)
                             \/ writer' = [writer EXCEPT ![w] = IdleWriter]
      \/ UNCHANGED writer
  BY DEF Next, vars, Write, Retain, RepairStep, StoreFails,
     InsertFails, InsertAudit, AuditFails, WriterCrash,
     SelectVictims, RemoveFile, RemoveRow, ReaperStops, ReadIndex, WalkSpool,
     RereadFile, Reindex, PruneRow, FinishRepair, RepairStops, Poll
<1> QED BY <1>1, <1>3, <1>4, <1>5, <1>6, <1>7

LEMMA AuditStep ==
  ASSUME Sound, Distinct, AuditSound, [Next]_vars
  PROVE  AuditSound'
<1> USE DEF Sound, store, readers, answers
<1>a. /\ minted \in Nat /\ None \notin Ulid /\ None # minted + 1
      /\ minted + 1 \notin 1 .. minted
  BY DEF TypeOK, Ulid, None
<1>g. 1 .. minted \subseteq (1 .. minted)'
  BY Grows
<1>1. ASSUME NEW w \in Writer, Mint(w) PROVE AuditSound'
  <2>1. /\ writer'[w].ulid = minted + 1
        /\ \A v \in Writer : v # w => writer'[v] = writer[v]
        /\ UNCHANGED <<auditOf, refused>>
    BY <1>1 DEF Mint, TypeOK
  <2>2. \A a \in Ulid : auditOf[a] # minted + 1
    BY <1>a DEF AuditSound
  <2> QED BY <1>g, <2>1, <2>2, Zenon DEF AuditSound
\* the steps that write no record and refuse none that a record is about
<1>2. ASSUME UNCHANGED auditOf,
             \A a \in Ulid : auditOf[a] \notin refused' \ refused,
             \A w \in Writer : \/ writer'[w].pc \notin {"minted", "stored"}
                               \/ /\ writer[w].pc \in {"minted", "stored"}
                                  /\ writer'[w].ulid = writer[w].ulid
      PROVE  AuditSound'
  BY <1>2, <1>g, Zenon DEF AuditSound
<1>3. ASSUME NEW w \in Writer, StoreFile(w) PROVE AuditSound'
  <2>1. /\ writer[w].pc = "minted" /\ writer'[w].ulid = writer[w].ulid
        /\ \A v \in Writer : v # w => writer'[v] = writer[v]
    BY <1>3 DEF StoreFile, TypeOK
  <2>2. UNCHANGED <<auditOf, refused>>
    BY <1>3 DEF StoreFile
  <2> QED BY <1>2, <2>1, <2>2
<1>4. ASSUME NEW w \in Writer, InsertRow(w) PROVE AuditSound'
  <2>1. /\ writer'[w].pc \notin {"minted", "stored"}
        /\ \A v \in Writer : v # w => writer'[v] = writer[v]
    BY <1>4 DEF InsertRow, TypeOK, IdleWriter
  <2>2. UNCHANGED <<auditOf, refused>>
    BY <1>4 DEF InsertRow
  <2> QED BY <1>2, <2>1, <2>2
<1>5. ASSUME NEW w \in Writer, StoreAudit(w) PROVE AuditSound'
  <2>1. /\ writer'[w].pc = "auditing" /\ writer[w].pc = "indexed"
        /\ \A v \in Writer : v # w => writer'[v] = writer[v]
    BY <1>5 DEF StoreAudit, TypeOK
  <2>2. /\ refused' = refused
        /\ \A a \in Ulid : auditOf'[a] \in {auditOf[a], writer[w].ulid}
    BY <1>5 DEF StoreAudit, TypeOK
  <2>3. writer[w].ulid \in (1 .. minted) \ refused
    BY <2>1 DEF WritersSound, OnItsWay
  <2>4. \A v \in Writer : writer'[v].pc \in {"minted", "stored"} =>
                            v # w /\ writer'[v] = writer[v]
    BY <2>1
  <2>5. \A v \in Writer : writer'[v].pc \in {"minted", "stored"} =>
                            writer'[v].ulid # writer[w].ulid
    BY <2>1, <2>4 DEF Distinct
  <2>6. ASSUME NEW a \in Ulid
        PROVE  /\ auditOf'[a] \in {None} \cup (1 .. minted)'
               /\ auditOf'[a] \notin refused'
               /\ \A v \in Writer :
                    writer'[v].pc \in {"minted", "stored"} => auditOf'[a] # writer'[v].ulid
    <3>1. CASE auditOf'[a] = auditOf[a]
      BY <3>1, <1>g, <2>2, <2>4, Zenon DEF AuditSound
    <3>2. CASE auditOf'[a] = writer[w].ulid
      BY <3>2, <1>g, <2>2, <2>3, <2>5, Zenon
    <3> QED BY <2>2, <3>1, <3>2
  <2> QED BY <2>6, Zenon DEF AuditSound
<1>6. ASSUME NEW w \in Writer, writer' = [writer EXCEPT ![w] = IdleWriter],
             UNCHANGED auditOf,
             \/ UNCHANGED refused
             \/ /\ refused' = refused \cup {writer[w].ulid}
                /\ writer[w].pc \in {"minted", "stored"}
      PROVE  AuditSound'
  <2>1. \A v \in Writer : writer'[v].pc = "idle" \/ writer'[v] = writer[v]
    BY <1>6 DEF TypeOK, IdleWriter
  <2>2. \A a \in Ulid : auditOf[a] \notin refused' \ refused
    BY <1>6 DEF AuditSound
  <2> QED BY <1>2, <1>6, <2>1, <2>2
<1>7. CASE UNCHANGED <<writer, auditOf, refused>>
  BY <1>2, <1>7
<1>8. \/ \E w \in Writer :
           \/ Mint(w) \/ StoreFile(w) \/ StoreAudit(w) \/ InsertRow(w)
           \/ /\ writer' = [writer EXCEPT ![w] = IdleWriter]
              /\ UNCHANGED auditOf
              /\ \/ UNCHANGED refused
                 \/ /\ refused' = refused \cup {writer[w].ulid}
                    /\ writer[w].pc \in {"minted", "stored"}
      \/ UNCHANGED <<writer, auditOf, refused>>
  BY DEF Next, vars, Write, Retain, RepairStep, StoreFails,
     InsertFails, InsertAudit, AuditFails, WriterCrash,
     SelectVictims, RemoveFile, RemoveRow, ReaperStops, ReadIndex, WalkSpool,
     RereadFile, Reindex, PruneRow, FinishRepair, RepairStops, Poll
<1> QED BY <1>1, <1>3, <1>4, <1>5, <1>6, <1>7, <1>8

-----------------------------------------------------------------------------
(* The theorems. *)

LEMMA Invariance == Spec => []Strong
<1>1. Init => Strong
  <2> SUFFICES ASSUME Init PROVE Strong
    OBVIOUS
  <2> USE DEF Init, IdleWriter, IdleReaper, IdleRepair
  <2>1. TypeOK
    <3>1. minted \in 0 .. MaxUlid
      BY MaxUlidAssumption
    <3>2. writer \in [Writer -> [pc : {"idle", "minted", "stored", "indexed",
                                     "auditing"},
                                ulid : Ulid \cup {None}, audits : BOOLEAN,
                                record : Ulid \cup {None}]]
      OBVIOUS
    <3>3. /\ reaper \in [pc : {"idle", "file", "row"}, victims : SUBSET Ulid,
                         at : Ulid \cup {None}]
          /\ repair \in [pc : {"idle", "walk", "reindex", "insert", "done"},
                         prune : BOOLEAN, indexed : SUBSET Ulid,
                         unread : SUBSET Ulid, todo : SUBSET Ulid,
                         missing : SUBSET Ulid,
                         at : Ulid \cup {None}]
      OBVIOUS
    <3>4. /\ auditOf \in [Ulid -> Ulid \cup {None}]
          /\ cursor \in [Consumer -> Ulid \cup {None}]
          /\ handled \in [Consumer -> [Ulid -> Nat]]
      OBVIOUS
    <3> QED BY <3>1, <3>2, <3>3, <3>4 DEF TypeOK
  <2>2. SpoolSound /\ WritersSound /\ Distinct /\ PassesSound /\ AckedIsKept
    BY DEF SpoolSound, WritersSound, OnItsWay, Distinct, PassesSound, AckedIsKept, Seen
  <2>3. AuditSound
    BY DEF AuditSound
  <2> QED BY <2>1, <2>2, <2>3 DEF Strong
<1>2. Strong /\ [Next]_vars => Strong'
  <2> SUFFICES ASSUME Strong, [Next]_vars PROVE Strong'
    OBVIOUS
  <2>1. Sound /\ Distinct /\ AuditSound /\ AckedIsKept
    BY DEF Strong, Sound
  <2>2. TypeOK'
    BY <2>1, TypeStep DEF Sound
  <2> QED BY <2>1, <2>2, SpoolStep, WritersStep, DistinctStep, PassesStep,
             AuditStep, AckedStep DEF Strong
<1> QED BY <1>1, <1>2, PTL DEF Spec

\* Every variable keeps its type, whatever the interleaving of clients.
THEOREM StoreTypeCorrect == Spec => []TypeOK
<1>1. Strong => TypeOK
  BY DEF Strong
<1> QED BY Invariance, <1>1, PTL

\* A message whose write was answered Ok (persist.rs, write_full) keeps its file
\* and its row until retention deletes it, in spite of every other writer, repair
\* and crash, and no audit record is about a write that was answered Err.
THEOREM AnswersStayTrue == Spec => []AnswersHold
<1>1. Strong => AckedIsKept
  BY DEF Strong
<1>2. Strong => NoAuditOfRefused
  BY Zenon DEF Strong, TypeOK, AuditSound, NoAuditOfRefused
<1>3. Strong => AnswersHold
  BY <1>1, <1>2 DEF AnswersHold
<1> QED BY Invariance, <1>3, PTL

\* A file that retention has not deleted still has its row (retention.rs, the
\* delete loop), so that a later pass can find it.
THEOREM RetentionLeaksNothing == Spec => []NoLeakedFile
<1>1. Strong => NoLeakedFile
  BY Zenon DEF Strong, AckedIsKept, SpoolSound, NoLeakedFile
<1> QED BY Invariance, <1>1, PTL

-----------------------------------------------------------------------------
(* Consumers. *)

\* A message beyond a consumer's cursor has not been handed to it.
CursorSound ==
  \A c \in Consumer, u \in Ulid : u > cursor[c] => handled[c][u] = 0

LEMMA CursorStep ==
  ASSUME TypeOK, CursorSound, AtMostOnce, [Next]_vars
  PROVE  CursorSound' /\ AtMostOnce'
<1>1. ASSUME NEW c \in Consumer, Poll(c) PROVE CursorSound' /\ AtMostOnce'
  <2>1. PICK last \in Newer(c) : /\ \A u \in Newer(c) : u <= last
                                 /\ cursor' = [cursor EXCEPT ![c] = last]
    BY <1>1 DEF Poll
  <2>2. handled' = [handled EXCEPT ![c] =
                      [u \in Ulid |-> IF u \in Newer(c) THEN handled[c][u] + 1
                                      ELSE handled[c][u]]]
    BY <1>1 DEF Poll
  <2> SUFFICES ASSUME NEW d \in Consumer, NEW u \in Ulid
               PROVE  /\ u > cursor'[d] => handled'[d][u] = 0
                      /\ handled'[d][u] <= 1
    BY Zenon DEF CursorSound, AtMostOnce
  <2>3. CASE d # c
    <3>1. cursor'[d] = cursor[d] /\ handled'[d] = handled[d]
      BY <2>1, <2>2, <2>3 DEF TypeOK
    <3> QED BY <3>1 DEF CursorSound, AtMostOnce
  <2>4. CASE d = c
    <3>1. /\ cursor'[d] = last
          /\ handled'[d][u] = IF u \in Newer(c) THEN handled[c][u] + 1
                              ELSE handled[c][u]
      BY <2>1, <2>2, <2>4 DEF TypeOK
    <3>2. u \in Newer(c) => handled[c][u] = 0 /\ u <= last
      BY <2>1 DEF CursorSound, Newer
    <3>3. last > cursor[c] /\ last \in Nat /\ cursor[c] \in Nat /\ u \in Nat
      BY <2>1, MaxUlidAssumption DEF Newer, TypeOK, Ulid, None
    <3>4. handled[c][u] <= 1 /\ (u > cursor[c] => handled[c][u] = 0)
      BY DEF CursorSound, AtMostOnce
    <3>5. u > last => u > cursor[c]
      BY <3>3
    <3>6. u > last => u \notin Newer(c)
      BY <3>2, <3>3
    <3> HIDE DEF Newer
    <3> QED BY <3>1, <3>2, <3>4, <3>5, <3>6, <2>4
  <2> QED BY <2>3, <2>4
<1>2. CASE UNCHANGED readers
  BY <1>2 DEF readers, CursorSound, AtMostOnce
<1>3. UNCHANGED readers \/ \E c \in Consumer : Poll(c)
  BY DEF Next, vars, Write, Retain, RepairStep, Mint, StoreFile, StoreFails,
     InsertRow, InsertFails, StoreAudit, InsertAudit, AuditFails, WriterCrash,
     SelectVictims, RemoveFile, RemoveRow, ReaperStops, ReadIndex, WalkSpool,
     RereadFile, Reindex, PruneRow, FinishRepair, RepairStops
<1> QED BY <1>1, <1>2, <1>3

\* A consumer is handed no message twice (persist.rs, list_since), in whatever
\* order writers insert and whatever retention and repairs do to the index.
THEOREM HandedAtMostOnce == Spec => []AtMostOnce
<1>1. Init => CursorSound /\ AtMostOnce
  BY DEF Init, CursorSound, AtMostOnce
<1>2. TypeOK /\ CursorSound /\ AtMostOnce /\ [Next]_vars
        => (CursorSound /\ AtMostOnce)'
  BY CursorStep
<1> QED BY <1>1, <1>2, StoreTypeCorrect, PTL DEF Spec

-----------------------------------------------------------------------------
(* Repairs. *)

\* What an undisturbed repair knows of the store at each of its steps.
RepairSound ==
  calm =>
    /\ repair.pc = "walk" =>
         /\ repair.indexed = row
         /\ repair.todo = (file \ row) \ repair.unread
         /\ repair.missing = (row \ file) \ repair.unread
    /\ repair.pc \in {"reindex", "insert"} =>
         /\ repair.todo = file \ row
         /\ row \ file \subseteq repair.missing
         /\ repair.missing \cap file = {}
    /\ repair.pc = "insert" => repair.at \in repair.todo
    /\ repair.pc = "done" => file \subseteq row /\ (repair.prune => row = file)

LEMMA RepairSoundStep ==
  ASSUME TypeOK, RepairSound, [Next]_vars
  PROVE  RepairSound'
<1> USE DEF store, readers, answers
<1>1. CASE calm' = FALSE
  BY <1>1 DEF RepairSound
<1>2. CASE UNCHANGED <<file, row, repair, calm>>
  BY <1>2 DEF RepairSound
<1>3. CASE ReadIndex
  <2>1. /\ repair'.pc = "walk" /\ repair'.indexed = row /\ repair'.todo = {}
        /\ repair'.missing = {} /\ repair'.unread = Ulid
        /\ UNCHANGED <<file, row>>
    BY <1>3 DEF ReadIndex, IdleRepair
  <2>2. (file \ row) \ Ulid = {} /\ (row \ file) \ Ulid = {}
    BY Zenon DEF TypeOK
  <2> QED BY <2>1, <2>2 DEF RepairSound
<1>4. CASE WalkSpool
  <2>1. PICK u \in repair.unread :
          repair' = [repair EXCEPT
            !.pc = IF repair.unread \ {u} = {} THEN "reindex" ELSE "walk",
            !.unread = repair.unread \ {u},
            !.todo = repair.todo \cup ({u} \cap (file \ repair.indexed)),
            !.missing = repair.missing \cup ({u} \cap (repair.indexed \ file))]
    BY <1>4 DEF WalkSpool
  <2>2. /\ repair'.pc = (IF repair.unread \ {u} = {} THEN "reindex" ELSE "walk")
        /\ repair'.unread = repair.unread \ {u} /\ repair'.indexed = repair.indexed
        /\ repair'.todo = repair.todo \cup ({u} \cap (file \ repair.indexed))
        /\ repair'.missing = repair.missing \cup ({u} \cap (repair.indexed \ file))
    BY <2>1 DEF TypeOK
  <2>3. repair.pc = "walk" /\ UNCHANGED <<file, row, calm>>
    BY <1>4 DEF WalkSpool
  <2>4. ASSUME calm
        PROVE  /\ repair'.indexed = row
               /\ repair'.todo = (file \ row) \ repair'.unread
               /\ repair'.missing = (row \ file) \ repair'.unread
    BY <2>2, <2>3, <2>4 DEF RepairSound
  <2>5. repair'.pc = "reindex" => repair'.unread = {}
    BY <2>2
  <2>6. repair'.pc \in {"walk", "reindex"}
    BY <2>2
  <2> QED BY <2>3, <2>4, <2>5, <2>6 DEF RepairSound
<1>5. CASE RereadFile
  <2>1. PICK u \in repair.todo :
          repair' = IF u \in file THEN [repair EXCEPT !.pc = "insert", !.at = u]
                    ELSE IdleRepair
    BY <1>5 DEF RereadFile
  <2>2. repair.pc = "reindex" /\ UNCHANGED <<file, row, calm>>
    BY <1>5 DEF RereadFile
  <2>3. CASE repair' = IdleRepair
    BY <2>3 DEF RepairSound, IdleRepair
  <2>4. CASE repair' = [repair EXCEPT !.pc = "insert", !.at = u]
    <3>1. /\ repair'.pc = "insert" /\ repair'.at = u /\ repair'.todo = repair.todo
          /\ repair'.missing = repair.missing
      BY <2>4 DEF TypeOK
    <3> QED BY <2>2, <3>1 DEF RepairSound
  <2> QED BY <2>1, <2>3, <2>4
<1>6. CASE Reindex
  <2>1. /\ repair'.pc = "reindex" /\ repair'.todo = repair.todo \ {repair.at}
        /\ repair'.missing = repair.missing /\ repair.pc = "insert"
        /\ row' = row \cup {repair.at} /\ UNCHANGED <<file, calm>>
    BY <1>6 DEF Reindex, TypeOK
  <2>2. ASSUME calm
        PROVE  /\ repair'.todo = file \ row'
               /\ row' \ file \subseteq repair.missing
               /\ repair.missing \cap file = {}
    BY <2>1, <2>2 DEF RepairSound
  <2> QED BY <2>1, <2>2 DEF RepairSound
<1>7. CASE FinishRepair
  <2>1. /\ repair'.pc = "done" /\ repair'.prune = repair.prune /\ repair.todo = {}
        /\ repair.prune => repair.missing = {}
        /\ repair.pc = "reindex" /\ UNCHANGED <<file, row, calm>>
    BY <1>7 DEF FinishRepair, TypeOK, store
  <2>2. ASSUME calm PROVE file \subseteq row /\ (repair.prune => row = file)
    <3>1. file \subseteq row /\ row \ file \subseteq repair.missing
      BY <2>1, <2>2 DEF RepairSound
    <3> QED BY <2>1, <3>1
  <2> QED BY <2>1, <2>2 DEF RepairSound
<1>10. CASE PruneRow
  <2>1. PICK u \in repair.missing :
          /\ row' = row \ {u}
          /\ repair' = [repair EXCEPT !.missing = repair.missing \ {u}]
    BY <1>10 DEF PruneRow
  <2>2. /\ repair'.pc = "reindex" /\ repair.pc = "reindex"
        /\ repair'.todo = repair.todo /\ repair'.missing = repair.missing \ {u}
        /\ row' = row \ {u} /\ UNCHANGED <<file, calm>>
    BY <1>10, <2>1 DEF PruneRow, TypeOK
  <2>3. ASSUME calm
        PROVE  /\ repair'.todo = file \ row'
               /\ row' \ file \subseteq repair'.missing
               /\ repair'.missing \cap file = {}
    <3>1. /\ repair.todo = file \ row /\ row \ file \subseteq repair.missing
          /\ repair.missing \cap file = {}
      BY <2>2, <2>3 DEF RepairSound
    <3> QED BY <2>2, <3>1, Zenon
  <2> QED BY <2>2, <2>3 DEF RepairSound
<1>8. CASE RepairStops
  BY <1>8 DEF RepairStops, RepairSound, IdleRepair
<1>9. \/ calm' = FALSE \/ UNCHANGED <<file, row, repair, calm>>
      \/ ReadIndex \/ WalkSpool \/ RereadFile \/ Reindex \/ PruneRow
      \/ FinishRepair \/ RepairStops
  BY DEF Next, vars, Write, Retain, RepairStep, Mint, StoreFile, StoreFails,
     InsertRow, InsertFails, StoreAudit, InsertAudit, AuditFails, WriterCrash,
     SelectVictims, RemoveFile, RemoveRow, ReaperStops, Poll
<1> QED BY <1>1, <1>2, <1>3, <1>4, <1>5, <1>6, <1>7, <1>8, <1>9, <1>10

\* A repair that nobody disturbed ends with every file indexed and, when it prunes,
\* with the index equal to the spool (persist.rs, repair_divergence).
THEOREM RepairsConverge == Spec => []RepairConverges
<1>1. Init => RepairSound
  BY DEF Init, RepairSound
<1>2. TypeOK /\ RepairSound /\ [Next]_vars => RepairSound'
  BY RepairSoundStep
<1>3. RepairSound => RepairConverges
  BY DEF RepairSound, RepairConverges
<1> QED BY <1>1, <1>2, <1>3, StoreTypeCorrect, PTL DEF Spec

(***************************************************************************)
(* Retention: the arithmetic of the pressure guards.                       *)
(***************************************************************************)

\* The use at which pressure starts, and to which the guards mean to return.
TripPoint(total) == (total * FillPct) \div 100

LEMMA TripPointIsNat == ASSUME NEW total \in Nat PROVE TripPoint(total) \in Nat
  BY DEF TripPoint, FillPct

LEMMA CapIsNat ==
  ASSUME NEW configured \in Nat, NEW footprint \in Nat,
         NEW total \in Nat, NEW free \in Nat
  PROVE  /\ Reclaim(total, free) \in Nat
         /\ Used(total, free) \in Nat
         /\ EffectiveCap(configured, footprint, total, free) \in Nat
<1>1. Used(total, free) \in Nat
  BY DEF Used, Minus
<1>2. Reclaim(total, free) \in Nat
  <2> HIDE DEF Used
  <2> QED BY <1>1, TripPointIsNat DEF Reclaim, Minus, TripPoint
<1>3. EffectiveCap(configured, footprint, total, free) \in Nat
  <2> HIDE DEF Reclaim, Pressure
  <2> QED BY <1>2 DEF EffectiveCap, Least, Minus
<1> QED BY <1>1, <1>2, <1>3

\* Pressure never raises a cap above the configured one, whatever df reports
\* (retention.rs, fs_pressure_hard_cap and inode_pressure_file_cap).
THEOREM CapNeverRaised ==
  ASSUME NEW configured \in Nat, NEW footprint \in Nat,
         NEW total \in Nat, NEW free \in Nat
  PROVE  EffectiveCap(configured, footprint, total, free) <= configured
<1> HIDE DEF Reclaim, Pressure
<1> QED BY CapIsNat DEF EffectiveCap, Least, Minus

\* Under pressure, a bus that sheds what it has beyond the lowered cap brings the
\* file system back to the trip point, unless it has then nothing left: the cap
\* takes the overshoot of all of the tmpfs off the footprint of the bus alone.
THEOREM PressureRelieved ==
  ASSUME NEW configured \in Nat, NEW footprint \in Nat,
         NEW total \in Nat, NEW free \in Nat,
         Pressure(total, free),
         footprint <= Used(total, free),
         NEW left \in Nat,
         left <= EffectiveCap(configured, footprint, total, free),
         left <= footprint
  PROVE  \/ Used(total, free) - (footprint - left) <= TripPoint(total)
         \/ left = 0
<1> DEFINE used == Used(total, free)
           trip == TripPoint(total)
           reclaim == Reclaim(total, free)
<1>1. used \in Nat /\ reclaim \in Nat /\ trip \in Nat
  BY CapIsNat, TripPointIsNat
<1>2. left <= Minus(footprint, reclaim)
  <2>1. EffectiveCap(configured, footprint, total, free)
          = Least(Minus(footprint, reclaim), configured)
    BY DEF EffectiveCap
  <2>2. Minus(footprint, reclaim) \in Nat
    <3> HIDE DEF reclaim
    <3> QED BY <1>1 DEF Minus
  <2> HIDE DEF reclaim
  <2> QED BY <2>1, <2>2 DEF Least
<1>3. reclaim = IF used > trip THEN used - trip ELSE 0
  BY DEF Reclaim, Minus, TripPoint
<1> HIDE DEF used, trip, reclaim
<1>4. used - (footprint - left) <= trip \/ left = 0
  BY <1>1, <1>2, <1>3 DEF Minus
<1> QED BY <1>4 DEF used, trip
(***************************************************************************)
(* What a retention pass keeps.                                            *)
(***************************************************************************)

\* A set of messages as a pass meets it: finite, typed, each message once.
Messages == [id : Nat, topic : {k.topic : k \in Kinds},
             pri : {k.pri : k \in Kinds}, size : Nat, ts : Nat]

Spools(S) ==
  /\ IsFiniteSet(S) /\ S \subseteq Messages
  /\ \A m, n \in S : m.id = n.id => m = n

LEMMA PartOfSpool ==
  ASSUME NEW S, Spools(S), NEW T \in SUBSET S
  PROVE  Spools(T)
BY FS_Subset DEF Spools

\* Two messages are written one after the other, and evicted so.
LEMMA OlderOrders ==
  ASSUME NEW S, Spools(S), NEW m \in S, NEW n \in S, NEW o \in S
  PROVE  /\ ~Older(m, m)
         /\ m # n => Older(m, n) \/ Older(n, m)
         /\ Older(m, n) /\ Older(n, o) => Older(m, o)
<1>1. /\ m.ts \in Nat /\ n.ts \in Nat /\ o.ts \in Nat
      /\ m.id \in Nat /\ n.id \in Nat /\ o.id \in Nat
  BY DEF Spools, Messages
<1>2. m # n => m.id # n.id
  BY DEF Spools
<1> QED BY <1>1, <1>2 DEF Older

LEMMA SoonerOrders ==
  ASSUME NEW S, Spools(S), NEW m \in S, NEW n \in S, NEW o \in S
  PROVE  /\ ~Sooner(m, m)
         /\ Sooner(m, n) /\ Sooner(n, o) => Sooner(m, o)
BY OlderOrders DEF Sooner

\* Of the numbers a function takes on a set, one is the smallest.
LEMMA Smallest ==
  ASSUME NEW S, NEW f \in [S -> Nat], S # {}
  PROVE  \E x \in S : \A y \in S : f[x] <= f[y]
<1> DEFINE R == OpToRel(<, Nat)
           T == {f[x] : x \in S}
<1>1. IsWellFoundedOn(R, Nat)
  BY NatLessThanWellFounded
<1>2. \A i, j \in Nat : <<i, j>> \in R <=> i < j
  BY DEF OpToRel
<1>3. T \subseteq Nat /\ T # {}
  OBVIOUS
<1> HIDE DEF R
<1>4. \E i \in T : \A j \in T : ~(<<j, i>> \in R)
  <2> HIDE DEF T
  <2> QED BY <1>1, <1>3, WFMin
<1>5. PICK x \in S : \A j \in T : ~(<<j, f[x]>> \in R)
  BY <1>4
<1>6. \A y \in S : f[y] \in T /\ f[y] \in Nat
  OBVIOUS
<1> HIDE DEF T
<1>7. \A y \in S : f[x] \in Nat /\ f[y] \in Nat /\ ~(f[y] < f[x])
  BY <1>2, <1>5, <1>6
<1>8. \A y \in S : f[x] <= f[y]
  BY <1>7
<1> QED BY <1>8

\* Of finitely many things in an order one is first.
LEMMA SomeFirst ==
  ASSUME NEW L, IsFiniteSet(L), L # {}, NEW R,
         \A m \in L : <<m, m>> \notin R,
         \A m, n, o \in L : <<m, n>> \in R /\ <<n, o>> \in R => <<m, o>> \in R
  PROVE  \E m \in L : \A n \in L : <<n, m>> \notin R
<1> DEFINE Before(m) == {n \in L : <<n, m>> \in R}
           rank == [m \in L |-> Cardinality(Before(m))]
<1>1. \A m \in L : IsFiniteSet(Before(m)) /\ Cardinality(Before(m)) \in Nat
  BY FS_Subset, FS_CardinalityType
<1>2. rank \in [L -> Nat]
  <2> HIDE DEF Before
  <2> QED BY <1>1
<1>3. PICK m \in L : \A n \in L : rank[m] <= rank[n]
  <2> HIDE DEF rank
  <2> QED BY <1>2, Smallest
<1>4. ASSUME NEW n \in L, <<n, m>> \in R PROVE FALSE
  <2>1. /\ Before(n) \in SUBSET Before(m)
        /\ n \in Before(m) /\ n \notin Before(n)
    BY <1>4
  <2> HIDE DEF Before
  <2>2. Before(n) # Before(m)
    BY <2>1
  <2>3. Cardinality(Before(n)) < Cardinality(Before(m))
    BY <1>1, <2>1, <2>2, FS_Subset
  <2> QED BY <1>1, <1>3, <2>3
<1> QED BY <1>4

LEMMA SomeSoonest ==
  ASSUME NEW S, Spools(S), NEW L \in SUBSET S, L # {}
  PROVE  \E m \in L : \A n \in L : ~Sooner(n, m)
<1> DEFINE R == {p \in L \X L : Sooner(p[1], p[2])}
<1>1. \A m, n \in L : <<m, n>> \in R <=> Sooner(m, n)
  OBVIOUS
<1>2. IsFiniteSet(L)
  BY PartOfSpool DEF Spools
<1>3. \A m, n, o \in L : ~Sooner(m, m) /\ (Sooner(m, n) /\ Sooner(n, o) => Sooner(m, o))
  BY SoonerOrders
<1> HIDE DEF R
<1>4. \E m \in L : \A n \in L : <<n, m>> \notin R
  BY <1>1, <1>2, <1>3, SomeFirst
<1> QED BY <1>1, <1>4

LEMMA SomeOldestAndNewest ==
  ASSUME NEW S, Spools(S), S # {}
  PROVE  /\ \E m \in S : \A n \in S : ~Older(n, m)
         /\ \E m \in S : \A n \in S : ~Older(m, n)
<1> DEFINE R == {p \in S \X S : Older(p[1], p[2])}
           Q == {p \in S \X S : Older(p[2], p[1])}
<1>1. \A m, n \in S : /\ <<m, n>> \in R <=> Older(m, n)
                      /\ <<m, n>> \in Q <=> Older(n, m)
  OBVIOUS
<1>2. IsFiniteSet(S)
  BY DEF Spools
<1>3. \A m, n, o \in S : ~Older(m, m) /\ (Older(m, n) /\ Older(n, o) => Older(m, o))
  BY OlderOrders
<1> HIDE DEF R, Q
<1>4. \E m \in S : \A n \in S : <<n, m>> \notin R
  BY <1>1, <1>2, <1>3, SomeFirst
<1>5. \E m \in S : \A n \in S : <<n, m>> \notin Q
  BY <1>1, <1>2, <1>3, SomeFirst
<1> QED BY <1>1, <1>4, <1>5

-----------------------------------------------------------------------------
(* Bytes and files.                                                        *)

ByteSet(S) == UNION {{m} \X (1 .. m.size) : m \in S}

LEMMA ByteSetFinite ==
  ASSUME NEW S, Spools(S)
  PROVE  IsFiniteSet(ByteSet(S))
<1> DEFINE File(m) == {m} \X (1 .. m.size)
           Sets == {File(m) : m \in S}
<1>1. \A m \in S : IsFiniteSet(File(m))
  <2> SUFFICES ASSUME NEW m \in S PROVE IsFiniteSet(File(m))
    OBVIOUS
  <2>1. IsFiniteSet(1 .. m.size)
    BY FS_Interval DEF Spools, Messages
  <2> QED BY <2>1, FS_Singleton, FS_Product
<1>2. IsFiniteSet(Sets)
  <2> HIDE DEF File
  <2>1. IsFiniteSet(S) BY DEF Spools
  <2> DEFINE f == [m \in S |-> File(m)]
  <2>2. Sets = {f[m] : m \in S}
    OBVIOUS
  <2>3. f \in Surjection(S, Sets)
    BY <2>2 DEF Surjection
  <2> QED BY <2>1, <2>3, FS_Surjection
<1>3. IsFiniteSet(UNION Sets)
  <2> HIDE DEF File
  <2>1. \A T \in Sets : IsFiniteSet(T) BY <1>1
  <2> HIDE DEF Sets
  <2> QED BY <1>2, <2>1, FS_UNION
<1> QED BY <1>3 DEF ByteSet

\* What Evict needs to know of a weight: it counts up to each part and its rest.
Weighs(w, S) ==
  /\ w \in [SUBSET S -> Nat]
  /\ \A T \in SUBSET S : w[S] = w[T] + w[S \ T]
  /\ \A T \in SUBSET S : \A U \in SUBSET T : w[U] <= w[T]

\* Elements counted: what makes a Cardinality a weight.
LEMMA CountingWeighs ==
  ASSUME NEW A, NEW B, IsFiniteSet(A), IsFiniteSet(B), A \cap B = {}
  PROVE  /\ Cardinality(A \cup B) = Cardinality(A) + Cardinality(B)
         /\ Cardinality(A) \in Nat /\ Cardinality(B) \in Nat
<1> DEFINE a == Cardinality(A) b == Cardinality(B) c == Cardinality(A \cup B)
<1>1. a \in Nat /\ b \in Nat
  BY FS_CardinalityType
<1>2. c = a + b - Cardinality(A \cap B)
  BY FS_Union
<1>3. Cardinality(A \cap B) = 0
  BY FS_EmptySet
<1> HIDE DEF a, b, c
<1>4. c = a + b
  BY <1>1, <1>2, <1>3
<1> QED BY <1>1, <1>4 DEF a, b, c

LEMMA BytesWeigh ==
  ASSUME NEW S, Spools(S)
  PROVE  Weighs([T \in SUBSET S |-> Bytes(T)], S)
<1>1. \A T \in SUBSET S : IsFiniteSet(ByteSet(T)) /\ Bytes(T) = Cardinality(ByteSet(T))
  BY PartOfSpool, ByteSetFinite DEF Bytes, ByteSet
<1>2. \A T \in SUBSET S : Bytes(T) \in Nat
  BY <1>1, FS_CardinalityType
<1>3. ASSUME NEW T \in SUBSET S
      PROVE  Bytes(S) = Bytes(T) + Bytes(S \ T)
  <2>1. ByteSet(S) = ByteSet(T) \cup ByteSet(S \ T)
    BY DEF ByteSet
  <2>2. ByteSet(T) \cap ByteSet(S \ T) = {}
    BY DEF ByteSet
  <2>3. S \in SUBSET S /\ S \ T \in SUBSET S
    OBVIOUS
  <2>4. Cardinality(ByteSet(S)) = Cardinality(ByteSet(T)) + Cardinality(ByteSet(S \ T))
    BY <1>1, <2>1, <2>2, <2>3, CountingWeighs
  <2> QED BY <1>1, <2>3, <2>4
<1>4. ASSUME NEW T \in SUBSET S, NEW U \in SUBSET T
      PROVE  Bytes(U) <= Bytes(T)
  <2>1. ByteSet(U) \in SUBSET ByteSet(T)
    BY DEF ByteSet
  <2>2. U \in SUBSET S
    OBVIOUS
  <2> QED BY <1>1, <2>1, <2>2, FS_Subset
<1> QED BY <1>2, <1>3, <1>4 DEF Weighs

LEMMA FilesWeigh ==
  ASSUME NEW S, Spools(S)
  PROVE  Weighs([T \in SUBSET S |-> Files(T)], S)
<1> DEFINE Real(T) == {m \in T : m.size > 0}
<1>1. \A T \in SUBSET S : IsFiniteSet(Real(T)) /\ Files(T) = Cardinality(Real(T))
  BY PartOfSpool, FS_Subset DEF Files, Spools
<1>2. \A T \in SUBSET S : Files(T) \in Nat
  BY <1>1, FS_CardinalityType
<1>3. ASSUME NEW T \in SUBSET S
      PROVE  Files(S) = Files(T) + Files(S \ T)
  <2>1. Real(S) = Real(T) \cup Real(S \ T) /\ Real(T) \cap Real(S \ T) = {}
    OBVIOUS
  <2>2. S \in SUBSET S /\ S \ T \in SUBSET S
    OBVIOUS
  <2> HIDE DEF Real
  <2>3. Cardinality(Real(S)) = Cardinality(Real(T)) + Cardinality(Real(S \ T))
    BY <1>1, <2>1, <2>2, CountingWeighs
  <2> QED BY <1>1, <2>2, <2>3
<1>4. ASSUME NEW T \in SUBSET S, NEW U \in SUBSET T
      PROVE  Files(U) <= Files(T)
  <2>1. Real(U) \in SUBSET Real(T) /\ U \in SUBSET S
    OBVIOUS
  <2> HIDE DEF Real
  <2> QED BY <1>1, <2>1, FS_Subset
<1> QED BY <1>2, <1>3, <1>4 DEF Weighs

-----------------------------------------------------------------------------
(* One eviction, of a weight that is given as a function.                  *)

\* It takes the messages in their order: what goes sooner than one that went is
\* gone too.
LEMMA EvictsInOrder ==
  ASSUME NEW S, Spools(S), NEW w, Weighs(w, S),
         NEW start \in Nat, NEW target \in Nat,
         NEW m \in Evict(S, w, start, target), NEW n \in S, Sooner(m, n)
  PROVE  n \in Evict(S, w, start, target)
<1> DEFINE Before(x) == {o \in S : Sooner(o, x)}
<1>1. Before(m) \in SUBSET Before(n) /\ Before(n) \in SUBSET S
  BY SoonerOrders DEF Evict
<1>2. w[Before(m)] <= w[Before(n)] /\ w[Before(m)] \in Nat /\ w[Before(n)] \in Nat
  <2> HIDE DEF Before
  <2> QED BY <1>1 DEF Weighs
<1>3. start <= target + w[Before(m)]
  BY DEF Evict
<1> HIDE DEF Before
<1>4. start <= target + w[Before(n)]
  BY <1>2, <1>3
<1> QED BY <1>4 DEF Evict, Before

\* Unless nothing is left, it reaches its target.
LEMMA EvictsEnough ==
  ASSUME NEW S, Spools(S), NEW w, Weighs(w, S),
         NEW start \in Nat, NEW target \in Nat,
         Evict(S, w, start, target) # {}
  PROVE  start + w[Evict(S, w, start, target)] <= target + w[S]
<1> DEFINE L == Evict(S, w, start, target)
<1>1. L \in SUBSET S
  BY DEF Evict
<1>2. PICK m \in L : \A n \in L : ~Sooner(n, m)
  <2>1. L # {}
    OBVIOUS
  <2> HIDE DEF L
  <2> QED BY <1>1, <2>1, SomeSoonest
<1> DEFINE B == {n \in S : Sooner(n, m)}
<1>3. B \in SUBSET (S \ L)
  <2> HIDE DEF L
  <2> QED BY <1>2
<1>4. start <= target + w[B]
  BY <1>2 DEF Evict
<1>5. /\ w[S] = w[L] + w[S \ L] /\ w[B] <= w[S \ L]
      /\ w[B] \in Nat /\ w[S \ L] \in Nat /\ w[L] \in Nat
  <2>1. S \ L \in SUBSET S /\ B \in SUBSET S
    OBVIOUS
  <2> HIDE DEF L, B
  <2> QED BY <1>1, <1>3, <2>1 DEF Weighs
<1> HIDE DEF B
<1>6. start + w[L] <= target + w[S]
  <2> HIDE DEF L
  <2> DEFINE wb == w[B] wl == w[L] wr == w[S \ L]
  <2>1. start <= target + wb /\ w[S] = wl + wr /\ wb <= wr
        /\ wb \in Nat /\ wr \in Nat /\ wl \in Nat
    BY <1>4, <1>5
  <2> HIDE DEF wb, wl, wr
  <2>2. start + wl <= target + (wl + wr)
    BY <2>1
  <2> QED BY <2>1, <2>2 DEF wl
<1> QED BY <1>6

-----------------------------------------------------------------------------
(* The two guards.                                                         *)

\* What a guard leaves of S: of two messages never the one that goes sooner alone.
KeepsOrder(S, L) ==
  /\ L \subseteq S
  /\ \A m \in L, n \in S : Sooner(m, n) => n \in L

LEMMA ShareOfTarget ==
  ASSUME NEW part \in Nat, NEW total \in Nat, part <= total, total > 0,
         NEW soft \in Nat
  PROVE  (part * soft) \div total \in Nat /\ (part * soft) \div total <= soft
<1>1. part * soft <= total * soft /\ part * soft \in Nat /\ total * soft \in Nat
  OBVIOUS
<1> DEFINE p == part * soft
<1>2. p \in Nat /\ p <= total * soft
  BY <1>1
<1> HIDE DEF p
<1>3. p \div total \in Nat /\ p \div total <= soft
  BY <1>2
<1> QED BY <1>3 DEF p

\* The byte guard keeps to its order, and leaves nothing or what the cap allows.
LEMMA ByteGuard ==
  ASSUME NEW S, Spools(S), strays \in Nat, NEW index \in Nat, NEW fs \in Nat \X Nat
  PROVE  /\ KeepsOrder(S, EvictBytes(S, index, fs))
         /\ EvictBytes(S, index, fs) # {} =>
              Bytes(EvictBytes(S, index, fs)) + strays <= HardBytes
<1> DEFINE disk      == Bytes(S) + strays
           footprint == disk + index
           hard      == EffectiveCap(HardBytes, footprint, fs[1], fs[2])
           soft      == Least(SoftBytes, hard)
           target    == (disk * soft) \div footprint
           w         == [T \in SUBSET S |-> Bytes(T)]
           L         == Evict(S, w, disk, target)
<1>1. Bytes(S) \in Nat /\ Weighs(w, S)
  <2>1. Weighs(w, S)
    BY BytesWeigh
  <2>2. w[S] = Bytes(S) /\ w[S] \in Nat
    <3> HIDE DEF w
    <3>1. w[S] \in Nat BY <2>1 DEF Weighs
    <3> USE DEF w
    <3> QED BY <3>1
  <2> HIDE DEF w
  <2> QED BY <2>1, <2>2
<1>2. disk \in Nat /\ footprint \in Nat /\ disk <= footprint
  BY <1>1
<1> HIDE DEF disk
<1>3. hard \in Nat /\ hard <= HardBytes
  <2>1. HardBytes \in Nat /\ fs[1] \in Nat /\ fs[2] \in Nat
    BY CapsAssumption
  <2> HIDE DEF footprint
  <2> QED BY <1>2, <2>1, CapIsNat, CapNeverRaised
<1> HIDE DEF footprint, hard
<1>4. soft \in Nat /\ soft <= hard
  BY <1>3, CapsAssumption DEF Least
<1>5. CASE footprint > hard
  <2>1. target \in Nat /\ target <= HardBytes
    <3> HIDE DEF soft
    <3>1. target \in Nat /\ target <= soft
      BY <1>2, <1>3, <1>4, <1>5, ShareOfTarget
    <3> HIDE DEF target
    <3> QED BY <1>3, <1>4, <3>1, CapsAssumption
  <2>2. EvictBytes(S, index, fs) = L
    BY <1>5 DEF EvictBytes, disk, footprint, hard
  <2> HIDE DEF target
  <2>3. KeepsOrder(S, L)
    <3>1. L \subseteq S
      BY DEF Evict
    <3> HIDE DEF w
    <3> QED BY <1>1, <1>2, <2>1, <3>1, EvictsInOrder DEF KeepsOrder
  <2>4. L # {} => Bytes(L) + strays <= HardBytes
    <3> SUFFICES ASSUME L # {} PROVE Bytes(L) + strays <= HardBytes
      OBVIOUS
    <3>1. disk + w[L] <= target + w[S]
      <4> HIDE DEF w
      <4> QED BY <1>1, <1>2, <2>1, EvictsEnough
    <3>2. L \in SUBSET S
      BY DEF Evict
    <3>3. w[L] = Bytes(L) /\ w[S] = Bytes(S)
      <4> HIDE DEF L
      <4> QED BY <3>2
    <3>4. Bytes(L) \in Nat
      <4>1. w[L] \in Nat
        <5> HIDE DEF w, L
        <5> QED BY <1>1, <3>2 DEF Weighs
      <4> HIDE DEF w, L
      <4> QED BY <3>3, <4>1
    <3>5. Bytes(S) + strays + Bytes(L) <= target + Bytes(S)
      <4> HIDE DEF w, L
      <4> QED BY <3>1, <3>3 DEF disk
    <3> HIDE DEF L
    <3> QED BY <1>1, <2>1, <3>4, <3>5, CapsAssumption
  <2> HIDE DEF L
  <2> QED BY <2>2, <2>3, <2>4
<1>6. CASE ~(footprint > hard)
  <2>1. EvictBytes(S, index, fs) = S
    BY <1>6 DEF EvictBytes, disk, footprint, hard
  <2>2. disk <= HardBytes
    BY <1>2, <1>3, <1>6, CapsAssumption
  <2> QED BY <2>1, <2>2 DEF KeepsOrder, disk
<1> QED BY <1>5, <1>6

\* So does the file guard.
LEMMA FileGuard ==
  ASSUME NEW S, Spools(S), strays \in Nat, NEW inodes \in Nat \X Nat
  PROVE  /\ KeepsOrder(S, EvictFiles(S, inodes))
         /\ EvictFiles(S, inodes) # {} /\ MaxFiles > 0 =>
              Files(EvictFiles(S, inodes)) + strays <= MaxFiles
<1> DEFINE files  == Files(S) + strays
           cap    == EffectiveCap(MaxFiles, files, inodes[1], inodes[2])
           target == cap - cap \div 4
           w      == [T \in SUBSET S |-> Files(T)]
           L      == Evict(S, w, files, target)
<1>1. Files(S) \in Nat /\ Weighs(w, S)
  <2>1. Weighs(w, S)
    BY FilesWeigh
  <2>2. w[S] = Files(S) /\ w[S] \in Nat
    <3> HIDE DEF w
    <3>1. w[S] \in Nat BY <2>1 DEF Weighs
    <3> USE DEF w
    <3> QED BY <3>1
  <2> HIDE DEF w
  <2> QED BY <2>1, <2>2
<1>2. files \in Nat
  BY <1>1
<1> HIDE DEF files
<1>3. cap \in Nat /\ cap <= MaxFiles
  <2>1. MaxFiles \in Nat /\ inodes[1] \in Nat /\ inodes[2] \in Nat
    BY CapsAssumption
  <2> QED BY <1>2, <2>1, CapIsNat, CapNeverRaised
<1> HIDE DEF cap
<1>4. target \in Nat /\ target <= MaxFiles
  BY <1>3, CapsAssumption
<1>5. CASE MaxFiles > 0 /\ files > cap
  <2>2. EvictFiles(S, inodes) = L
    BY <1>5 DEF EvictFiles, files, cap
  <2> HIDE DEF target
  <2>3. KeepsOrder(S, L)
    <3>1. L \subseteq S
      BY DEF Evict
    <3> HIDE DEF w
    <3> QED BY <1>1, <1>2, <1>4, <3>1, EvictsInOrder DEF KeepsOrder
  <2>4. L # {} => Files(L) + strays <= MaxFiles
    <3> SUFFICES ASSUME L # {} PROVE Files(L) + strays <= MaxFiles
      OBVIOUS
    <3>1. files + w[L] <= target + w[S]
      <4> HIDE DEF w
      <4> QED BY <1>1, <1>2, <1>4, EvictsEnough
    <3>2. L \in SUBSET S
      BY DEF Evict
    <3>3. w[L] = Files(L) /\ w[S] = Files(S)
      <4> HIDE DEF L
      <4> QED BY <3>2
    <3>4. Files(L) \in Nat
      <4>1. w[L] \in Nat
        <5> HIDE DEF w, L
        <5> QED BY <1>1, <3>2 DEF Weighs
      <4> HIDE DEF w, L
      <4> QED BY <3>3, <4>1
    <3>5. Files(S) + strays + Files(L) <= target + Files(S)
      <4> HIDE DEF w, L
      <4> QED BY <3>1, <3>3 DEF files
    <3> HIDE DEF L
    <3> QED BY <1>1, <1>4, <3>4, <3>5, CapsAssumption
  <2> HIDE DEF L
  <2> QED BY <2>2, <2>3, <2>4
<1>6. CASE ~(MaxFiles > 0 /\ files > cap)
  <2>1. EvictFiles(S, inodes) = S
    BY <1>6 DEF EvictFiles, files, cap
  <2>2. MaxFiles > 0 => files <= MaxFiles
    BY <1>2, <1>3, <1>6, CapsAssumption
  <2> QED BY <2>1, <2>2 DEF KeepsOrder, files
<1> QED BY <1>5, <1>6

-----------------------------------------------------------------------------
(* The window of a topic.                                                  *)

IsWindow(S, kept, bytes, entries) ==
  /\ kept \in SUBSET S
  /\ \A m \in S : m \in kept <=> Fits(NewerIn(kept, m), m, bytes, entries)

\* Any messages have one: the window without the oldest decides of the oldest.
LEMMA WindowExists ==
  ASSUME NEW S, Spools(S), NEW bytes, NEW entries
  PROVE  \E kept : IsWindow(S, kept, bytes, entries)
<1> DEFINE Has(T) == \E kept : IsWindow(T, kept, bytes, entries)
           Lacking == {T \in SUBSET S : ~Has(T)}
           size == [T \in Lacking |-> Cardinality(T)]
<1>1. SUFFICES ASSUME Lacking # {} PROVE FALSE
  <2>1. S \in SUBSET S
    OBVIOUS
  <2> HIDE DEF Has
  <2>2. Has(S)
    BY <1>1, <2>1
  <2> QED BY <2>2 DEF Has
<1>2. \A T \in SUBSET S : IsFiniteSet(T) /\ Cardinality(T) \in Nat
  BY FS_Subset, FS_CardinalityType DEF Spools
<1>3. PICK T \in Lacking : \A U \in Lacking : size[T] <= size[U]
  <2>1. size \in [Lacking -> Nat]
    <3> HIDE DEF Has
    <3> QED BY <1>2
  <2> HIDE DEF size, Lacking
  <2> QED BY <1>1, <2>1, Smallest
<1>4. T \in SUBSET S /\ ~Has(T)
  <2> HIDE DEF Has
  <2> QED BY <1>3
<1>5. CASE T = {}
  <2>1. IsWindow(T, {}, bytes, entries)
    BY <1>5 DEF IsWindow
  <2> QED BY <1>4, <2>1
<1>6. CASE T # {}
  <2>1. PICK m \in T : \A n \in T : ~Older(n, m)
    BY <1>4, <1>6, PartOfSpool, SomeOldestAndNewest
  <2> DEFINE U == T \ {m}
  <2>2. PICK old : IsWindow(U, old, bytes, entries)
    <3>1. U \in SUBSET S /\ Cardinality(U) < Cardinality(T)
      <4>1. U \in SUBSET T /\ U # T
        OBVIOUS
      <4>2. U \in SUBSET S
        BY <1>4
      <4> HIDE DEF U
      <4> QED BY <1>2, <1>4, <4>1, <4>2, FS_Subset
    <3>2. U \notin Lacking
      <4>1. ASSUME U \in Lacking PROVE FALSE
        <5>1. size[T] <= size[U]
          BY <1>3, <4>1
        <5>2. size[T] = Cardinality(T) /\ size[U] = Cardinality(U)
          <6> HIDE DEF U, Lacking
          <6> QED BY <1>3, <4>1
        <5> HIDE DEF U, size
        <5> QED BY <1>2, <1>4, <3>1, <5>1, <5>2
      <4> QED BY <4>1
    <3> HIDE DEF U
    <3>3. Has(U)
      <4> HIDE DEF Has
      <4> QED BY <3>1, <3>2
    <3> QED BY <3>3
  <2> DEFINE new == IF Fits(old, m, bytes, entries) THEN old \cup {m} ELSE old
  <2>3. old \in SUBSET T /\ m \notin old
    BY <2>2 DEF IsWindow
  <2>4. NewerIn(new, m) = old
    BY <1>4, <2>1, <2>3, OlderOrders DEF NewerIn
  <2>5. \A n \in U : NewerIn(new, n) = NewerIn(old, n)
    BY <2>1 DEF NewerIn
  <2>6. IsWindow(T, new, bytes, entries)
    <3>1. new \in SUBSET T
      BY <2>3
    <3>2. m \in new <=> Fits(NewerIn(new, m), m, bytes, entries)
      BY <2>3, <2>4
    <3>3. \A n \in U : n \in new <=> n \in old
      OBVIOUS
    <3>4. \A n \in U : n \in new <=> Fits(NewerIn(new, n), n, bytes, entries)
      <4> HIDE DEF new
      <4> QED BY <2>2, <2>5, <3>3 DEF IsWindow
    <3> HIDE DEF new
    <3> QED BY <3>1, <3>2, <3>4 DEF IsWindow
  <2> HIDE DEF new
  <2> QED BY <1>4, <2>6
<1> QED BY <1>5, <1>6

LEMMA WindowIs ==
  ASSUME NEW S, Spools(S), NEW bytes, NEW entries
  PROVE  IsWindow(S, Window(S, bytes, entries), bytes, entries)
<1>1. \E kept \in SUBSET S :
        \A m \in S : m \in kept <=> Fits(NewerIn(kept, m), m, bytes, entries)
  BY WindowExists DEF IsWindow
<1> QED BY <1>1 DEF Window, IsWindow

\* The oldest message of a window was taken when the others were fewer than the
\* entry cap, or was the first.
LEMMA WindowBounded ==
  ASSUME NEW S, Spools(S), NEW bytes, NEW entries \in Nat
  PROVE  Cardinality(Window(S, bytes, entries)) <= Max({1, entries})
<1> DEFINE K == Window(S, bytes, entries)
<1>1. IsWindow(S, K, bytes, entries)
  BY WindowIs
<1>6. SUFFICES Cardinality(K) <= Max({1, entries})
  OBVIOUS
<1> HIDE DEF K
<1>2. Spools(K) /\ K \in SUBSET S
  BY <1>1, PartOfSpool DEF IsWindow
<1>3. /\ Max({1, entries}) \in Nat
      /\ 1 <= Max({1, entries}) /\ entries <= Max({1, entries})
  <2>1. \E x \in {1, entries} : \A y \in {1, entries} : x >= y
    OBVIOUS
  <2>2. /\ Max({1, entries}) \in {1, entries}
        /\ \A y \in {1, entries} : Max({1, entries}) >= y
    BY <2>1 DEF Max
  <2> QED BY <2>2
<1>4. CASE K = {}
  BY <1>3, <1>4, FS_EmptySet
<1>5. CASE K # {}
  <2>1. PICK m \in K : \A n \in K : ~Older(n, m)
    BY <1>2, <1>5, SomeOldestAndNewest
  <2> DEFINE N == NewerIn(K, m)
  <2>2. K = N \cup {m} /\ m \notin N
    BY <1>2, <2>1, OlderOrders DEF NewerIn
  <2>3. Fits(N, m, bytes, entries)
    BY <1>1, <1>2 DEF IsWindow
  <2> HIDE DEF N
  <2>4. IsFiniteSet(N) /\ Cardinality(N) \in Nat
    BY <1>2, <2>2, FS_Subset, FS_CardinalityType DEF Spools
  <2>5. Cardinality(K) = Cardinality(N) + 1
    BY <2>2, <2>4, FS_AddElement
  <2>6. N = {} \/ Cardinality(N) < entries
    BY <2>3 DEF Fits
  <2>7. N = {} => Cardinality(N) = 0
    BY FS_EmptySet
  <2> QED BY <1>3, <2>4, <2>5, <2>6, <2>7
<1> QED BY <1>4, <1>5

\* What a window loses, it loses to a newer message it keeps.
LEMMA WindowOutlives ==
  ASSUME NEW S, Spools(S), NEW bytes, NEW entries,
         NEW m \in S, m \notin Window(S, bytes, entries)
  PROVE  \E n \in Window(S, bytes, entries) : Older(m, n)
<1>1. IsWindow(S, Window(S, bytes, entries), bytes, entries)
  BY WindowIs
<1>2. NewerIn(Window(S, bytes, entries), m) # {}
  BY <1>1 DEF IsWindow, Fits
<1> QED BY <1>2 DEF NewerIn

-----------------------------------------------------------------------------
(* A pass.                                                                 *)

Unexpired == {m \in spool : ~Expired(m)}

\* What the windows keep of the messages of a topic.
LEMMA WindowOfTopic ==
  ASSUME Spools(spool), NEW t \in {m.topic : m \in Unexpired}
  PROVE  OfTopic(Windowed, t) =
           IF t = "audit"
             THEN Window(OfTopic(Unexpired, t), AuditBytes, AuditEntries)
             ELSE Window(OfTopic(Unexpired, t), TopicBytes, TopicEntries)
<1> DEFINE S == Unexpired
           topics == {m.topic : m \in S \ Audits(S)}
           A == Window(Audits(S), AuditBytes, AuditEntries)
           W(u) == Window(OfTopic(S, u), TopicBytes, TopicEntries)
<1>1. Windowed = A \cup UNION {W(u) : u \in topics}
  BY DEF Windowed, PruneWindows, Unexpired
<1>2. Spools(S)
  BY PartOfSpool DEF Unexpired
<1> HIDE DEF S
<1>3. A \subseteq Audits(S)
  <2>1. Spools(Audits(S))
    BY <1>2, PartOfSpool DEF Audits
  <2> QED BY <2>1, WindowIs DEF IsWindow
<1>4. \A u : W(u) \subseteq OfTopic(S, u)
  <2> SUFFICES ASSUME NEW u PROVE W(u) \subseteq OfTopic(S, u)
    OBVIOUS
  <2>1. Spools(OfTopic(S, u))
    BY <1>2, PartOfSpool DEF OfTopic
  <2> QED BY <2>1, WindowIs DEF IsWindow
<1>5. \A u \in topics : u # "audit"
  BY DEF Audits, IsAudit
<1>6. t # "audit" => t \in topics
  BY DEF S, Audits, IsAudit
<1>7. Audits(S) = OfTopic(S, "audit")
  BY DEF Audits, IsAudit, OfTopic
<1> HIDE DEF A, W, topics
<1>8. \A m \in A : m.topic = "audit"
  BY <1>3, <1>7 DEF OfTopic
<1>9. \A u : \A m \in W(u) : m.topic = u
  BY <1>4 DEF OfTopic
<1>10. CASE t = "audit"
  <2>1. OfTopic(Windowed, t) = A
    BY <1>1, <1>5, <1>8, <1>9, <1>10 DEF OfTopic
  <2> QED BY <2>1, <1>7, <1>10 DEF A, S
<1>11. CASE t # "audit"
  <2>1. OfTopic(Windowed, t) = W(t)
    BY <1>1, <1>6, <1>8, <1>9, <1>11 DEF OfTopic
  <2> QED BY <2>1, <1>11 DEF W, S
<1> QED BY <1>10, <1>11

LEMMA WindowedInSpool ==
  ASSUME Spools(spool)
  PROVE  Windowed \subseteq Unexpired
<1>1. \A t : OfTopic(Unexpired, t) \in SUBSET spool
  BY DEF OfTopic, Unexpired
<1>2. \A t, b, e : Window(OfTopic(Unexpired, t), b, e) \subseteq OfTopic(Unexpired, t)
  <2> SUFFICES ASSUME NEW t, NEW b, NEW e
               PROVE  Window(OfTopic(Unexpired, t), b, e) \subseteq OfTopic(Unexpired, t)
    OBVIOUS
  <2>1. Spools(OfTopic(Unexpired, t))
    BY <1>1, PartOfSpool
  <2> QED BY <2>1, WindowIs DEF IsWindow
<1>3. Audits(Unexpired) = OfTopic(Unexpired, "audit")
  BY DEF Audits, IsAudit, OfTopic
<1>4. \A t : OfTopic(Unexpired, t) \subseteq Unexpired
  BY DEF OfTopic
<1> QED BY <1>2, <1>3, <1>4 DEF Windowed, PruneWindows, Unexpired

\* What every pass does, whatever it finds of the index and of the file system.
LEMMA PassKeeps ==
  ASSUME Spools(spool), strays \in Nat,
         NEW index \in IndexSizes, NEW fs \in Readings, NEW inodes \in Readings
  PROVE  LET left == KeptBy(index, fs, inodes) IN
           /\ KeepsOrder(Windowed, left)
           /\ left # {} => /\ Bytes(left) + strays <= HardBytes
                           /\ MaxFiles > 0 => Files(left) + strays <= MaxFiles
<1> DEFINE B == EvictBytes(Windowed, index, fs)
           F == EvictFiles(B, inodes)
<1>1. Spools(Windowed)
  BY WindowedInSpool, PartOfSpool DEF Unexpired
<1>2. index \in Nat /\ fs \in Nat \X Nat /\ inodes \in Nat \X Nat
  BY SizesAssumption
<1>3. KeepsOrder(Windowed, B) /\ (B # {} => Bytes(B) + strays <= HardBytes)
  BY <1>1, <1>2, ByteGuard
<1> HIDE DEF B
<1>4. Spools(B)
  BY <1>1, <1>3, PartOfSpool DEF KeepsOrder
<1>5. /\ KeepsOrder(B, F)
      /\ F # {} /\ MaxFiles > 0 => Files(F) + strays <= MaxFiles
  BY <1>2, <1>4, FileGuard
<1> HIDE DEF F
<1>6. KeepsOrder(Windowed, F)
  BY <1>3, <1>5 DEF KeepsOrder
<1>7. Bytes(F) <= Bytes(B) /\ Bytes(F) \in Nat /\ Bytes(B) \in Nat
  <2> DEFINE w == [T \in SUBSET B |-> Bytes(T)]
  <2>1. Weighs(w, B)
    BY <1>4, BytesWeigh
  <2>2. F \in SUBSET B /\ B \in SUBSET B
    BY <1>5 DEF KeepsOrder
  <2>3. w[F] = Bytes(F) /\ w[B] = Bytes(B)
    BY <2>2
  <2> HIDE DEF w
  <2>4. w[F] <= w[B] /\ w[F] \in Nat /\ w[B] \in Nat
    BY <2>1, <2>2 DEF Weighs
  <2> QED BY <2>3, <2>4
<1>8. F # {} => Bytes(F) + strays <= HardBytes
  <2>1. F # {} => B # {}
    BY <1>5 DEF KeepsOrder
  <2> QED BY <1>3, <1>7, <2>1, CapsAssumption
<1>9. KeptBy(index, fs, inodes) = F
  BY DEF KeptBy, B, F
<1> QED BY <1>5, <1>6, <1>8, <1>9

\* The entry caps hold of whatever is left of the windows.
LEMMA PassBoundsRows ==
  ASSUME Spools(spool), NEW left, left \subseteq Windowed, NEW t \in {m.topic : m \in left}
  PROVE  Cardinality(OfTopic(left, t)) <=
           Max({1, IF t = "audit" THEN AuditEntries ELSE TopicEntries})
<1>1. t \in {m.topic : m \in Unexpired}
  BY WindowedInSpool
<1>2. Spools(OfTopic(Unexpired, t)) /\ Spools(OfTopic(Windowed, t))
  BY WindowedInSpool, PartOfSpool DEF OfTopic, Unexpired
<1>3. Cardinality(OfTopic(Windowed, t)) <=
        Max({1, IF t = "audit" THEN AuditEntries ELSE TopicEntries})
  <2>1. AuditEntries \in Nat /\ TopicEntries \in Nat
    BY CapsAssumption
  <2> QED BY <1>1, <1>2, <2>1, WindowOfTopic, WindowBounded
<1>4. OfTopic(left, t) \in SUBSET OfTopic(Windowed, t)
  BY DEF OfTopic
<1>5. /\ Cardinality(OfTopic(left, t)) <= Cardinality(OfTopic(Windowed, t))
      /\ Cardinality(OfTopic(left, t)) \in Nat
      /\ Cardinality(OfTopic(Windowed, t)) \in Nat
  BY <1>2, <1>4, FS_Subset, FS_CardinalityType DEF Spools
<1>6. Max({1, IF t = "audit" THEN AuditEntries ELSE TopicEntries}) \in Nat
  <2> DEFINE e == IF t = "audit" THEN AuditEntries ELSE TopicEntries
  <2>1. e \in Nat
    BY CapsAssumption
  <2> HIDE DEF e
  <2>2. \E x \in {1, e} : \A y \in {1, e} : x >= y
    BY <2>1
  <2>3. Max({1, e}) \in {1, e}
    BY <2>2 DEF Max
  <2>4. Max({1, e}) \in Nat
    BY <2>1, <2>3
  <2> QED BY <2>4 DEF e
<1> QED BY <1>3, <1>5, <1>6

-----------------------------------------------------------------------------
(* The inductive invariant: the index is a spool whose rows differ.        *)

SpoolInv == RetentionTypeOK /\ Spools(spool) /\ SpoolBounded /\ RowsBounded

LEMMA InitSpoolInv == RetentionInit => SpoolInv
<1> SUFFICES ASSUME RetentionInit PROVE SpoolInv
  OBVIOUS
<1> USE DEF RetentionInit
<1>1. RetentionTypeOK
  <2>1. {now, written, strays} \subseteq {0}
    OBVIOUS
  <2>2. 0 \in 0 .. MaxNow /\ 0 \in 0 .. MaxMessages /\ 0 \in 0 .. MaxStrays
    BY BoundsAssumption
  <2> QED BY <2>1, <2>2 DEF RetentionTypeOK
<1>2. Spools(spool)
  BY FS_EmptySet DEF Spools
<1> QED BY <1>1, <1>2 DEF SpoolInv, SpoolBounded, RowsBounded

LEMMA TypedSpool ==
  ASSUME RetentionTypeOK PROVE strays \in Nat /\ written \in Nat /\ now \in Nat
BY BoundsAssumption DEF RetentionTypeOK

LEMMA PublishKeeps ==
  ASSUME SpoolInv, Publish PROVE RetentionTypeOK' /\ Spools(spool)'
<1> USE DEF SpoolInv, RetentionTypeOK
<1>1. written \in Nat /\ written + 1 \in 0 .. MaxMessages
  BY TypedSpool, BoundsAssumption DEF Publish
<1>2. PICK k \in Kinds, size \in Sizes :
        spool' = spool \cup {[id |-> written + 1, topic |-> k.topic,
                              pri |-> k.pri, size |-> size, ts |-> now]}
  BY DEF Publish
<1> DEFINE new == [id |-> written + 1, topic |-> k.topic,
                   pri |-> k.pri, size |-> size, ts |-> now]
<1>3. /\ new \in [id : 1 .. written + 1, topic : {c.topic : c \in Kinds},
                  pri : {c.pri : c \in Kinds}, size : Sizes \cup {0},
                  ts : 0 .. MaxNow]
      /\ new \in Messages /\ new.id = written + 1
  BY <1>1, TypedSpool, SizesAssumption DEF Messages
<1> HIDE DEF new
<1>4. \A m \in spool : m.id # new.id /\
        m \in [id : 1 .. written + 1, topic : {c.topic : c \in Kinds},
               pri : {c.pri : c \in Kinds}, size : Sizes \cup {0},
               ts : 0 .. MaxNow]
  BY <1>1, <1>3
<1>5. spool' = spool \cup {new} /\ written' = written + 1
  BY <1>2 DEF new, Publish
<1>6. RetentionTypeOK'
  BY <1>1, <1>3, <1>4, <1>5 DEF Publish
<1>7. Spools(spool)'
  BY <1>3, <1>4, <1>5, FS_AddElement DEF Spools
<1> QED BY <1>6, <1>7

LEMMA LoseFileKeeps ==
  ASSUME SpoolInv, LoseFile PROVE RetentionTypeOK' /\ Spools(spool)'
<1> USE DEF SpoolInv, RetentionTypeOK
<1>1. PICK m \in spool : spool' = (spool \ {m}) \cup {[m EXCEPT !.size = 0]}
  BY DEF LoseFile
<1> DEFINE new == [m EXCEPT !.size = 0]
<1>2. /\ new \in [id : 1 .. written, topic : {k.topic : k \in Kinds},
                  pri : {k.pri : k \in Kinds}, size : Sizes \cup {0},
                  ts : 0 .. MaxNow]
      /\ new.id = m.id
  OBVIOUS
<1>3. new \in Messages
  BY DEF Spools, Messages
<1> HIDE DEF new
<1>4. spool' = (spool \ {m}) \cup {new}
  BY <1>1 DEF new
<1>5. RetentionTypeOK'
  BY <1>2, <1>4 DEF LoseFile
<1>6. Spools(spool)'
  <2>1. IsFiniteSet(spool \ {m})
    BY FS_Subset DEF Spools
  <2>2. IsFiniteSet(spool')
    BY <1>4, <2>1, FS_AddElement
  <2> QED BY <1>2, <1>3, <1>4, <2>2 DEF Spools
<1> QED BY <1>5, <1>6

LEMMA PassKeepsInv ==
  ASSUME SpoolInv, NEW index \in IndexSizes, NEW fs \in Readings,
         NEW inodes \in Readings, Pass(index, fs, inodes)
  PROVE  SpoolInv' /\ KeepsOrder(Windowed, spool')
<1>1. Spools(spool) /\ strays \in Nat
  BY TypedSpool DEF SpoolInv
<1>2. spool' = KeptBy(index, fs, inodes) /\ UNCHANGED <<now, written, strays>>
      /\ passed' = TRUE
  BY DEF Pass
<1>3. /\ KeepsOrder(Windowed, spool')
      /\ spool' # {} => /\ Bytes(spool') + strays <= HardBytes
                        /\ MaxFiles > 0 => Files(spool') + strays <= MaxFiles
  BY <1>1, <1>2, PassKeeps
<1>4. spool' \subseteq Windowed /\ spool' \subseteq spool
  BY <1>1, <1>3, WindowedInSpool DEF KeepsOrder, Unexpired
<1>5. RetentionTypeOK'
  BY <1>2, <1>4 DEF SpoolInv, RetentionTypeOK
<1>6. Spools(spool)'
  BY <1>1, <1>4, FS_Subset DEF Spools
<1>7. SpoolBounded'
  BY <1>2, <1>3 DEF SpoolBounded
<1>8. RowsBounded'
  <2>1. \A t \in {m.topic : m \in spool'} :
          Cardinality(OfTopic(spool', t)) <=
            Max({1, IF t = "audit" THEN AuditEntries ELSE TopicEntries})
    BY <1>1, <1>4, PassBoundsRows
  <2> QED BY <2>1 DEF RowsBounded, OfTopic
<1> QED BY <1>3, <1>5, <1>6, <1>7, <1>8 DEF SpoolInv

LEMMA NextSpoolInv == SpoolInv /\ [RetentionNext]_retentionVars => SpoolInv'
<1> SUFFICES ASSUME SpoolInv, [RetentionNext]_retentionVars PROVE SpoolInv'
  OBVIOUS
<1>1. CASE Publish
  BY <1>1, PublishKeeps DEF Publish, SpoolInv, SpoolBounded, RowsBounded
<1>2. CASE Stray
  <2>1. strays + 1 \in 0 .. MaxStrays
    BY <1>2, TypedSpool, BoundsAssumption DEF Stray, SpoolInv
  <2>2. RetentionTypeOK'
    BY <1>2, <2>1 DEF Stray, SpoolInv, RetentionTypeOK
  <2> QED BY <1>2, <2>2 DEF Stray, SpoolInv, SpoolBounded, RowsBounded, Spools
<1>3. CASE LoseFile
  BY <1>3, LoseFileKeeps DEF LoseFile, SpoolInv, SpoolBounded, RowsBounded
<1>4. CASE Tick
  BY <1>4 DEF Tick, SpoolInv, RetentionTypeOK, SpoolBounded, RowsBounded, Spools
<1>5. CASE \E index \in IndexSizes, fs \in Readings, inodes \in Readings :
             Pass(index, fs, inodes)
  BY <1>5, PassKeepsInv
<1>6. CASE UNCHANGED retentionVars
  BY <1>6 DEF retentionVars, SpoolInv, RetentionTypeOK, SpoolBounded, RowsBounded,
              Spools, OfTopic, Bytes, Files
<1> QED BY <1>1, <1>2, <1>3, <1>4, <1>5, <1>6 DEF RetentionNext

LEMMA SpoolInvariance == RetentionSpec => []SpoolInv
BY InitSpoolInv, NextSpoolInv, PTL DEF RetentionSpec

\* Every variable of the model keeps its type.
THEOREM RetentionTypeCorrect == RetentionSpec => []RetentionTypeOK
<1>1. SpoolInv => RetentionTypeOK
  BY DEF SpoolInv
<1> QED BY <1>1, SpoolInvariance, PTL

\* After a pass the bus holds no more than both caps of the spool allow, or no row
\* at all: for any caps, whatever df and stat say, with files nothing can evict and
\* rows whose eviction frees nothing (run_pass_at_inner).
THEOREM SpoolStaysBounded == RetentionSpec => []SpoolBounded
<1>1. SpoolInv => SpoolBounded
  BY DEF SpoolInv
<1> QED BY <1>1, SpoolInvariance, PTL

LEMMA NewestOutlives == SpoolInv => NewestStays
<1> SUFFICES ASSUME SpoolInv, NEW m \in spool, ~Expired(m), m \notin Windowed
             PROVE  \E n \in Windowed : n.topic = m.topic /\ Older(m, n)
  BY DEF NewestStays
<1> DEFINE t == m.topic
           S == OfTopic(Unexpired, t)
<1>1. m \in S /\ t \in {o.topic : o \in Unexpired}
  BY DEF OfTopic, Unexpired
<1>2. Spools(spool) /\ Spools(S)
  BY PartOfSpool DEF SpoolInv, OfTopic, Unexpired
<1>3. m \notin OfTopic(Windowed, t)
  BY DEF OfTopic
<1> HIDE DEF S, t
<1>4. \E n \in OfTopic(Windowed, t) : Older(m, n)
  BY <1>1, <1>2, <1>3, WindowOfTopic, WindowOutlives DEF S
<1> QED BY <1>4 DEF OfTopic, t

\* A window never holds more rows than its entry cap, and never loses a message
\* but to a newer one of its topic (prune_audit_over_cap, prune_topics_over_cap).
THEOREM WindowsHold == RetentionSpec => []WindowHolds
<1>1. SpoolInv => WindowHolds
  BY NewestOutlives DEF SpoolInv, WindowHolds
<1> QED BY <1>1, SpoolInvariance, PTL

LEMMA OnlyAPassPasses ==
  ASSUME SpoolInv, RetentionNext, passed' PROVE KeepsOrder(Windowed, spool')
BY PassKeepsInv DEF RetentionNext, Publish, Stray, LoseFile, Tick

\* No guard takes an audit record while a message of another topic is left.
THEOREM AuditIsLast == RetentionSpec => AuditGoesLast
<1>1. SpoolInv /\ [RetentionNext]_retentionVars =>
        [passed' /\ Audits(spool') # spool' =>
           Audits(Windowed) \subseteq spool']_retentionVars
  <2> SUFFICES ASSUME SpoolInv, RetentionNext, passed', Audits(spool') # spool',
                      NEW a \in Audits(Windowed)
               PROVE  a \in spool'
    OBVIOUS
  <2>1. KeepsOrder(Windowed, spool')
    BY OnlyAPassPasses
  <2>2. PICK m \in spool' : ~IsAudit(m)
    BY DEF Audits
  <2>3. a \in Windowed /\ IsAudit(a)
    BY DEF Audits
  <2>4. Sooner(m, a)
    BY <2>2, <2>3 DEF Sooner
  <2> QED BY <2>1, <2>2, <2>3, <2>4 DEF KeepsOrder
<1> QED BY <1>1, SpoolInvariance, PTL DEF RetentionSpec, AuditGoesLast

\* Of two audit records, or of two others, a guard takes the older first.
THEOREM OldestAreFirst == RetentionSpec => OldestGoFirst
<1>1. SpoolInv /\ [RetentionNext]_retentionVars =>
        [passed' => \A m, n \in Windowed :
           IsAudit(m) = IsAudit(n) /\ Older(m, n) /\ m \in spool' => n \in spool'
        ]_retentionVars
  <2> SUFFICES ASSUME SpoolInv, RetentionNext, passed',
                      NEW m \in Windowed, NEW n \in Windowed,
                      IsAudit(m) = IsAudit(n), Older(m, n), m \in spool'
               PROVE  n \in spool'
    OBVIOUS
  <2>1. KeepsOrder(Windowed, spool')
    BY OnlyAPassPasses
  <2>2. Sooner(m, n)
    BY DEF Sooner
  <2> QED BY <2>1, <2>2 DEF KeepsOrder
<1> QED BY <1>1, SpoolInvariance, PTL DEF RetentionSpec, OldestGoFirst
=============================================================================
