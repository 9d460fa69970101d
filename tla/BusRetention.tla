---------------------------- MODULE BusRetention ----------------------------
(***************************************************************************)
(* Which messages a retention pass of the bus deletes (mde-bus/src/        *)
(* retention.rs): by age, by the size of a topic's window, by the bytes    *)
(* and by the files of the whole spool, the last two under the pressure of *)
(* whatever else fills the tmpfs the spool lives on.                       *)
(*                                                                         *)
(* Module BusStore has the order of the deletions and what runs beside     *)
(* them; here a pass is one step, and what counts is the choice.  A message *)
(* is its place in the order of writing, its topic, priority, size and the *)
(* tick it was written at; size 0 stands for a row whose file is missing.  *)
(***************************************************************************)
EXTENDS Naturals, FiniteSets, FiniteSetsExt

CONSTANTS
  Kinds,        \* the [topic, pri] pairs that are published
  Sizes,        \* file sizes
  Ttl,          \* time to live of the priorities "min", "default", "high"
  TtlEphemeral, \* time to live of reply/* and action/*
  AuditBytes, AuditEntries, TopicBytes, TopicEntries,   \* window caps
  SoftBytes, HardBytes, MaxFiles,                       \* spool caps
  IndexSizes,   \* bytes of index.sqlite as a pass may find them
  Readings,     \* what df may say of the file system: <<total, free>>
  MaxMessages, MaxNow, MaxStrays                        \* bounds of a run

ASSUME CapsAssumption ==
  {AuditBytes, AuditEntries, TopicBytes, TopicEntries, SoftBytes, HardBytes,
   MaxFiles} \subseteq Nat
ASSUME SizesAssumption ==
  Sizes \cup IndexSizes \subseteq Nat /\ Readings \subseteq Nat \X Nat
ASSUME BoundsAssumption == {MaxMessages, MaxNow, MaxStrays} \subseteq Nat

VARIABLES
  now,      \* the clock, in ticks
  written,  \* how many messages were ever written
  spool,    \* the messages that have a row
  strays,   \* message files without a row, of size 1 each
  passed    \* whether the last step was a pass

retentionVars == <<now, written, spool, strays, passed>>

-----------------------------------------------------------------------------
(* The choice of one pass. *)

IsAudit(m) == m.topic = "audit"
IsEphemeral(m) == m.topic \in {"reply", "action"}

\* an urgent message has no time to live, unless its topic is ephemeral
Expired(m) ==
  /\ ~IsAudit(m)
  /\ \/ m.pri # "urgent" /\ m.ts + Ttl[m.pri] < now
     \/ IsEphemeral(m) /\ m.ts + TtlEphemeral < now

\* A byte of a spool is its message and its place in the file.
Bytes(S) == Cardinality(UNION {{m} \X (1 .. m.size) : m \in S})
Files(S) == Cardinality({m \in S : m.size > 0})

\* by ts_unix_ms, and within a millisecond by ulid or by the index, which is here
\* the same: both follow the order in which the messages were written
Older(m, n) == m.ts < n.ts \/ (m.ts = n.ts /\ m.id < n.id)
NewerIn(S, m) == {n \in S : Older(m, n)}

\* Mutant: the caps hold for the newest message too.
FitsStrict(kept, m, capBytes, capEntries) ==
  /\ Bytes(kept) + m.size <= capBytes
  /\ Cardinality(kept) < capEntries

\* the newest message always, then what still fits both caps
Fits(kept, m, capBytes, capEntries) ==
  \/ kept = {}
  \/ /\ Bytes(kept) + m.size <= capBytes
     /\ Cardinality(kept) < capEntries

\* newest first: whether a message is kept is up to the newer ones that are
Window(S, capBytes, capEntries) ==
  CHOOSE kept \in SUBSET S :
    \A m \in S : m \in kept <=> Fits(NewerIn(kept, m), m, capBytes, capEntries)

Audits(S) == {m \in S : IsAudit(m)}
OfTopic(S, t) == {m \in S : m.topic = t}

\* each topic is cut to its window; all audit topics share one
PruneWindows(S) ==
  Window(Audits(S), AuditBytes, AuditEntries) \cup
  UNION {Window(OfTopic(S, t), TopicBytes, TopicEntries) :
           t \in {m.topic : m \in S \ Audits(S)}}

\* Mutant: one phase, audit records in their turn.
SoonerInOnePhase(m, n) == Older(m, n)

\* Mutant: ts_unix_ms DESC, as the windows are read.
SoonerNewest(m, n) ==
  IF IsAudit(m) = IsAudit(n) THEN Older(n, m) ELSE IsAudit(n)

\* the two phases of an eviction: audit records go when nothing else is left
Sooner(m, n) == IF IsAudit(m) = IsAudit(n) THEN Older(m, n) ELSE IsAudit(n)

\* in that order, until what is left weighs no more than the target: a message
\* stays when the weight of those that go sooner was enough
Evict(S, weight, start, target) ==
  {m \in S : start <= target + weight[{n \in S : Sooner(n, m)}]}

\* fs_pressure_hard_cap and inode_pressure_file_cap: 85 % full is pressure, and
\* then the cap is lowered by what must leave to get back there
FillPct == 85
Least(a, b) == IF a < b THEN a ELSE b
Minus(a, b) == IF a > b THEN a - b ELSE 0
Used(total, free) == Minus(total, free)
Pressure(total, free) ==
  total > 0 /\ Used(total, free) * 100 >= total * FillPct
Reclaim(total, free) == Minus(Used(total, free), (total * FillPct) \div 100)
EffectiveCap(configured, footprint, total, free) ==
  IF Pressure(total, free)
  THEN Least(Minus(footprint, Reclaim(total, free)), configured)
  ELSE configured

\* the byte guard: over the cap, the spool is cut in the proportion that would
\* bring spool and index together to the soft cap
EvictBytes(S, index, fs) ==
  LET disk      == Bytes(S) + strays
      footprint == disk + index
      hard      == EffectiveCap(HardBytes, footprint, fs[1], fs[2])
      soft      == Least(SoftBytes, hard)
  IN IF footprint > hard
     THEN Evict(S, [T \in SUBSET S |-> Bytes(T)], disk,
               (disk * soft) \div footprint)
     ELSE S

\* Mutant: a row whose file is gone counts as a file freed.
EvictFilesByRow(S, inodes) ==
  LET files == Files(S) + strays
      cap   == EffectiveCap(MaxFiles, files, inodes[1], inodes[2])
  IN IF MaxFiles > 0 /\ files > cap
     THEN Evict(S, [T \in SUBSET S |-> Cardinality(T)], files,
               cap - cap \div 4)
     ELSE S

\* the file guard: over the cap, down to three quarters of it
EvictFiles(S, inodes) ==
  LET files == Files(S) + strays
      cap   == EffectiveCap(MaxFiles, files, inodes[1], inodes[2])
  IN IF MaxFiles > 0 /\ files > cap
     THEN Evict(S, [T \in SUBSET S |-> Files(T)], files, cap - cap \div 4)
     ELSE S

Windowed == PruneWindows({m \in spool : ~Expired(m)})
KeptBy(index, fs, inodes) == EvictFiles(EvictBytes(Windowed, index, fs), inodes)

-----------------------------------------------------------------------------
RetentionInit ==
  /\ now = 0
  /\ written = 0
  /\ spool = {}
  /\ strays = 0
  /\ passed = FALSE

Publish ==
  /\ written < MaxMessages
  /\ \E k \in Kinds, size \in Sizes :
       spool' = spool \cup {[id |-> written + 1, topic |-> k.topic,
                             pri |-> k.pri, size |-> size, ts |-> now]}
  /\ written' = written + 1
  /\ passed' = FALSE
  /\ UNCHANGED <<now, strays>>

\* a writer dies between its file and its row
Stray ==
  /\ strays < MaxStrays
  /\ strays' = strays + 1
  /\ passed' = FALSE
  /\ UNCHANGED <<now, written, spool>>

\* a pass died between a file and its row, or somebody removed the file
LoseFile ==
  /\ \E m \in spool : /\ m.size > 0
                      /\ spool' = (spool \ {m}) \cup {[m EXCEPT !.size = 0]}
  /\ passed' = FALSE
  /\ UNCHANGED <<now, written, strays>>

\* the system clock moves on, or is set back
Tick ==
  /\ now' \in 0 .. MaxNow \ {now}
  /\ passed' = FALSE
  /\ UNCHANGED <<written, spool, strays>>

\* run_pass_at
Pass(index, fs, inodes) ==
  /\ spool' = KeptBy(index, fs, inodes)
  /\ passed' = TRUE
  /\ UNCHANGED <<now, written, strays>>

RetentionNext ==
  \/ Publish \/ Stray \/ LoseFile \/ Tick
  \/ \E index \in IndexSizes, fs \in Readings, inodes \in Readings :
       Pass(index, fs, inodes)

RetentionSpec == RetentionInit /\ [][RetentionNext]_retentionVars

-----------------------------------------------------------------------------
(* What a pass promises. *)

RetentionTypeOK ==
  /\ now \in 0 .. MaxNow
  /\ written \in 0 .. MaxMessages
  /\ spool \subseteq [id : 1 .. written, topic : {k.topic : k \in Kinds},
                      pri : {k.pri : k \in Kinds}, size : Sizes \cup {0},
                      ts : 0 .. MaxNow]
  /\ strays \in 0 .. MaxStrays
  /\ passed \in BOOLEAN

\* The guards never spend an audit record while another message is left: what
\* the audit window holds goes last, whichever guard fires and in whatever order
\* the two fire.
AuditGoesLast ==
  [][passed' /\ Audits(spool') # spool' =>
       Audits(Windowed) \subseteq spool']_retentionVars

\* The guards take the oldest: between two messages that are both, or neither,
\* audit records, the older is never kept in the place of the newer.
OldestGoFirst ==
  [][passed' =>
       \A m, n \in Windowed :
         IsAudit(m) = IsAudit(n) /\ Older(m, n) /\ m \in spool' => n \in spool'
    ]_retentionVars

\* After a pass no index row is left or the spool is within both of its caps,
\* although rows without a file, which weigh nothing, come first and files
\* without a row, which nothing can evict, are counted.
SpoolBounded ==
  passed /\ spool # {} =>
    /\ Bytes(spool) + strays <= HardBytes
    /\ MaxFiles > 0 => Files(spool) + strays <= MaxFiles

\* Index rows are bounded too: a topic keeps no more than its entry cap, though
\* rows whose file is missing never fill its byte cap.
RowsBounded ==
  passed => \A t \in {m.topic : m \in spool} :
    Cardinality(OfTopic(spool, t)) <=
      Max({1, IF t = "audit" THEN AuditEntries ELSE TopicEntries})

\* No cap empties a topic, even a cap of nothing or one the newest message alone
\* is too big for: what a window loses, a newer message of the topic outlives.
NewestStays ==
  \A m \in spool :
    \/ Expired(m) \/ m \in Windowed
    \/ \E n \in Windowed : n.topic = m.topic /\ Older(m, n)

\* A topic's window bounds its rows and never empties it.
WindowHolds == RowsBounded /\ NewestStays
=============================================================================
