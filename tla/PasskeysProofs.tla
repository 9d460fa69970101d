--------------------------- MODULE PasskeysProofs ---------------------------
(***************************************************************************)
(* The safety of Passkeys for any set of ceremonies and tabs, any length   *)
(* of the bridge's queue and any number of ends of the worker.             *)
(*                                                                         *)
(* The argument, in three parts that build on Types.  The worker (Working) *)
(* has one ceremony at a time, whose nonce is spent before it begins, so   *)
(* none is worked on twice, and a credential has no published result while *)
(* its key or record is still being written.  The tabs (Posted): what is   *)
(* queued on behalf of a tab is the tab's own, and nothing is once it is   *)
(* closed.  The answers: only approved ceremonies wait for a result.       *)
(***************************************************************************)
EXTENDS Passkeys, TLAPS

\* The worker is idle exactly when it has no ceremony, and seals keys of new
\* credentials only.
Busy ==
  /\ work.on = Nobody <=> work.step = "idle"
  /\ work.step \in {"seal", "sealed"} => work.on \in Creates

Types == TypeOK /\ Busy

\* The worker's ceremony and how far its credential is.
Working ==
  /\ \A k \in Creates \ ledger : record[k] = Missing
  /\ \A i \in Results : events[i].of \in ledger /\ events[i].credential \in Creates
  /\ work.on # Nobody =>
       /\ work.on \in ledger
       /\ \A i \in Results : events[i].of # work.on
  /\ work.step = "record" => work.on \in Creates
  /\ work.on \in Creates =>
       /\ work.step \in {"pend", "seal", "sealed", "record"} => record[work.on] = Missing
       /\ work.step \notin {"find", "count"} /\ work.count = 0
       /\ \A i \in Results : events[i].credential # work.on
  /\ work.step \in {"record", "count", "tell"} =>
       /\ work.credential \in Creates
       /\ sealed[work.credential] = "whole"
       /\ work.on \in Creates => work.credential = work.on
  /\ work.step = "count" =>
       /\ record[work.credential] # Missing
       /\ work.count = IF record[work.credential] < MaxCount
                         THEN record[work.credential] + 1 ELSE MaxCount
  /\ work.step = "tell" =>
       /\ record[work.credential] = work.count
       /\ \A i \in Results : events[i].credential = work.credential =>
            events[i].count < work.count \/ events[i].count = MaxCount

\* What waits for a tab is the tab's own, and nothing is left for a closed one.
Posted ==
  \A t \in Tab :
    /\ \A i \in 1 .. Len(queue[t]) : TabOf[queue[t][i]] = t
    /\ \A i \in 1 .. Len(inbox[t]) : TabOf[inbox[t][i]] = t
    /\ t \in closed => queue[t] = <<>> /\ inbox[t] = <<>>

\* A result is awaited for approved ceremonies only.
Awaited == waiting \subseteq approved

WorkerInv == Working /\ OneResult /\ PublishedStands
PageInv   == Posted /\ Awaited /\ ConsentOfThePage

IInv == Types /\ WorkerInv /\ PageInv

-----------------------------------------------------------------------------
(* Sequences. *)

LEMMA AppendProps ==
  ASSUME NEW S, NEW s \in Seq(S), NEW e \in S
  PROVE  /\ Append(s, e) \in Seq(S) /\ Len(Append(s, e)) = Len(s) + 1
         /\ Append(s, e)[Len(s) + 1] = e
         /\ \A i \in 1 .. Len(s) : Append(s, e)[i] = s[i]
  OBVIOUS

LEMMA TailProps ==
  ASSUME NEW S, NEW s \in Seq(S), s # <<>>
  PROVE  /\ Tail(s) \in Seq(S) /\ Len(Tail(s)) = Len(s) - 1
         /\ Head(s) \in S /\ Head(s) = s[1] /\ Len(s) \in Nat \ {0}
         /\ \A i \in 1 .. Len(s) - 1 : Tail(s)[i] = s[i + 1]
  OBVIOUS

LEMMA ElementOf ==
  ASSUME NEW S, NEW s \in Seq(S), NEW i \in 1 .. Len(s) PROVE s[i] \in S
  OBVIOUS

\* The results after one more event.
LEMMA MoreEvents ==
  ASSUME events \in Seq(Event), NEW e \in Event, events' = Append(events, e)
  PROVE  /\ events' \in Seq(Event) /\ Len(events') = Len(events) + 1
         /\ events'[Len(events) + 1] = e
         /\ \A i \in 1 .. Len(events) : events'[i] = events[i]
         /\ e.op = "pending" => Results' = Results
         /\ e.op # "pending" => Results' = Results \cup {Len(events) + 1}
<1>1. /\ events' \in Seq(Event) /\ Len(events') = Len(events) + 1
      /\ events'[Len(events) + 1] = e /\ Len(events) \in Nat
      /\ \A i \in 1 .. Len(events) : events'[i] = events[i]
  BY AppendProps
<1>2. 1 .. Len(events') = (1 .. Len(events)) \cup {Len(events) + 1}
  BY <1>1
<1> QED BY <1>1, <1>2 DEF Results

-----------------------------------------------------------------------------
(* Types. *)

\* A queue of the bridge takes a ceremony and keeps its bound.
LEMMA QueuedProps ==
  ASSUME NEW q \in Seq(Ceremony), Len(q) <= MaxQueue, NEW c \in Ceremony
  PROVE  /\ Queued(q, c) \in Seq(Ceremony) /\ Len(Queued(q, c)) <= MaxQueue
         /\ Len(q) >= MaxQueue => q # <<>>
         /\ \A i \in 1 .. Len(Queued(q, c)) :
              Queued(q, c)[i] = c \/ \E j \in 1 .. Len(q) : Queued(q, c)[i] = q[j]
<1>1. CASE Len(q) < MaxQueue
  <2>1. Queued(q, c) = Append(q, c) /\ Len(q) \in Nat
    BY <1>1 DEF Queued
  <2> QED BY <1>1, <2>1, AppendProps, BoundAssumption
<1>2. CASE ~(Len(q) < MaxQueue)
  <2>1. q # <<>> /\ Len(q) \in Nat
    BY <1>2, BoundAssumption
  <2>2. /\ Tail(q) \in Seq(Ceremony) /\ Len(Tail(q)) = Len(q) - 1
        /\ \A i \in 1 .. Len(q) - 1 : Tail(q)[i] = q[i + 1]
    BY <2>1, TailProps
  <2>3. Queued(q, c) = Append(Tail(q), c)
    BY <1>2 DEF Queued
  <2>4. /\ Queued(q, c) \in Seq(Ceremony) /\ Len(Queued(q, c)) = Len(q)
        /\ Queued(q, c)[Len(q)] = c
        /\ \A i \in 1 .. Len(q) - 1 : Queued(q, c)[i] = Tail(q)[i]
    BY <2>1, <2>2, <2>3, AppendProps
  <2>5. \A i \in 1 .. Len(q) - 1 : Queued(q, c)[i] = q[i + 1] /\ i + 1 \in 1 .. Len(q)
    BY <2>1, <2>2, <2>4
  <2>6. \A i \in 1 .. Len(q) : i = Len(q) \/ i \in 1 .. Len(q) - 1
    BY <2>1
  <2> QED BY <2>1, <2>4, <2>5, <2>6
<1> QED BY <1>1, <1>2

\* Who is served by the page's and the shell's steps.
LEMMA PageTypes ==
  ASSUME Types,
         \/ \E c \in Ceremony : Begin(c)
         \/ \E t \in Tab : Emit(t) \/ Navigate(t) \/ CloseTab(t) \/ HandleEvent(t)
         \/ User \/ PollResults
  PROVE  Types'
<1> USE CeremonyAssumption, BoundAssumption DEF Types, TypeOK, Busy, shell, worker, store
<1>1. ASSUME NEW c \in Ceremony, Begin(c) PROVE Types'
  <2> DEFINE t == TabOf[c]
  <2>1. t \in Tab /\ queue[t] \in Seq(Ceremony) /\ Len(queue[t]) <= MaxQueue
    OBVIOUS
  <2>2. Queued(queue[t], c) \in Seq(Ceremony) /\ Len(Queued(queue[t], c)) <= MaxQueue
    BY <2>1, QueuedProps
  <2>3. hung' \subseteq Ceremony
    <3>1. CASE Len(queue[t]) < MaxQueue
      BY <1>1, <3>1 DEF Begin
    <3>2. CASE ~(Len(queue[t]) < MaxQueue)
      <4>1. queue[t] # <<>>
        BY <2>1, <3>2
      <4>2. Head(queue[t]) \in Ceremony
        BY <2>1, <4>1, TailProps
      <4> QED BY <1>1, <3>2, <4>2 DEF Begin
    <3> QED BY <3>1, <3>2
  <2>4. queue' = [queue EXCEPT ![t] = Queued(queue[t], c)]
    BY <1>1 DEF Begin
  <2> HIDE DEF t
  <2>5. queue' \in [Tab -> Seq(Ceremony)] /\ \A u \in Tab : Len(queue'[u]) <= MaxQueue
    BY <2>1, <2>2, <2>4
  <2> QED BY <1>1, <2>3, <2>5 DEF Begin
<1>2. ASSUME NEW t \in Tab, Emit(t) PROVE Types'
  <2>1. /\ Tail(queue[t]) \in Seq(Ceremony) /\ Len(Tail(queue[t])) = Len(queue[t]) - 1
        /\ Head(queue[t]) \in Ceremony /\ Len(queue[t]) \in Nat
    BY <1>2, TailProps DEF Emit
  <2>2. queue' \in [Tab -> Seq(Ceremony)] /\ \A u \in Tab : Len(queue'[u]) <= MaxQueue
    <3>1. queue' = [queue EXCEPT ![t] = Tail(queue[t])] /\ queue \in [Tab -> Seq(Ceremony)]
      BY <1>2 DEF Emit
    <3>2. \A u \in Tab : queue'[u] = IF u = t THEN Tail(queue[t]) ELSE queue[u]
      BY <3>1
    <3>3. Len(Tail(queue[t])) <= MaxQueue
      BY <2>1
    <3> QED BY <2>1, <3>1, <3>2, <3>3
  <2>3. Append(inbox[t], Head(queue[t])) \in Seq(Ceremony)
    BY <2>1, AppendProps
  <2>4. inbox' \in [Tab -> Seq(Ceremony)]
    <3>1. inbox' = inbox \/ inbox' = [inbox EXCEPT ![t] = Append(inbox[t], Head(queue[t]))]
      BY <1>2 DEF Emit
    <3> QED BY <2>3, <3>1
  <2>5. hung' \subseteq Ceremony
    BY <1>2, <2>1 DEF Emit
  <2> QED BY <1>2, <2>2, <2>4, <2>5 DEF Emit
<1>3. <<>> \in Seq(Ceremony) /\ Len(<<>>) = 0
  OBVIOUS
<1>4. ASSUME NEW t \in Tab
      PROVE  Leave(t) \in [Ceremony -> {"none", "waiting", "resolved", "rejected", "gone"}]
  BY DEF Leave
<1>5. ASSUME NEW t \in Tab, queue' = [queue EXCEPT ![t] = <<>>]
      PROVE  queue' \in [Tab -> Seq(Ceremony)] /\ \A u \in Tab : Len(queue'[u]) <= MaxQueue
  BY <1>3, <1>5
<1>6. ASSUME NEW t \in Tab, Navigate(t) PROVE Types'
  BY <1>4, <1>5, <1>6 DEF Navigate
<1>7. ASSUME NEW t \in Tab, CloseTab(t) PROVE Types'
  <2>1. inbox' \in [Tab -> Seq(Ceremony)]
    BY <1>3, <1>7 DEF CloseTab
  <2>2. consent' \in Ceremony \cup {Nobody} /\ waiting' \subseteq Ceremony /\ closed' \subseteq Tab
    BY <1>7 DEF CloseTab
  <2> QED BY <1>4, <1>5, <1>7, <2>1, <2>2 DEF CloseTab
<1>8. ASSUME NEW c \in Ceremony, NEW how \in {"resolved", "rejected"}, Settle(c, how)
      PROVE  page' \in [Ceremony -> {"none", "waiting", "resolved", "rejected", "gone"}]
  BY <1>8 DEF Settle
<1>9. ASSUME NEW t \in Tab, HandleEvent(t) PROVE Types'
  <2>1. Tail(inbox[t]) \in Seq(Ceremony) /\ Head(inbox[t]) \in Ceremony
    BY <1>9, TailProps DEF HandleEvent
  <2>2. inbox' \in [Tab -> Seq(Ceremony)]
    BY <1>9, <2>1 DEF HandleEvent
  <2>3. /\ hung' \subseteq Ceremony /\ consent' \in Ceremony \cup {Nobody}
        /\ page' \in [Ceremony -> {"none", "waiting", "resolved", "rejected", "gone"}]
    BY <1>8, <1>9, <2>1 DEF HandleEvent
  <2> QED BY <1>9, <2>2, <2>3 DEF HandleEvent
<1>10. CASE Approve
  <2>1. consent \in Ceremony /\ Append(requests, consent) \in Seq(Ceremony)
    BY <1>10, AppendProps DEF Approve
  <2>2. Len(Append(requests, consent)) = Len(requests) + 1 /\ Len(requests) \in Nat
    BY <2>1, AppendProps
  <2>3. requests' = requests \/ requests' = Append(requests, consent)
    BY <1>10 DEF Approve, Approved
  <2>4. requests' \in Seq(Ceremony) /\ read \in 0 .. Len(requests')
    <3>1. CASE requests' = requests
      BY <3>1
    <3>2. CASE requests' = Append(requests, consent)
      BY <2>1, <2>2, <3>2
    <3> QED BY <2>3, <3>1, <3>2
  <2>5. waiting' \subseteq Ceremony /\ hung' \subseteq Ceremony
    BY <1>10, <2>1 DEF Approve, Approved
  <2> QED BY <1>10, <2>1, <2>4, <2>5 DEF Approve
<1>11. CASE Deny
  BY <1>8, <1>11 DEF Deny
<1>12. CASE PollResults
  <2>1. polled + 1 \in 1 .. Len(events) /\ polled' \in 0 .. Len(events)
    BY <1>12 DEF PollResults
  <2>2. events[polled + 1].of \in Ceremony
    <3>1. events[polled + 1] \in Event
      BY <2>1, ElementOf
    <3> QED BY <3>1 DEF Event
  <2>3. /\ waiting' \subseteq Ceremony
        /\ page' \in [Ceremony -> {"none", "waiting", "resolved", "rejected", "gone"}]
    BY <1>8, <1>12, <2>2 DEF PollResults
  <2> QED BY <1>12, <2>1, <2>3 DEF PollResults
<1> QED BY <1>1, <1>2, <1>6, <1>7, <1>9, <1>10, <1>11, <1>12, Zenon DEF User

\* What the worker may have in hand.
WorkRecord == [on : Ceremony \cup {Nobody}, step : Steps,
               credential : Creates \cup {Nobody}, count : 0 .. MaxCount]

LEMMA WorkRecords ==
  /\ Idle \in WorkRecord /\ Idle.on = Nobody /\ Idle.step = "idle"
  /\ \A w \in WorkRecord, s \in Steps : [w EXCEPT !.step = s] \in WorkRecord
  /\ \A w \in WorkRecord, c \in Ceremony, s \in Steps :
       [w EXCEPT !.on = c, !.step = s] \in WorkRecord
  /\ \A w \in WorkRecord, k \in Creates, s \in Steps :
       [w EXCEPT !.step = s, !.credential = k] \in WorkRecord
  /\ \A w \in WorkRecord, k \in Creates, s \in Steps, n \in 0 .. MaxCount :
       [w EXCEPT !.step = s, !.credential = k, !.count = n] \in WorkRecord
<1>1. Idle \in WorkRecord /\ Idle.on = Nobody /\ Idle.step = "idle"
  BY BoundAssumption DEF Idle, WorkRecord, Steps
<1> QED BY <1>1 DEF WorkRecord

\* A step of the worker keeps the types if what it writes has them.
LEMMA WorkerKeeps ==
  ASSUME Types, UNCHANGED <<page, queue, inbox, closed, shell, requests, approved>>,
         events' \in Seq(Event), Len(events) <= Len(events'),
         up' \in BOOLEAN, work' \in WorkRecord, Busy', read' \in 0 .. Len(requests),
         ledger' \subseteq Ceremony, over' \subseteq Ceremony,
         record' \in [Creates -> (0 .. MaxCount) \cup {Missing}],
         sealed' \in [Creates -> KeyFile], hung' \subseteq Ceremony, ends' \in 0 .. MaxEnds
  PROVE  Types'
<1>1. polled' \in 0 .. Len(events')
  BY DEF Types, TypeOK, shell
<1> QED BY <1>1 DEF Types, TypeOK, shell, WorkRecord

LEMMA WorkerTypes == ASSUME Types, Start \/ End \/ Work PROVE Types'
<1>1. /\ events \in Seq(Event) /\ Len(events) <= Len(events) /\ up \in BOOLEAN
      /\ work \in WorkRecord /\ Busy /\ read \in 0 .. Len(requests)
      /\ ledger \subseteq Ceremony /\ over \subseteq Ceremony
      /\ record \in [Creates -> (0 .. MaxCount) \cup {Missing}]
      /\ sealed \in [Creates -> KeyFile] /\ hung \subseteq Ceremony /\ ends \in 0 .. MaxEnds
  BY DEF Types, TypeOK, WorkRecord
<1>2. /\ work.on \in Ceremony \cup {Nobody} /\ work.step \in Steps
      /\ work.credential \in Creates \cup {Nobody} /\ work.count \in 0 .. MaxCount
      /\ work.step # "idle" => work.on \in Ceremony
  BY <1>1 DEF WorkRecord, Busy
<1>3. CASE Start
  BY <1>1, <1>3, WorkerKeeps DEF Start, store, Busy
<1>4. CASE End
  <2>1. hung' \subseteq Ceremony /\ ends' \in 0 .. MaxEnds /\ read' \in 0 .. Len(requests)
    BY <1>1, <1>2, <1>4, BoundAssumption DEF End
  <2>2. work' \in WorkRecord /\ Busy'
    BY <1>4, WorkRecords DEF End, Busy
  <2> QED BY <1>1, <1>4, <2>1, <2>2, WorkerKeeps DEF End, store
<1>5. CASE Read
  <2> DEFINE c == requests[read + 1]
  <2>1. read + 1 \in 1 .. Len(requests) /\ requests \in Seq(Ceremony)
    BY <1>1, <1>5 DEF Read, Types, TypeOK
  <2>2. c \in Ceremony
    BY <2>1, ElementOf
  <2>3. /\ work' = work \/ work' = [work EXCEPT !.on = c, !.step = "pend"]
        /\ ledger' = ledger \/ ledger' = ledger \cup {c}
        /\ over' = over \/ over' = over \cup {c}
        /\ hung' = hung \/ hung' = hung \cup {c}
    BY <1>5, Zenon DEF Read
  <2> HIDE DEF c
  <2>4. work' \in WorkRecord /\ Busy'
    <3>1. CASE work' = work
      BY <1>1, <3>1 DEF Busy
    <3>2. CASE work' = [work EXCEPT !.on = c, !.step = "pend"]
      <4>1. "pend" \in Steps
        BY DEF Steps
      <4>2. work' \in WorkRecord
        BY <1>1, <2>2, <3>2, <4>1, WorkRecords
      <4>3. work'.on = c /\ work'.step = "pend"
        BY <1>1, <3>2 DEF WorkRecord
      <4> QED BY <2>2, <4>2, <4>3, ValueAssumption DEF Busy
    <3> QED BY <2>3, <3>1, <3>2
  <2>5. /\ UNCHANGED <<page, queue, inbox, closed, shell, requests, events, up, record,
                        sealed, approved, ends>>
        /\ read' = read + 1
    BY <1>5 DEF Read
  <2> QED BY <1>1, <2>1, <2>2, <2>3, <2>4, <2>5, WorkerKeeps
\* The steps of a ceremony under way.
<1>6. ASSUME NEW s \in Steps \ {"idle"}, work.step # "idle",
             work'.step = s, work'.on = work.on,
             s \in {"seal", "sealed"} => work.on \in Creates
      PROVE  Busy'
  BY <1>1, <1>6 DEF Busy
<1>7. ASSUME NEW s \in Steps \ {"idle"}, work.step # "idle", Then(s),
             s \in {"seal", "sealed"} => work.on \in Creates
      PROVE  work' \in WorkRecord /\ Busy'
  <2>1. work' \in WorkRecord
    BY <1>1, <1>7, WorkRecords DEF Then
  <2>2. work'.step = s /\ work'.on = work.on
    BY <1>1, <1>7 DEF Then, WorkRecord
  <2> QED BY <1>6, <1>7, <2>1, <2>2
<1>8. CASE Fail
  <2>1. work.on \in Ceremony
    BY <1>2, <1>8 DEF Fail
  <2>2. work' \in WorkRecord /\ Busy'
    BY <1>8, WorkRecords DEF Fail, Busy
  <2> QED BY <1>1, <1>8, <2>1, <2>2, WorkerKeeps DEF Fail, store
<1>9. ASSUME NEW e \in Event, events' = Append(events, e)
      PROVE  events' \in Seq(Event) /\ Len(events) <= Len(events')
  <2>1. events' \in Seq(Event) /\ Len(events') = Len(events) + 1 /\ Len(events) \in Nat
    BY <1>1, <1>9, AppendProps
  <2> QED BY <2>1
<1>10. CASE Pend
  <2>1. work.on \in Ceremony
    BY <1>2, <1>10 DEF Pend, At
  <2>2. [op |-> "pending", of |-> work.on, credential |-> Nobody, count |-> 0] \in Event
    BY <2>1, BoundAssumption DEF Event
  <2>3. events' \in Seq(Event) /\ Len(events) <= Len(events')
    BY <1>9, <1>10, <2>2 DEF Pend
  <2>4. work' \in WorkRecord /\ Busy'
    <3>1. (Then("seal") /\ work.on \in Creates) \/ Then("find")
      BY <1>10 DEF Pend
    <3> QED BY <1>7, <1>10, <3>1 DEF Pend, At, Steps
  <2> QED BY <1>1, <1>10, <2>3, <2>4, WorkerKeeps DEF Pend, store
<1>11. CASE Seal
  <2>1. sealed' \in [Creates -> KeyFile]
    BY <1>1, <1>11 DEF Seal, KeyFile
  <2>2. work' \in WorkRecord /\ Busy'
    BY <1>1, <1>7, <1>11 DEF Seal, At, Steps, Busy
  <2> QED BY <1>1, <1>11, <2>1, <2>2, WorkerKeeps DEF Seal
<1>12. CASE Sealed
  <2>1. sealed' \in [Creates -> KeyFile]
    BY <1>1, <1>12 DEF Sealed, KeyFile
  <2>2. work.on \in Creates /\ work.step # "idle" /\ "record" \in Steps
    BY <1>1, <1>12 DEF Sealed, At, Busy, Steps
  <2>3. work' = [work EXCEPT !.step = "record", !.credential = work.on]
    BY <1>12 DEF Sealed
  <2>4. work' \in WorkRecord
    BY <1>1, <2>2, <2>3, WorkRecords
  <2>5. work'.step = "record" /\ work'.on = work.on
    BY <1>1, <2>3 DEF WorkRecord
  <2>6. Busy'
    BY <1>6, <2>2, <2>5
  <2> QED BY <1>1, <1>12, <2>1, <2>4, <2>6, WorkerKeeps DEF Sealed
<1>13. CASE Find
  <2>1. CASE work' = Idle /\ hung' = hung \cup {work.on}
    <3>1. work.on \in Ceremony
      BY <1>2, <1>13 DEF Find, At
    <3>2. work' \in WorkRecord /\ Busy'
      BY <2>1, WorkRecords DEF Busy
    <3> QED BY <1>1, <1>13, <2>1, <3>1, <3>2, WorkerKeeps DEF Find, store
  <2>2. ASSUME NEW k \in Creates, record[k] # Missing, UNCHANGED hung,
               work' = [work EXCEPT !.step = "count", !.credential = k,
                          !.count = IF record[k] < MaxCount THEN record[k] + 1
                                                            ELSE MaxCount]
        PROVE  Types'
    <3> DEFINE n == IF record[k] < MaxCount THEN record[k] + 1 ELSE MaxCount
    <3>1. n \in 0 .. MaxCount /\ "count" \in Steps
      <4>1. record[k] \in 0 .. MaxCount
        BY <1>1, <2>2
      <4> QED BY <4>1, BoundAssumption DEF Steps
    <3>2. work' = [work EXCEPT !.step = "count", !.credential = k, !.count = n]
      BY <2>2
    <3> HIDE DEF n
    <3>3. work' \in WorkRecord
      BY <1>1, <3>1, <3>2, WorkRecords
    <3>4. work'.step = "count" /\ work'.on = work.on
      BY <1>1, <3>2 DEF WorkRecord
    <3>5. Busy'
      BY <1>6, <1>13, <3>1, <3>4 DEF Find, At
    <3> QED BY <1>1, <1>13, <2>2, <3>3, <3>5, WorkerKeeps DEF Find, store
  <2> QED BY <1>13, <2>1, <2>2 DEF Find
<1>14. ASSUME NEW step \in {"record", "count"}, Record(step) PROVE Types'
  <2>1. record' \in [Creates -> (0 .. MaxCount) \cup {Missing}]
    <3>1. record' = [record EXCEPT ![work.credential] = work.count]
      BY <1>14 DEF Record
    <3> QED BY <1>1, <1>2, <3>1
  <2>2. work' \in WorkRecord /\ Busy'
    BY <1>7, <1>14 DEF Record, At, Steps
  <2> QED BY <1>1, <1>14, <2>1, <2>2, WorkerKeeps DEF Record
<1>15. CASE Tell
  <2> DEFINE e == [op |-> IF work.on \in Creates THEN "created" ELSE "assertion",
                   of |-> work.on, credential |-> work.credential, count |-> work.count]
  <2>1. work.on \in Ceremony
    BY <1>2, <1>15 DEF Tell, At
  <2>2. e \in Event
    BY <1>2, <2>1 DEF Event
  <2>3. events' = Append(events, e)
    BY <1>15 DEF Tell
  <2> HIDE DEF e
  <2>4. events' \in Seq(Event) /\ Len(events) <= Len(events')
    BY <1>9, <2>2, <2>3
  <2>5. work' \in WorkRecord /\ Busy'
    BY <1>15, WorkRecords DEF Tell, Busy
  <2> QED BY <1>1, <1>15, <2>4, <2>5, WorkerKeeps DEF Tell, store
<1> QED
  BY <1>3, <1>4, <1>5, <1>8, <1>10, <1>11, <1>12, <1>13, <1>14, <1>15
  DEF Work, RecordNew, Count

-----------------------------------------------------------------------------
(* The worker. *)

\* What pages and the shell do leaves the worker's part alone.
LEMMA PageLeavesWorker ==
  ASSUME WorkerInv, UNCHANGED <<events, work, store>>
  PROVE  WorkerInv'
<1>1. Results' = Results
  BY DEF Results
<1> QED BY <1>1 DEF WorkerInv, Working, OneResult, PublishedStands, CounterRises,
                    PublishedIsDurable, store

\* A step that publishes no result keeps what was published if it neither
\* takes back a credential nor lowers a counter.
LEMMA NoResult ==
  ASSUME Types, WorkerInv, Results' = Results,
         \A i \in Results : events'[i] = events[i],
         \A i \in Results : LET k == events[i].credential IN
           /\ record'[k] # Missing /\ record'[k] >= events[i].count
           /\ sealed'[k] = "whole"
  PROVE  OneResult' /\ PublishedStands'
BY DEF WorkerInv, OneResult, PublishedStands, CounterRises, PublishedIsDurable

LEMMA WorkerStep ==
  ASSUME Types, WorkerInv, Start \/ End \/ Work
  PROVE  WorkerInv'
<1>1. /\ Working /\ OneResult /\ CounterRises /\ PublishedIsDurable
      /\ events \in Seq(Event) /\ work \in WorkRecord
      /\ ledger \subseteq Ceremony
      /\ record \in [Creates -> (0 .. MaxCount) \cup {Missing}]
      /\ sealed \in [Creates -> KeyFile]
  BY DEF WorkerInv, PublishedStands, Types, TypeOK, WorkRecord
<1>2. /\ work.on \in Ceremony \cup {Nobody} /\ work.step \in Steps
      /\ work.credential \in Creates \cup {Nobody} /\ work.count \in 0 .. MaxCount
      /\ work.on = Nobody <=> work.step = "idle"
      /\ work.step \in {"seal", "sealed"} => work.on \in Creates
  BY <1>1 DEF WorkRecord, Types, Busy
\* A worker that stops or gives up.
<1>3. ASSUME work' = Idle, UNCHANGED <<events, store>> PROVE WorkerInv'
  <2>1. Results' = Results
    BY <1>3 DEF Results
  <2>2. Working'
    BY <1>1, <1>3, <2>1, CeremonyAssumption, ValueAssumption
       DEF Working, Idle, store, Ceremony
  <2>3. OneResult' /\ PublishedStands'
    BY <1>1, <1>3, <2>1, NoResult DEF store, PublishedIsDurable
  <2> QED BY <2>2, <2>3 DEF WorkerInv
<1>4. CASE Start
  BY <1>4, PageLeavesWorker DEF Start
<1>5. CASE End
  BY <1>3, <1>5 DEF End
<1>6. CASE Fail
  BY <1>3, <1>6 DEF Fail
<1>7. CASE Read
  <2> DEFINE c == requests[read + 1]
  <2>1. /\ work = Idle /\ UNCHANGED <<events, record, sealed>>
        /\ \/ /\ c \notin ledger /\ ledger' = ledger \cup {c}
              /\ work' = [work EXCEPT !.on = c, !.step = "pend"]
           \/ UNCHANGED <<ledger, work>>
    BY <1>7, Zenon DEF Read, Authorized
  <2>2. c \in Ceremony
    <3>1. read + 1 \in 1 .. Len(requests) /\ requests \in Seq(Ceremony)
      BY <1>7 DEF Read, Types, TypeOK
    <3> QED BY <3>1, ElementOf
  <2> HIDE DEF c
  <2>3. Results' = Results /\ OneResult' /\ PublishedStands'
    <3>1. Results' = Results
      BY <2>1 DEF Results
    <3> QED BY <1>1, <2>1, <3>1, NoResult DEF PublishedIsDurable
  <2>4. CASE UNCHANGED <<ledger, work>>
    BY <1>1, <2>1, <2>3, <2>4 DEF Working, WorkerInv
  <2>5. CASE /\ c \notin ledger /\ ledger' = ledger \cup {c}
             /\ work' = [work EXCEPT !.on = c, !.step = "pend"]
    <3>1. work'.on = c /\ work'.step = "pend" /\ work'.count = 0
      BY <2>1, <2>5 DEF Idle
    <3>2. \A i \in Results : events[i].of # c
      BY <1>1, <2>5 DEF Working
    <3>3. c \in Creates => record[c] = Missing
      BY <1>1, <2>5 DEF Working
    <3>4. \A i \in Results : events[i].credential # c
      BY <1>1, <3>3 DEF Working, PublishedIsDurable
    <3>5. Working'
      BY <1>1, <2>1, <2>3, <2>5, <3>1, <3>2, <3>3, <3>4 DEF Working
    <3> QED BY <2>3, <3>5 DEF WorkerInv
  <2> QED BY <2>1, <2>4, <2>5
<1>8. CASE Pend
  <2>1. [op |-> "pending", of |-> work.on, credential |-> Nobody, count |-> 0] \in Event
    BY <1>2, <1>8, BoundAssumption DEF Pend, At, Event
  <2>2. Results' = Results /\ \A i \in Results : events'[i] = events[i]
    BY <1>1, <1>8, <2>1, MoreEvents DEF Pend, Results
  <2>3. UNCHANGED store /\ work.step = "pend"
    BY <1>8 DEF Pend, At
  <2>4. /\ work'.on = work.on /\ work'.credential = work.credential
        /\ work'.count = work.count
        /\ work'.step = IF work.on \in Creates THEN "seal" ELSE "find"
    BY <1>1, <1>8 DEF Pend, Then, WorkRecord
  <2>5. Working'
    BY <1>1, <2>2, <2>3, <2>4 DEF Working, store
  <2>6. OneResult' /\ PublishedStands'
    BY <1>1, <2>2, <2>3, NoResult DEF store, PublishedIsDurable
  <2> QED BY <2>5, <2>6 DEF WorkerInv
\* Writing the key of a credential that has no result yet.
<1>9. ASSUME work.step \in {"seal", "sealed"}, UNCHANGED <<events, ledger, record>>,
             NEW how \in KeyFile, sealed' = [sealed EXCEPT ![work.on] = how]
      PROVE  /\ OneResult' /\ PublishedStands' /\ Results' = Results
             /\ work.on \in Creates /\ sealed'[work.on] = how
  <2>1. work.on \in Creates /\ Results' = Results
    BY <1>2, <1>9 DEF Results
  <2>2. \A i \in Results : events[i].credential # work.on /\ events[i].credential \in Creates
    BY <1>1, <2>1 DEF Working
  <2>3. \A i \in Results : sealed'[events[i].credential] = "whole"
    BY <1>1, <1>9, <2>2 DEF PublishedIsDurable
  <2> QED BY <1>1, <1>9, <2>1, <2>3, NoResult DEF PublishedIsDurable
<1>10. CASE Seal
  <2>1. /\ work.step = "seal" /\ UNCHANGED <<events, ledger, record>>
        /\ sealed' = [sealed EXCEPT ![work.on] = "torn"] /\ "torn" \in KeyFile
    BY <1>10 DEF Seal, At, KeyFile
  <2>2. OneResult' /\ PublishedStands' /\ Results' = Results /\ work.on \in Creates
    BY <1>9, <2>1
  <2>3. /\ work'.on = work.on /\ work'.credential = work.credential
        /\ work'.count = work.count /\ work'.step = "sealed"
    BY <1>1, <1>10 DEF Seal, Then, WorkRecord
  <2>4. Working'
    BY <1>1, <2>1, <2>2, <2>3 DEF Working
  <2> QED BY <2>2, <2>4 DEF WorkerInv
<1>11. CASE Sealed
  <2>1. /\ work.step = "sealed" /\ UNCHANGED <<events, ledger, record>>
        /\ sealed' = [sealed EXCEPT ![work.on] = "whole"] /\ "whole" \in KeyFile
    BY <1>11 DEF Sealed, At, KeyFile
  <2>2. OneResult' /\ PublishedStands' /\ Results' = Results /\ work.on \in Creates
        /\ sealed'[work.on] = "whole"
    BY <1>9, <2>1
  <2>3. /\ work'.on = work.on /\ work'.credential = work.on
        /\ work'.count = work.count /\ work'.step = "record"
    BY <1>1, <1>11 DEF Sealed, WorkRecord
  <2>4. Working'
    BY <1>1, <2>1, <2>2, <2>3 DEF Working
  <2> QED BY <2>2, <2>4 DEF WorkerInv
<1>12. CASE Find
  <2>1. CASE work' = Idle
    BY <1>3, <1>12, <2>1 DEF Find
  <2>2. ASSUME NEW k \in Creates, record[k] # Missing, sealed[k] = "whole",
               work' = [work EXCEPT !.step = "count", !.credential = k,
                          !.count = IF record[k] < MaxCount THEN record[k] + 1
                                                            ELSE MaxCount]
        PROVE  WorkerInv'
    <3>1. /\ work'.on = work.on /\ work'.step = "count" /\ work'.credential = k
          /\ work'.count = IF record[k] < MaxCount THEN record[k] + 1 ELSE MaxCount
      BY <1>1, <2>2 DEF WorkRecord
    <3>2. UNCHANGED <<events, store>> /\ work.step = "find"
      BY <1>12 DEF Find, At
    <3>3. Results' = Results
      BY <3>2 DEF Results
    <3>4. work.on \notin Creates
      BY <1>1, <3>2 DEF Working
    <3>5. Working'
      BY <1>1, <2>2, <3>1, <3>2, <3>3, <3>4 DEF Working, store
    <3>6. OneResult' /\ PublishedStands'
      BY <1>1, <3>2, <3>3, NoResult DEF store, PublishedIsDurable
    <3> QED BY <3>5, <3>6 DEF WorkerInv
  <2> QED BY <1>12, <2>1, <2>2 DEF Find
\* The counter is written before it is told.
<1>13. CASE Count
  <2> DEFINE k == work.credential
  <2>1. /\ work.step = "count" /\ UNCHANGED <<events, ledger, sealed>>
        /\ record' = [record EXCEPT ![k] = work.count]
    BY <1>13 DEF Count, Record, At
  <2>2. /\ work'.on = work.on /\ work'.credential = k
        /\ work'.count = work.count /\ work'.step = "tell"
    BY <1>1, <1>13 DEF Count, Record, Then, WorkRecord
  <2>3. /\ k \in Creates /\ sealed[k] = "whole" /\ work.on \notin Creates
        /\ record[k] \in 0 .. MaxCount /\ k \in ledger
        /\ work.count = IF record[k] < MaxCount THEN record[k] + 1 ELSE MaxCount
    BY <1>1, <2>1 DEF Working
  <2>4. work.count \in 0 .. MaxCount /\ work.count >= record[k] /\ work.count # Missing
    BY <1>2, <2>3, BoundAssumption, ValueAssumption
  <2> HIDE DEF k
  <2>5. Results' = Results
    BY <2>1 DEF Results
  <2>6. \A i \in Results : events[i].count \in 0 .. MaxCount
    <3>1. \A i \in Results : events[i] \in Event
      BY <1>1, ElementOf DEF Results
    <3> QED BY <3>1 DEF Event
  <2>7. \A i \in Results : LET j == events[i].credential IN
          /\ record'[j] # Missing /\ record'[j] >= events[i].count
          /\ sealed'[j] = "whole"
    <3> SUFFICES ASSUME NEW i \in Results
                 PROVE  LET j == events[i].credential IN
                        /\ record'[j] # Missing /\ record'[j] >= events[i].count
                        /\ sealed'[j] = "whole"
      OBVIOUS
    <3> DEFINE j == events[i].credential
    <3>1. j \in Creates /\ record[j] # Missing /\ record[j] >= events[i].count
          /\ sealed[j] = "whole" /\ events[i].count \in Nat
      BY <1>1, <2>6, BoundAssumption DEF Working, PublishedIsDurable
    <3>2. record'[j] = IF j = k THEN work.count ELSE record[j]
      BY <1>1, <2>1, <3>1
    <3> QED BY <2>1, <2>3, <2>4, <3>1, <3>2
  <2>8. OneResult' /\ PublishedStands'
    BY <1>1, <2>1, <2>5, <2>7, NoResult
  <2>9. \A i \in Results : events[i].credential = k =>
          events[i].count < work.count \/ events[i].count = MaxCount
    BY <1>1, <2>3, <2>6, BoundAssumption DEF PublishedIsDurable
  <2>10. record'[k] = work.count /\ \A c \in Creates \ {k} : record'[c] = record[c]
    BY <1>1, <2>1, <2>3
  <2>11. Working'
    BY <1>1, <2>1, <2>2, <2>3, <2>5, <2>9, <2>10 DEF Working
  <2> QED BY <2>8, <2>11 DEF WorkerInv
<1>14. CASE RecordNew
  <2> DEFINE k == work.on
  <2>1. /\ work.step = "record" /\ UNCHANGED <<events, ledger, sealed>>
        /\ k \in Creates /\ work.credential = k /\ sealed[k] = "whole"
        /\ k \in ledger /\ work.count = 0
        /\ record' = [record EXCEPT ![k] = 0]
        /\ \A i \in Results : events[i].credential # k
    BY <1>1, <1>14, ValueAssumption, CeremonyAssumption
       DEF RecordNew, Record, At, Working, Ceremony
  <2>2. /\ work'.on = k /\ work'.credential = k
        /\ work'.count = 0 /\ work'.step = "tell"
    BY <1>1, <1>14, <2>1 DEF RecordNew, Record, Then, WorkRecord
  <2> HIDE DEF k
  <2>3. Results' = Results
    BY <2>1 DEF Results
  <2>4. record'[k] = 0 /\ \A c \in Creates \ {k} : record'[c] = record[c]
    BY <1>1, <2>1
  <2>5. OneResult' /\ PublishedStands'
    BY <1>1, <2>1, <2>3, <2>4, NoResult DEF PublishedIsDurable, Working
  <2>6. \A i \in Results : events[i].of # k
    BY <1>1, <1>2, <2>1, ValueAssumption DEF Working, Ceremony, k
  <2>7. Working'
    BY <1>1, <2>1, <2>2, <2>3, <2>4, <2>6 DEF Working
  <2> QED BY <2>5, <2>7 DEF WorkerInv
<1>15. CASE Tell
  <2> DEFINE e == [op |-> IF work.on \in Creates THEN "created" ELSE "assertion",
                   of |-> work.on, credential |-> work.credential, count |-> work.count]
             n == Len(events) + 1
  <2>1. work.step = "tell" /\ UNCHANGED store /\ work' = Idle /\ events' = Append(events, e)
    BY <1>15 DEF Tell, At
  <2>2. e \in Event /\ e.op # "pending" /\ e.of = work.on
        /\ e.credential = work.credential /\ e.count = work.count
    BY <1>2, <2>1 DEF Event
  <2> HIDE DEF e
  <2>3. /\ Results' = Results \cup {n} /\ events'[n] = e /\ n \notin Results
        /\ \A i \in Results : events'[i] = events[i] /\ i < n
        /\ Results \subseteq Nat /\ n \in Nat
    <3>1. /\ Results' = Results \cup {n} /\ events'[n] = e
          /\ \A i \in 1 .. Len(events) : events'[i] = events[i]
      BY <1>1, <2>1, <2>2, MoreEvents
    <3>2. Results \subseteq 1 .. Len(events) /\ Len(events) \in Nat
      BY <1>1 DEF Results
    <3> QED BY <3>1, <3>2
  <2> HIDE DEF n
  <2>4. /\ work.on \in ledger /\ work.credential \in Creates
        /\ sealed[work.credential] = "whole" /\ record[work.credential] = work.count
        /\ \A i \in Results : events[i].of # work.on
        /\ \A i \in Results : events[i].credential = work.credential =>
             events[i].count < work.count \/ events[i].count = MaxCount
    BY <1>1, <1>2, <2>1 DEF Working
  <2>5. OneResult'
    BY <1>1, <2>2, <2>3, <2>4 DEF OneResult
  <2>6. CounterRises'
    <3> SUFFICES ASSUME NEW i \in Results', NEW j \in Results', i < j,
                        events'[i].credential = events'[j].credential
                 PROVE  events'[i].count < events'[j].count \/ events'[i].count = MaxCount
      BY DEF CounterRises
    <3>1. i \in Results
      BY <2>3
    <3>2. CASE j \in Results
      BY <1>1, <2>3, <3>1, <3>2 DEF CounterRises
    <3>3. CASE j = n
      BY <2>2, <2>3, <2>4, <3>1, <3>3
    <3> QED BY <2>3, <3>2, <3>3
  <2>7. work.count \in Nat /\ work.count # Missing
    BY <1>2, BoundAssumption, ValueAssumption
  <2>8. PublishedIsDurable'
    <3> SUFFICES ASSUME NEW i \in Results'
                 PROVE  LET k == events'[i].credential IN
                        /\ record[k] # Missing /\ record[k] >= events'[i].count
                        /\ sealed[k] = "whole"
      BY <2>1 DEF PublishedIsDurable, store
    <3>1. CASE i \in Results
      BY <1>1, <2>3, <3>1 DEF PublishedIsDurable
    <3>2. CASE i = n
      BY <2>2, <2>3, <2>4, <2>7, <3>2
    <3> QED BY <2>3, <3>1, <3>2
  <2>9. Working'
    BY <1>1, <2>1, <2>2, <2>3, <2>4, CeremonyAssumption, ValueAssumption
       DEF Working, Idle, store, Ceremony
  <2> QED BY <2>5, <2>6, <2>8, <2>9 DEF WorkerInv, PublishedStands
<1> QED
  BY <1>4, <1>5, <1>6, <1>7, <1>8, <1>10, <1>11, <1>12, <1>13, <1>14, <1>15 DEF Work

-----------------------------------------------------------------------------
(* The pages and the shell. *)

\* The worker leaves the tabs and what the shell waits for alone; the results
\* that are there stay.
LEMMA WorkerLeavesPage ==
  ASSUME Types, PageInv, Start \/ End \/ Work
  PROVE  PageInv'
<1>1. UNCHANGED <<page, queue, inbox, closed, shell, approved>>
  BY DEF Start, End, Work, Read, Fail, Pend, Seal, Sealed, Find, RecordNew, Count, Record,
         Tell
<1>2. events \in Seq(Event) /\ polled \in 0 .. Len(events) /\ Len(events) \in Nat
  BY DEF Types, TypeOK
<1>3. events' = events \/ \E e : events' = Append(events, e)
  BY DEF Start, End, Work, Read, Fail, Pend, Seal, Sealed, Find, RecordNew, Count, Record,
         Tell, worker
<1>4. /\ Len(events') >= Len(events) /\ Len(events') \in Nat
      /\ \A i \in 1 .. Len(events) : events'[i] = events[i]
  BY <1>2, <1>3
<1>5. \A i \in Results : i \in Results' /\ events'[i] = events[i]
  BY <1>2, <1>4 DEF Results
<1> QED
  BY <1>1, <1>5 DEF PageInv, Posted, Awaited, ConsentOfThePage, ResolvedWithConsent,
                    NothingForClosed, shell

\* Steps that resolve no promise and await no other ceremony.
LEMMA NoneResolved ==
  ASSUME PageInv, UNCHANGED <<events, polled>>, approved \subseteq approved',
         \A c \in Ceremony : page'[c] = "resolved" => page[c] = "resolved",
         waiting' \subseteq waiting
  PROVE  Awaited' /\ ResolvedWithConsent'
<1>1. Results' = Results
  BY DEF Results
<1> QED BY <1>1 DEF PageInv, Awaited, ConsentOfThePage, ResolvedWithConsent

LEMMA PageStep ==
  ASSUME Types, WorkerInv, PageInv,
         \/ \E c \in Ceremony : Begin(c)
         \/ \E t \in Tab : Emit(t) \/ Navigate(t) \/ CloseTab(t) \/ HandleEvent(t)
         \/ User \/ PollResults
  PROVE  PageInv'
<1>1. /\ queue \in [Tab -> Seq(Ceremony)] /\ inbox \in [Tab -> Seq(Ceremony)]
      /\ \A t \in Tab : Len(queue[t]) <= MaxQueue
      /\ page \in [Ceremony -> {"none", "waiting", "resolved", "rejected", "gone"}]
      /\ consent \in Ceremony \cup {Nobody} /\ waiting \subseteq Ceremony
      /\ Posted /\ NothingForClosed
  BY DEF Types, TypeOK, PageInv, ConsentOfThePage
<1>2. TabOf \in [Ceremony -> Tab]
  BY CeremonyAssumption
\* What keeps the mail of the tabs in order.
<1>3. ASSUME NEW t \in Tab, NEW q \in Seq(Ceremony), NEW b \in Seq(Ceremony),
             queue' = [queue EXCEPT ![t] = q], inbox' = [inbox EXCEPT ![t] = b],
             \A i \in 1 .. Len(q) : TabOf[q[i]] = t,
             \A i \in 1 .. Len(b) : TabOf[b[i]] = t,
             t \in closed' => q = <<>> /\ b = <<>>, closed' \subseteq closed \cup {t}
      PROVE  Posted'
  <2> SUFFICES ASSUME NEW u \in Tab
               PROVE  /\ \A i \in 1 .. Len(queue'[u]) : TabOf[queue'[u][i]] = u
                      /\ \A i \in 1 .. Len(inbox'[u]) : TabOf[inbox'[u][i]] = u
                      /\ u \in closed' => queue'[u] = <<>> /\ inbox'[u] = <<>>
    BY DEF Posted
  <2>1. CASE u = t
    <3>1. queue'[u] = q /\ inbox'[u] = b
      BY <1>1, <1>3, <2>1
    <3> QED BY <1>3, <2>1, <3>1
  <2>2. CASE u # t
    <3>1. queue'[u] = queue[u] /\ inbox'[u] = inbox[u] /\ (u \in closed' => u \in closed)
      BY <1>1, <1>3, <2>2
    <3> QED BY <1>1, <3>1 DEF Posted
  <2> QED BY <2>1, <2>2
<1>4. \A t \in Tab : /\ queue = [queue EXCEPT ![t] = queue[t]]
                     /\ inbox = [inbox EXCEPT ![t] = inbox[t]]
  BY <1>1
<1>5. ASSUME NEW c \in Ceremony, Begin(c) PROVE PageInv'
  <2> DEFINE t == TabOf[c]
             q == Queued(queue[t], c)
  <2>1. /\ t \in Tab /\ t \notin closed /\ closed' = closed /\ inbox' = inbox
        /\ queue' = [queue EXCEPT ![t] = q]
    BY <1>1, <1>2, <1>5 DEF Begin
  <2>2. q \in Seq(Ceremony) /\ \A i \in 1 .. Len(q) : TabOf[q[i]] = t
    <3>1. queue[t] \in Seq(Ceremony) /\ Len(queue[t]) <= MaxQueue
          /\ \A i \in 1 .. Len(queue[t]) : TabOf[queue[t][i]] = t
      BY <1>1, <2>1 DEF Posted
    <3>2. /\ q \in Seq(Ceremony)
          /\ \A i \in 1 .. Len(q) : q[i] = c \/ \E j \in 1 .. Len(queue[t]) : q[i] = queue[t][j]
      BY <3>1, QueuedProps
    <3> HIDE DEF q
    <3> QED BY <3>1, <3>2
  <2>3. Posted'
    <3> HIDE DEF t, q
    <3> QED BY <1>1, <1>3, <1>4, <2>1, <2>2 DEF Posted
  <2>4. Awaited' /\ ResolvedWithConsent'
    BY <1>1, <1>5, NoneResolved DEF Begin, shell
  <2>5. NothingForClosed'
    BY <1>1, <1>5 DEF Begin, shell, NothingForClosed
  <2> QED BY <2>3, <2>4, <2>5 DEF PageInv, ConsentOfThePage
<1>6. ASSUME NEW t \in Tab, Emit(t) PROVE PageInv'
  <2>1. queue[t] # <<>> /\ closed' = closed /\ t \notin closed
    BY <1>1, <1>6 DEF Emit, Posted
  <2>2. /\ Tail(queue[t]) \in Seq(Ceremony) /\ Head(queue[t]) \in Ceremony
        /\ TabOf[Head(queue[t])] = t
        /\ \A i \in 1 .. Len(Tail(queue[t])) : TabOf[Tail(queue[t])[i]] = t
    <3>1. queue[t] \in Seq(Ceremony) /\ \A i \in 1 .. Len(queue[t]) : TabOf[queue[t][i]] = t
      BY <1>1 DEF Posted
    <3> QED BY <2>1, <3>1, TailProps
  <2> DEFINE h == Head(queue[t])
  <2>3. /\ Append(inbox[t], h) \in Seq(Ceremony)
        /\ \A i \in 1 .. Len(Append(inbox[t], h)) : TabOf[Append(inbox[t], h)[i]] = t
    <3>1. inbox[t] \in Seq(Ceremony) /\ \A i \in 1 .. Len(inbox[t]) : TabOf[inbox[t][i]] = t
      BY <1>1 DEF Posted
    <3>2. /\ Append(inbox[t], h) \in Seq(Ceremony)
          /\ Len(Append(inbox[t], h)) = Len(inbox[t]) + 1
          /\ Append(inbox[t], h)[Len(inbox[t]) + 1] = h
          /\ \A i \in 1 .. Len(inbox[t]) : Append(inbox[t], h)[i] = inbox[t][i]
      BY <2>2, <3>1, AppendProps
    <3>3. \A i \in 1 .. Len(inbox[t]) + 1 : i = Len(inbox[t]) + 1 \/ i \in 1 .. Len(inbox[t])
      BY <3>1
    <3> QED BY <2>2, <3>1, <3>2, <3>3
  <2> HIDE DEF h
  <2>4. /\ queue' = [queue EXCEPT ![t] = Tail(queue[t])]
        /\ \/ inbox' = [inbox EXCEPT ![t] = Append(inbox[t], h)]
           \/ inbox' = inbox
    BY <1>6 DEF Emit, h
  <2>5. Posted'
    BY <1>1, <1>3, <1>4, <2>1, <2>2, <2>3, <2>4 DEF Posted
  <2>6. Awaited' /\ ResolvedWithConsent' /\ NothingForClosed'
    BY <1>1, <1>6, NoneResolved DEF Emit, shell, NothingForClosed
  <2> QED BY <2>5, <2>6 DEF PageInv, ConsentOfThePage
<1>7. <<>> \in Seq(Ceremony) /\ 1 .. Len(<<>>) = {}
  OBVIOUS
<1>8. ASSUME NEW t \in Tab, NEW c \in Ceremony PROVE Leave(t)[c] = "resolved" => page[c] = "resolved"
  BY DEF Leave
<1>9. ASSUME NEW t \in Tab, Navigate(t) PROVE PageInv'
  <2>1. queue' = [queue EXCEPT ![t] = <<>>] /\ inbox' = inbox /\ closed' = closed
    BY <1>9 DEF Navigate
  <2>2. inbox[t] \in Seq(Ceremony) /\ (\A i \in 1 .. Len(inbox[t]) : TabOf[inbox[t][i]] = t)
        /\ (t \in closed => inbox[t] = <<>>)
    BY <1>1 DEF Posted
  <2>3. Posted'
    <3> DEFINE b == inbox[t]
               q == <<>>
    <3>1. /\ inbox' = [inbox EXCEPT ![t] = b] /\ b \in Seq(Ceremony)
          /\ \A i \in 1 .. Len(b) : TabOf[b[i]] = t
          /\ t \in closed => b = <<>>
      BY <1>4, <2>1, <2>2
    <3>2. q \in Seq(Ceremony) /\ (\A i \in 1 .. Len(q) : TabOf[q[i]] = t) /\ q = <<>>
      BY <1>7
    <3>3. queue' = [queue EXCEPT ![t] = q]
      BY <2>1
    <3> HIDE DEF b, q
    <3> QED BY <1>3, <2>1, <3>1, <3>2, <3>3
  <2>4. Awaited' /\ ResolvedWithConsent' /\ NothingForClosed'
    BY <1>1, <1>8, <1>9, NoneResolved DEF Navigate, shell, NothingForClosed
  <2> QED BY <2>3, <2>4 DEF PageInv, ConsentOfThePage
<1>10. ASSUME NEW t \in Tab, CloseTab(t) PROVE PageInv'
  <2>1. /\ queue' = [queue EXCEPT ![t] = <<>>] /\ inbox' = [inbox EXCEPT ![t] = <<>>]
        /\ closed' = closed \cup {t}
    BY <1>10 DEF CloseTab
  <2>2. Posted'
    <3> DEFINE q == <<>>
    <3>1. q \in Seq(Ceremony) /\ (\A i \in 1 .. Len(q) : TabOf[q[i]] = t) /\ q = <<>>
      BY <1>7
    <3>2. queue' = [queue EXCEPT ![t] = q] /\ inbox' = [inbox EXCEPT ![t] = q]
      BY <2>1
    <3> HIDE DEF q
    <3> QED BY <1>3, <2>1, <3>1, <3>2
  <2>3. Awaited' /\ ResolvedWithConsent'
    BY <1>8, <1>10, NoneResolved DEF CloseTab
  <2>4. NothingForClosed'
    BY <1>1, <1>10 DEF CloseTab, NothingForClosed
  <2> QED BY <2>2, <2>3, <2>4 DEF PageInv, ConsentOfThePage
<1>11. ASSUME NEW t \in Tab, HandleEvent(t) PROVE PageInv'
  <2> DEFINE c == Head(inbox[t])
  <2>1. inbox[t] # <<>> /\ closed' = closed /\ t \notin closed
        /\ queue' = queue /\ inbox' = [inbox EXCEPT ![t] = Tail(inbox[t])]
    BY <1>1, <1>11 DEF HandleEvent, Posted
  <2>2. /\ Tail(inbox[t]) \in Seq(Ceremony) /\ c \in Ceremony /\ TabOf[c] = t
        /\ \A i \in 1 .. Len(Tail(inbox[t])) : TabOf[Tail(inbox[t])[i]] = t
    <3>1. inbox[t] \in Seq(Ceremony) /\ \A i \in 1 .. Len(inbox[t]) : TabOf[inbox[t][i]] = t
      BY <1>1 DEF Posted
    <3> QED BY <2>1, <3>1, TailProps
  <2>3. queue[t] \in Seq(Ceremony) /\ \A i \in 1 .. Len(queue[t]) : TabOf[queue[t][i]] = t
    BY <1>1 DEF Posted
  <2>4. Posted'
    <3> DEFINE q == queue[t]
               b == Tail(inbox[t])
    <3>1. /\ queue' = [queue EXCEPT ![t] = q] /\ q \in Seq(Ceremony)
          /\ \A i \in 1 .. Len(q) : TabOf[q[i]] = t
      BY <1>4, <2>1, <2>3
    <3>2. /\ inbox' = [inbox EXCEPT ![t] = b] /\ b \in Seq(Ceremony)
          /\ \A i \in 1 .. Len(b) : TabOf[b[i]] = t
      BY <2>1, <2>2
    <3> HIDE DEF c, q, b
    <3> QED BY <1>3, <2>1, <3>1, <3>2
  <2>5. /\ consent' \in {consent, c} /\ waiting' = waiting
        /\ UNCHANGED <<events, polled, approved>>
        /\ page' = page \/ Settle(c, "rejected")
    BY <1>11 DEF HandleEvent
  <2> HIDE DEF c
  <2>6. \A d \in Ceremony : page'[d] = "resolved" => page[d] = "resolved"
    BY <1>1, <2>2, <2>5 DEF Settle
  <2>7. Awaited' /\ ResolvedWithConsent'
    BY <2>5, <2>6, NoneResolved
  <2>8. NothingForClosed'
    BY <1>1, <2>1, <2>2, <2>5 DEF NothingForClosed
  <2> QED BY <2>4, <2>7, <2>8 DEF PageInv, ConsentOfThePage
<1>12. CASE Approve
  <2>1. /\ consent \in Ceremony /\ consent # Nobody /\ consent' = Nobody
        /\ approved' = approved \cup {consent} /\ waiting' \subseteq waiting \cup {consent}
        /\ UNCHANGED <<page, queue, inbox, closed, polled, events>>
    BY <1>1, <1>12 DEF Approve, Approved
  <2>2. Posted' /\ NothingForClosed'
    BY <1>1, <2>1 DEF Posted, NothingForClosed
  <2>3. Results' = Results
    BY <2>1 DEF Results
  <2>4. Awaited' /\ ResolvedWithConsent'
    BY <2>1, <2>3 DEF PageInv, Awaited, ConsentOfThePage, ResolvedWithConsent
  <2> QED BY <2>2, <2>4 DEF PageInv, ConsentOfThePage
<1>13. CASE Deny
  <2>1. /\ consent \in Ceremony /\ consent' = Nobody /\ Settle(consent, "rejected")
        /\ UNCHANGED <<queue, inbox, closed, waiting, polled, events, approved>>
    BY <1>1, <1>13 DEF Deny
  <2>2. Posted' /\ NothingForClosed'
    BY <1>1, <2>1 DEF Posted, NothingForClosed
  <2>3. \A d \in Ceremony : page'[d] = "resolved" => page[d] = "resolved"
    BY <1>1, <2>1 DEF Settle
  <2>4. Awaited' /\ ResolvedWithConsent'
    BY <2>1, <2>3, NoneResolved
  <2> QED BY <2>2, <2>4 DEF PageInv, ConsentOfThePage
<1>14. CASE PollResults
  <2> DEFINE e == events[polled + 1]
  <2>1. /\ UNCHANGED <<queue, inbox, closed, consent, events, approved>>
        /\ polled' = polled + 1
        /\ \/ /\ IsResult(e) /\ e.of \in waiting /\ waiting' = waiting \ {e.of}
              /\ Settle(e.of, "resolved")
           \/ UNCHANGED <<waiting, page>>
    BY <1>14 DEF PollResults
  <2>2. polled \in Nat /\ polled + 1 \in 1 .. Len(events)
    BY <1>14 DEF PollResults, Types, TypeOK
  <2>3. IsResult(e) => polled + 1 \in Results
    BY <2>2 DEF IsResult, Results
  <2> HIDE DEF e
  <2>4. Posted' /\ NothingForClosed' /\ Awaited'
    BY <1>1, <2>1 DEF Posted, NothingForClosed, PageInv, Awaited
  <2>5. ResolvedWithConsent'
    <3> SUFFICES ASSUME NEW d \in Ceremony, page'[d] = "resolved"
                 PROVE  d \in approved' /\ \E i \in Results' : events'[i].of = d /\ i <= polled'
      BY DEF ResolvedWithConsent
    <3>1. Results' = Results /\ Results \subseteq Nat
      BY <2>1 DEF Results
    <3>2. CASE page[d] = "resolved"
      BY <2>1, <2>2, <3>1, <3>2 DEF PageInv, ConsentOfThePage, ResolvedWithConsent
    <3>3. CASE page[d] # "resolved"
      <4>1. IsResult(e) /\ e.of \in waiting /\ d = e.of
        BY <1>1, <2>1, <3>3 DEF Settle
      <4>2. d \in approved
        BY <4>1 DEF PageInv, Awaited
      <4> QED BY <2>1, <2>2, <2>3, <3>1, <4>1, <4>2 DEF e
    <3> QED BY <3>2, <3>3
  <2> QED BY <2>4, <2>5 DEF PageInv, ConsentOfThePage
<1> QED BY <1>5, <1>6, <1>9, <1>10, <1>11, <1>12, <1>13, <1>14, Zenon DEF User

-----------------------------------------------------------------------------
(* The theorems. *)

LEMMA Invariance == Spec => []IInv
<1>1. Init => IInv
  <2> SUFFICES ASSUME Init PROVE IInv
    OBVIOUS
  <2>1. <<>> \in Seq(Ceremony) /\ <<>> \in Seq(Event) /\ Len(<<>>) = 0
    OBVIOUS
  <2>2. Types
    <3>1. Idle \in WorkRecord /\ Busy
      BY WorkRecords DEF Init, Busy
    <3>2. /\ queue \in [Tab -> Seq(Ceremony)] /\ inbox \in [Tab -> Seq(Ceremony)]
          /\ \A t \in Tab : Len(queue[t]) <= MaxQueue
      BY <2>1, BoundAssumption DEF Init
    <3>3. /\ requests \in Seq(Ceremony) /\ events \in Seq(Event)
          /\ polled \in 0 .. Len(events) /\ read \in 0 .. Len(requests) /\ ends \in 0 .. MaxEnds
      BY <2>1, BoundAssumption DEF Init
    <3>4. record \in [Creates -> (0 .. MaxCount) \cup {Missing}] /\ sealed \in [Creates -> KeyFile]
      BY DEF Init, KeyFile
    <3>5. page \in [Ceremony -> {"none", "waiting", "resolved", "rejected", "gone"}]
      BY DEF Init
    <3>6. up \in BOOLEAN /\ consent \in Ceremony \cup {Nobody} /\ work = Idle
      BY DEF Init
    <3>7. closed = {} /\ waiting = {} /\ ledger = {} /\ over = {} /\ approved = {} /\ hung = {}
      BY DEF Init
    <3> QED BY <3>1, <3>2, <3>3, <3>4, <3>5, <3>6, <3>7, Zenon DEF Types, TypeOK, WorkRecord
  <2>3. Results = {}
    BY <2>1 DEF Init, Results
  <2>4. WorkerInv
    BY <2>3, CeremonyAssumption, ValueAssumption
       DEF Init, WorkerInv, Working, Idle, OneResult, PublishedStands, CounterRises,
           PublishedIsDurable, Ceremony
  <2>5. PageInv
    BY <2>1, <2>3 DEF Init, PageInv, Posted, Awaited, ConsentOfThePage, ResolvedWithConsent,
                      NothingForClosed
  <2> QED BY <2>2, <2>4, <2>5 DEF IInv
<1>2. IInv /\ [Next]_vars => IInv'
  <2> SUFFICES ASSUME IInv, [Next]_vars PROVE IInv'
    OBVIOUS
  <2>1. CASE Start \/ End \/ Work
    BY <2>1, WorkerTypes, WorkerStep, WorkerLeavesPage DEF IInv
  <2>2. CASE \/ \E c \in Ceremony : Begin(c)
             \/ \E t \in Tab : Emit(t) \/ Navigate(t) \/ CloseTab(t) \/ HandleEvent(t)
             \/ User \/ PollResults
    <3>1. UNCHANGED <<events, work, store>>
      BY <2>2 DEF Begin, Emit, Navigate, CloseTab, HandleEvent, User, Approve, Deny,
                  PollResults, worker
    <3> QED BY <2>2, <3>1, PageTypes, PageStep, PageLeavesWorker DEF IInv
  <2>3. CASE UNCHANGED vars
    <3>1. Types'
      BY <2>3 DEF vars, shell, worker, store, IInv, Types, TypeOK, Busy
    <3>2. WorkerInv'
      BY <2>3, PageLeavesWorker DEF vars, worker, IInv
    <3>3. PageInv'
      BY <2>3 DEF vars, shell, IInv, PageInv, Posted, Awaited, ConsentOfThePage,
                  ResolvedWithConsent, NothingForClosed, Results
    <3> QED BY <3>1, <3>2, <3>3 DEF IInv
  <2> QED BY <2>1, <2>2, <2>3, Zenon DEF Next
<1> QED BY <1>1, <1>2, PTL DEF Spec

\* Every variable keeps its type, and the bridge's queue its bound.
THEOREM TypeCorrect == Spec => []TypeOK
<1>1. IInv => TypeOK
  BY DEF IInv, Types
<1> QED BY <1>1, Invariance, PTL

\* However often the worker dies and reads its requests again, a ceremony has
\* one result (the nonce is spent before the work, browser_passkeys.rs).
THEOREM OneResultEach == Spec => []OneResult
<1>1. IInv => OneResult
  BY DEF IInv, WorkerInv
<1> QED BY <1>1, Invariance, PTL

\* The order of the worker's writes (key, record, event) makes what a relying
\* party was told stand: its keys exist and its counters rise.
THEOREM ToldStands == Spec => []PublishedStands
<1>1. IInv => PublishedStands
  BY DEF IInv, WorkerInv
<1> QED BY <1>1, Invariance, PTL

\* A promise is resolved only with the result of its own ceremony, which the
\* user approved, and a closed tab's are given up.
THEOREM ConsentHolds == Spec => []ConsentOfThePage
<1>1. IInv => ConsentOfThePage
  BY DEF IInv, PageInv
<1> QED BY <1>1, Invariance, PTL
=============================================================================
