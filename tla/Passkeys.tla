------------------------------ MODULE Passkeys ------------------------------
(***************************************************************************)
(* A passkey ceremony from the page's promise to the page's answer.  The   *)
(* bridge script queues it (scripts.rs), the helper sends it to the shell, *)
(* the shell asks the user, one ceremony at a time (web/mod.rs), and       *)
(* publishes what was approved; the worker of browser_passkeys.rs creates  *)
(* a credential or signs with one and publishes an event; the shell takes  *)
(* the event to the page.                                                  *)
(*                                                                         *)
(* The worker may die between any two of its writes.  It then reads the    *)
(* requests from the beginning again, and what it did already is refused   *)
(* because its nonce is spent (the ledger's own sweep is in SessionSync).  *)
(*                                                                         *)
(* A ceremony is a number, and a credential the ceremony that created it.  *)
(* Cryptography, the bounds of the texts and the hardware probe are left   *)
(* out, and so are the copies in the shared root.                          *)
(***************************************************************************)
EXTENDS Naturals, Sequences

CONSTANTS Creates, Gets, \* the ceremonies pages may begin
          Tab, TabOf,    \* the tabs, and each ceremony's
          MaxQueue,      \* the bridge's queue: 16
          MaxCount,      \* the largest value of a signature counter
          MaxEnds,       \* bound: how often the worker ends
          Nobody,        \* not a ceremony
          Missing        \* not a counter

Ceremony == Creates \cup Gets

ASSUME CeremonyAssumption ==
  /\ Creates \cap Gets = {}
  /\ TabOf \in [Ceremony -> Tab]
ASSUME BoundAssumption ==
  MaxQueue \in Nat \ {0} /\ MaxCount \in Nat /\ MaxEnds \in Nat

ASSUME ValueAssumption == Nobody \notin Ceremony /\ Missing \notin Nat

VARIABLES
  page,      \* each ceremony's promise
  queue,     \* per tab, the bridge's queue
  inbox,     \* per tab, PasskeyRequest events on their way to the panel
  closed,    \* tabs that were closed
  consent,   \* pending_passkey_consent
  waiting,   \* pending_passkey_requests
  polled,    \* the shell's cursor on the worker's events
  requests,  \* the request topic
  events,    \* the worker's event topic
  up,        \* the worker runs
  work,      \* the ceremony it works on, and its next step
  read,      \* its cursor on the requests
  ledger,    \* ceremonies whose nonce is spent
  over,      \* ceremonies whose token had run out when it was read
  record,    \* per credential, the counter in its local record, or Missing
  sealed,    \* per credential, its key file
  approved,  \* ceremonies the user has approved            (history)
  hung,      \* ceremonies whose answer nobody will send    (history)
  ends

shell  == <<consent, waiting, polled>>
worker == <<up, work, read>>
store  == <<ledger, over, record, sealed>>
vars == <<page, queue, inbox, closed, shell, requests, events, worker, store,
          approved, hung, ends>>

KeyFile == {"none", "torn", "whole"}
Steps == {"idle", "pend", "seal", "sealed", "record", "find", "count",
          "tell"}
Event == [op : {"pending", "created", "assertion"}, of : Ceremony,
          credential : Creates \cup {Nobody}, count : 0 .. MaxCount]
Idle == [on |-> Nobody, step |-> "idle", credential |-> Nobody, count |-> 0]

TypeOK ==
  /\ page \in [Ceremony -> {"none", "waiting", "resolved", "rejected", "gone"}]
  /\ queue \in [Tab -> Seq(Ceremony)] /\ inbox \in [Tab -> Seq(Ceremony)]
  /\ \A t \in Tab : Len(queue[t]) <= MaxQueue
  /\ closed \subseteq Tab
  /\ consent \in Ceremony \cup {Nobody} /\ waiting \subseteq Ceremony
  /\ requests \in Seq(Ceremony) /\ events \in Seq(Event)
  /\ polled \in 0 .. Len(events) /\ read \in 0 .. Len(requests)
  /\ up \in BOOLEAN
  /\ work \in [on : Ceremony \cup {Nobody}, step : Steps,
               credential : Creates \cup {Nobody}, count : 0 .. MaxCount]
  /\ ledger \subseteq Ceremony /\ over \subseteq Ceremony
  /\ record \in [Creates -> (0 .. MaxCount) \cup {Missing}]
  /\ sealed \in [Creates -> KeyFile]
  /\ approved \subseteq Ceremony /\ hung \subseteq Ceremony
  /\ ends \in 0 .. MaxEnds

Init ==
  /\ page = [c \in Ceremony |-> "none"]
  /\ queue = [t \in Tab |-> <<>>] /\ inbox = queue
  /\ closed = {}
  /\ consent = Nobody /\ waiting = {} /\ polled = 0
  /\ requests = <<>> /\ events = <<>>
  /\ up = FALSE /\ work = Idle /\ read = 0
  /\ ledger = {} /\ over = {}
  /\ record = [c \in Creates |-> Missing]
  /\ sealed = [c \in Creates |-> "none"]
  /\ approved = {} /\ hung = {}
  /\ ends = 0

-----------------------------------------------------------------------------
(* The page and the helper.                                                *)

\* enqueue
Queued(q, c) == Append(IF Len(q) < MaxQueue THEN q ELSE Tail(q), c)

\* create or get of a page: the bridge keeps the promise and queues the
\* ceremony; the oldest of too many leaves the queue without an answer.
Begin(c) ==
  LET t == TabOf[c] IN
  /\ page[c] = "none"
  /\ t \notin closed
  /\ page' = [page EXCEPT ![c] = "waiting"]
  /\ queue' = [queue EXCEPT ![t] = Queued(@, c)]
  /\ hung' = IF Len(queue[t]) < MaxQueue THEN hung ELSE hung \cup {Head(queue[t])}
  /\ UNCHANGED <<inbox, closed, shell, requests, events, worker, store,
                 approved, ends>>

\* the beacon, and the helper's event, which a full socket refuses
Emit(t) ==
  /\ queue[t] # <<>>
  /\ queue' = [queue EXCEPT ![t] = Tail(@)]
  /\ \/ inbox' = [inbox EXCEPT ![t] = Append(@, Head(queue[t]))] /\ UNCHANGED hung
     \/ hung' = hung \cup {Head(queue[t])} /\ UNCHANGED inbox
  /\ UNCHANGED <<page, closed, shell, requests, events, worker, store,
                 approved, ends>>

Leave(t) == [c \in Ceremony |->
  IF TabOf[c] = t /\ page[c] = "waiting" THEN "gone" ELSE page[c]]

\* The document goes, and its queue and promises with it.
Navigate(t) ==
  /\ \E c \in Ceremony : TabOf[c] = t /\ page[c] = "waiting"
  /\ page' = Leave(t)
  /\ queue' = [queue EXCEPT ![t] = <<>>]
  /\ UNCHANGED <<inbox, closed, shell, requests, events, worker, store,
                 approved, hung, ends>>

\* close_tab
CloseTab(t) ==
  /\ t \notin closed
  /\ closed' = closed \cup {t}
  /\ page' = Leave(t)
  /\ queue' = [queue EXCEPT ![t] = <<>>] /\ inbox' = [inbox EXCEPT ![t] = <<>>]
  /\ consent' = IF consent # Nobody /\ TabOf[consent] = t THEN Nobody ELSE consent
  /\ waiting' = {c \in waiting : TabOf[c] # t}
  /\ UNCHANGED <<polled, requests, events, worker, store, approved, hung,
                 ends>>

\* __mdeBrowserPasskeyComplete: only a promise that waits can be settled.
Settle(c, how) ==
  page' = [page EXCEPT ![c] = IF @ = "waiting" THEN how ELSE @]

-----------------------------------------------------------------------------
(* The shell.                                                              *)

\* handle_passkey_event: a second ceremony is denied, one that cannot be read
\* is not answered, the others wait for the user.
HandleEvent(t) ==
  /\ inbox[t] # <<>>
  /\ inbox' = [inbox EXCEPT ![t] = Tail(@)]
  /\ LET c == Head(inbox[t]) IN
       \/ hung' = hung \cup {c} /\ UNCHANGED <<page, consent>>
       \/ /\ consent # Nobody
          /\ Settle(c, "rejected")
          /\ UNCHANGED <<consent, hung>>
       \/ consent = Nobody /\ consent' = c /\ UNCHANGED <<page, hung>>
  /\ UNCHANGED <<queue, closed, waiting, polled, requests, events, worker, store,
                 over, approved, ends>>

\* Mutant: what cannot be signed is not given up.
ApprovedSilently(c) ==
  \/ requests' = Append(requests, c) /\ waiting' = waiting \cup {c}
     /\ UNCHANGED hung
  \/ UNCHANGED <<requests, waiting, hung>>

\* publish_authorized_browser_mutation: without a signature nothing is
\* published and the page not told; a bus that fails is not noticed.
Approved(c) ==
  \/ requests' = Append(requests, c) /\ waiting' = waiting \cup {c}
     /\ UNCHANGED hung
  \/ waiting' = waiting \cup {c} /\ hung' = hung \cup {c} /\ UNCHANGED requests
  \/ hung' = hung \cup {c} /\ UNCHANGED <<requests, waiting>>

\* approve_pending_passkey
Approve ==
  /\ consent # Nobody
  /\ consent' = Nobody
  /\ approved' = approved \cup {consent}
  /\ Approved(consent)
  /\ UNCHANGED <<page, queue, inbox, closed, polled, events, worker, store,
                 ends>>

\* deny_pending_passkey
Deny ==
  /\ consent # Nobody
  /\ consent' = Nobody
  /\ Settle(consent, "rejected")
  /\ UNCHANGED <<queue, inbox, closed, waiting, polled, requests, events, worker,
                 store, approved, hung, ends>>

\* Mutant: every event of the worker is taken for the result.
IsResultAny(e) == TRUE

\* parse_passkey_completion
IsResult(e) == e.op # "pending"

\* poll_passkey_results, an event at a time: the first result of a ceremony
\* goes to its tab, if that is still there.
PollResults ==
  /\ polled < Len(events)
  /\ polled' = polled + 1
  /\ LET e == events[polled + 1] IN
       IF IsResult(e) /\ e.of \in waiting
         THEN waiting' = waiting \ {e.of} /\ Settle(e.of, "resolved")
         ELSE UNCHANGED <<waiting, page>>
  /\ UNCHANGED <<queue, inbox, closed, consent, requests, events, worker, store,
                 over, approved, hung, ends>>

-----------------------------------------------------------------------------
(* The worker: drain_requests.                                             *)

Start ==
  /\ ~up
  /\ up' = TRUE
  /\ UNCHANGED <<page, queue, inbox, closed, shell, requests, events, work, read,
                 store, approved, hung, ends>>

\* The daemon stops, or dies between two steps: the ceremony under way gets
\* no answer from the next worker, whose cursor is at the beginning again.
End ==
  /\ up
  /\ ends < MaxEnds
  /\ ends' = ends + 1
  /\ up' = FALSE /\ work' = Idle /\ read' = 0
  /\ hung' = IF work.on = Nobody THEN hung ELSE hung \cup {work.on}
  /\ UNCHANGED <<page, queue, inbox, closed, shell, requests, events, store,
                 approved>>

\* Mutant: a spent nonce is accepted.
AuthorizedTwice(c) == c \notin over

Authorized(c) == c \notin over \cup ledger

\* the cursor moves, then the nonce is spent
Read ==
  /\ up /\ work = Idle
  /\ read < Len(requests)
  /\ read' = read + 1
  /\ LET c == requests[read + 1] IN
       \/ /\ Authorized(c)
          /\ ledger' = ledger \cup {c}
          /\ work' = [work EXCEPT !.on = c, !.step = "pend"]
          /\ UNCHANGED <<over, hung>>
       \/ /\ Authorized(c)       \* its token ran out
          /\ over' = over \cup {c} /\ hung' = hung \cup {c}
          /\ UNCHANGED <<ledger, work>>
       \/ /\ Authorized(c)       \* the ledger cannot be written
          /\ hung' = hung \cup {c}
          /\ UNCHANGED <<over, ledger, work>>
       \/ ~Authorized(c) /\ UNCHANGED <<over, ledger, work, hung>>
  /\ UNCHANGED <<page, queue, inbox, closed, shell, requests, events, up, record,
                 sealed, approved, ends>>

At(step) == up /\ work.step = step
Then(step) == work' = [work EXCEPT !.step = step]

\* record_error: the status says so, and no event
Fail ==
  /\ work.step \in {"pend", "seal", "sealed", "record", "count", "tell"}
  /\ work' = Idle
  /\ hung' = hung \cup {work.on}
  /\ UNCHANGED <<page, queue, inbox, closed, shell, requests, events, up, read, store,
                 over, approved, ends>>

\* the pending ceremony is stored and announced (nobody waits for that: a bus
\* that fails here changes nothing)
Pend ==
  /\ At("pend")
  /\ events' = Append(events, [op |-> "pending", of |-> work.on,
                               credential |-> Nobody, count |-> 0])
  /\ Then(IF work.on \in Creates THEN "seal" ELSE "find")
  /\ UNCHANGED <<page, queue, inbox, closed, shell, requests, up, read, store,
                 approved, hung, ends>>

-----------------------------------------------------------------------------
(* complete_create and complete_get.                                       *)

\* Mutant: a failure to seal the key is passed over.
SealHopeful ==
  /\ At("seal")
  /\ work' = [work EXCEPT !.step = "record", !.credential = work.on]
  /\ UNCHANGED <<page, queue, inbox, closed, shell, requests, events, up, read, store,
                 approved, hung, ends>>

\* seal_private_key writes in place: truncate, then write.
Seal ==
  /\ At("seal")
  /\ sealed' = [sealed EXCEPT ![work.on] = "torn"]
  /\ Then("sealed")
  /\ UNCHANGED <<page, queue, inbox, closed, shell, requests, events, up, read, ledger,
                 over, record, approved, hung, ends>>

Sealed ==
  /\ At("sealed")
  /\ sealed' = [sealed EXCEPT ![work.on] = "whole"]
  /\ work' = [work EXCEPT !.step = "record", !.credential = work.on]
  /\ UNCHANGED <<page, queue, inbox, closed, shell, requests, events, up, read, ledger,
                 over, record, approved, hung, ends>>

\* find_credential, unseal_private_key
Find ==
  /\ At("find")
  /\ \/ \E k \in Creates :
          /\ record[k] # Missing
          /\ sealed[k] = "whole"
          /\ work' = [work EXCEPT !.step = "count", !.credential = k,
                        !.count = IF record[k] < MaxCount THEN record[k] + 1
                                                          ELSE MaxCount]
          /\ UNCHANGED hung
     \/ work' = Idle /\ hung' = hung \cup {work.on}
  /\ UNCHANGED <<page, queue, inbox, closed, shell, requests, events, up, read, store,
                 over, approved, ends>>

\* write_credential_record
Record(step) ==
  /\ At(step)
  /\ record' = [record EXCEPT ![work.credential] = work.count]
  /\ Then("tell")
  /\ UNCHANGED <<page, queue, inbox, closed, shell, requests, events, up, read, ledger,
                 over, sealed, approved, hung, ends>>

Count == Record("count")
RecordNew == Record("record")

\* publish_platform_event; that the bus failed (Fail) is not noticed
Tell ==
  /\ At("tell")
  /\ events' = Append(events,
       [op |-> IF work.on \in Creates THEN "created" ELSE "assertion",
        of |-> work.on, credential |-> work.credential, count |-> work.count])
  /\ work' = Idle
  /\ UNCHANGED <<page, queue, inbox, closed, shell, requests, up, read, store,
                 approved, hung, ends>>

-----------------------------------------------------------------------------
Work ==
  \/ Read \/ Fail \/ Pend \/ Seal \/ Sealed \/ Find \/ RecordNew \/ Count
  \/ Tell

User == Approve \/ Deny

Next ==
  \/ \E c \in Ceremony : Begin(c)
  \/ \E t \in Tab : Emit(t) \/ Navigate(t) \/ CloseTab(t) \/ HandleEvent(t)
  \/ User \/ PollResults
  \/ Start \/ End \/ Work

Spec == Init /\ [][Next]_vars

\* Every loop goes on, the daemon is started again, and the user answers what
\* is asked.
FairSpec ==
  /\ Spec
  /\ \A t \in Tab : WF_vars(Emit(t)) /\ WF_vars(HandleEvent(t))
  /\ WF_vars(User) /\ WF_vars(PollResults)
  /\ WF_vars(Start) /\ WF_vars(Work)

-----------------------------------------------------------------------------
(* Properties.                                                             *)

Results == {i \in 1 .. Len(events) : events[i].op # "pending"}

\* A ceremony has one result, however often its request is read again.
OneResult == \A i, j \in Results : events[i].of = events[j].of => i = j

\* The signature counter of a credential rises from each published result to
\* the next, over all restarts of the worker, until it cannot rise.
CounterRises ==
  \A i, j \in Results :
    i < j /\ events[i].credential = events[j].credential => events[i].count < events[j].count \/ events[i].count = MaxCount

\* A credential the relying party has heard of can be used: its record and
\* its whole key are on the local disk, and the record counts every
\* assertion that was published.
PublishedIsDurable ==
  \A i \in Results :
    LET k == events[i].credential IN
      /\ record[k] # Missing /\ record[k] >= events[i].count
      /\ sealed[k] = "whole"

\* What the relying party was sent stands: its key exists, its counter rises.
PublishedStands == CounterRises /\ PublishedIsDurable

\* A page's promise is resolved only with the result of its own ceremony,
\* which the user has approved.
ResolvedWithConsent ==
  \A c \in Ceremony : page[c] = "resolved" =>
    c \in approved /\ \E i \in Results : events[i].of = c /\ i <= polled

\* The user is not asked on behalf of a page that is gone with its tab, and
\* no result is kept for one.
NothingForClosed ==
  /\ consent # Nobody => TabOf[consent] \notin closed
  /\ \A c \in waiting : TabOf[c] \notin closed

\* Consent belongs to one ceremony of one page that is there.
ConsentOfThePage == ResolvedWithConsent /\ NothingForClosed

\* Every promise is settled, or its document is gone, or the ceremony met one
\* of the failures that are answered by silence: no step loses one besides.
Settled ==
  \A c \in Ceremony :
    page[c] = "waiting" ~> page[c] # "waiting" \/ c \in hung
=============================================================================
