------------------------------ MODULE TabPanel ------------------------------
(***************************************************************************)
(* The tab strip of the Browser panel (WebState in web/mod.rs): opening,   *)
(* closing, moving and pinning tabs, which tab is active, which helpers    *)
(* are told to paint, how often background tabs are polled, when idle tabs *)
(* are put to sleep, and the session snapshot a restarted shell restores.  *)
(*                                                                         *)
(* A frame of the shell is: keyboard and voice ("input"), the poll and the *)
(* reconciliation of visibility (Frame), at most one click on the chrome   *)
(* ("chrome"), and the shell's drain of what was asked of it ("drain").    *)
(* A tab is named by what it shows: a restored tab has the name it had.    *)
(***************************************************************************)
EXTENDS Naturals, Sequences, FiniteSets, SequencesExt

CONSTANTS
    Saved,      \* tabs of the session the previous shell left behind
    WasFront,   \* the one of them that was in front, or 0
    MaxNames,   \* bound on the pages ever opened
    MaxActs,    \* bound on what the user, the clock and crashes do
    MaxEager,   \* MAX_EAGER_BROWSER_STARTUP_OPEN_TABS
    MaxPolls,   \* MAX_QUIET_BACKGROUND_TAB_POLLS_PER_PANEL
    PollEvery,  \* BACKGROUND_TAB_POLL_INTERVAL, in frames of an idle page
    Loud        \* the names whose pages play audible media

ASSUME PanelAssumption ==
    /\ {Saved, WasFront, MaxNames, MaxActs, MaxEager} \subseteq Nat
    /\ {MaxPolls, PollEvery} \subseteq Nat \ {0}
    /\ WasFront <= Saved /\ Saved <= MaxNames
    /\ MaxEager > 0 /\ MaxNames > 0

VARIABLES
    phase,    \* where the shell is in its frame; "off" before ensure_live_tab
    tabs,     \* the strip, left to right
    active,   \* the index of the tab in front
    onTop,    \* surface_foreground
    queue,    \* open_requested
    respawn,  \* respawn_requested
    sent,     \* last_session_sync_body; NoBody at the start of the process
    latest,   \* latest.json of this host, as the worker wrote it
    left,     \* latest.json when this shell started, until it is read
    names,    \* names given so far
    acts      \* acts so far

strip == <<tabs, active>>
synced == <<sent, latest, left>>
vars == <<phase, tabs, active, onTop, queue, respawn, sent, latest, left,
          names, acts>>

Names == 1 .. MaxNames
NoBody == [tabs |-> <<>>, front |-> MaxNames + 1]

(* engine is what the tab's helper does: "page" for an internal page, which *)
(* has none, "gone" for one that died and "dead" once the session saw it.   *)
(* wait counts the frames until the next background poll is due.            *)
Fresh(n) ==
    [name |-> n, named |-> FALSE, pinned |-> FALSE, told |-> "unsent",
     engine |-> "shown", asleep |-> FALSE, idle |-> FALSE,
     wait |-> 0]

Live(t) == t.engine \in {"shown", "hidden"}
Crashed(t) == t.engine = "dead"
Used(t) == [t EXCEPT !.idle = FALSE, !.asleep = FALSE, !.wait = 0]

Tab == [name : Names, named : BOOLEAN, pinned : BOOLEAN,
        told : {"unsent", "shown", "hidden"},
        engine : {"page", "shown", "hidden", "gone", "dead"},
        asleep : BOOLEAN, idle : BOOLEAN,
        wait : 0 .. PollEvery]

(* The numbers in S, in their order, and what a sequence has at these       *)
(* places. *)
InOrder(S) ==
    [k \in 1 .. Cardinality(S) |->
        CHOOSE i \in S : Cardinality({j \in S : j <= i}) = k]

Picked(s, S) ==
    LET places == InOrder(S)
    IN  [k \in DOMAIN places |-> s[places[k]]]

(* browser_session_sync_body: internal pages are left out, and a tab       *)
(* without an address is skipped by the restore.                           *)
Body(ts, a) ==
    LET kept(t) == t.named /\ t.engine # "page"
        seen == Picked(ts, {i \in DOMAIN ts : kept(ts[i])})
    IN  [tabs |-> [i \in DOMAIN seen |-> seen[i].name],
         front |-> IF a \in DOMAIN ts /\ kept(ts[a]) THEN ts[a].name ELSE 0]

-----------------------------------------------------------------------------
(* publish_session_snapshot. The body counts as sent only when the bus     *)
(* took it; the worker then writes it to latest.json.                      *)
(* Mutant: the body is remembered before it is published. *)
PublishForgetful(body, ok) ==
    /\ sent' = body
    /\ latest' = IF ok /\ sent # body THEN body ELSE latest
    /\ UNCHANGED left

Publish(body, ok) ==
    /\ IF ok /\ sent # body
       THEN sent' = body /\ latest' = body
       ELSE UNCHANGED <<sent, latest>>
    /\ UNCHANGED left

(* The strip becomes s, and its snapshot is published or not. *)
Becomes(s) ==
    /\ tabs' = s.tabs
    /\ active' = s.active
    /\ \E ok \in BOOLEAN : Publish(Body(s.tabs, s.active), ok)

Strip == [tabs |-> tabs, active |-> active]
Push(s, t) == [tabs |-> Append(s.tabs, t), active |-> Len(s.tabs) + 1]

(* select_tab *)
Selected(s, i) == [tabs |-> [s.tabs EXCEPT ![i] = Used(@)], active |-> i]

(* Mutant: only the end of the strip is looked at. *)
ClosedKeepingIndex(s, i) ==
    [tabs |-> RemoveAt(s.tabs, i),
     active |-> IF s.active = Len(s.tabs) /\ s.active > 1
                THEN s.active - 1 ELSE s.active]

(* close_tab *)
Closed(s, i) ==
    LET n == Len(s.tabs) - 1
    IN  [tabs |-> RemoveAt(s.tabs, i),
         active |-> IF n = 0 THEN 1
                    ELSE IF s.active > n THEN n
                    ELSE IF i <= s.active /\ s.active > 1 THEN s.active - 1
                    ELSE s.active]

(* Closes the unpinned tabs among the indices from..to, right to left. *)
ClosedAll(s, from, to, keep) ==
    LET closed[i \in from .. to + 1] ==
            IF i = to + 1 THEN s
            ELSE IF i # keep /\ ~s.tabs[i].pinned THEN Closed(closed[i + 1], i)
            ELSE closed[i + 1]
    IN  closed[from]

(* sort_pinned_stable: pinned tabs first, each group in its order.         *)
Clustered(s) ==
    LET order == InOrder({i \in DOMAIN s.tabs : s.tabs[i].pinned})
                     \o InOrder({i \in DOMAIN s.tabs : ~s.tabs[i].pinned})
    IN  [tabs |-> [k \in DOMAIN order |-> s.tabs[order[k]]],
         active |-> CHOOSE k \in DOMAIN order : order[k] = s.active]

(* move_tab *)
(* Mutant: the moved tab is not clustered again. *)
MovedFreely(s, from, to) ==
    [tabs |-> InsertAt(RemoveAt(s.tabs, from), to, s.tabs[from]),
     active |-> IF s.active = from THEN to
                ELSE IF from < s.active /\ to >= s.active THEN s.active - 1
                ELSE IF from > s.active /\ to <= s.active THEN s.active + 1
                ELSE s.active]

Moved(s, from, to) ==
    Clustered(
      [tabs |-> InsertAt(RemoveAt(s.tabs, from), to, s.tabs[from]),
       active |-> IF s.active = from THEN to
                  ELSE IF from < s.active /\ to >= s.active THEN s.active - 1
                  ELSE IF from > s.active /\ to <= s.active THEN s.active + 1
                  ELSE s.active])

-----------------------------------------------------------------------------
(* What the user does. Keyboard and voice act before the poll, the pointer *)
(* after it, once per frame.                                               *)
(* A click ends the frame: the shell drains what was asked for, if it was. *)
EndsFrame ==
    phase' = IF queue' = <<>> /\ ~respawn' THEN "input" ELSE "drain"
Continues == IF phase = "chrome" THEN EndsFrame ELSE UNCHANGED phase

Act == /\ phase \in {"input", "chrome"}
       /\ onTop
       /\ acts < MaxActs
       /\ acts' = acts + 1
       /\ UNCHANGED onTop

Click == Act /\ phase = "chrome"

SelectTab(i) ==
    /\ Act
    /\ Becomes(Selected(Strip, i))
    /\ UNCHANGED <<queue, respawn, names>>
    /\ Continues

(* The keyboard and the voice close the active tab, the pointer any tab. *)
CloseTab(i) ==
    /\ Act
    /\ phase = "input" => i = active
    /\ Becomes(Closed(Strip, i))
    /\ UNCHANGED <<queue, respawn, names>>
    /\ Continues

CloseOthers(i) ==
    /\ Click
    /\ LET rest == ClosedAll(Strip, 1, Len(tabs), i)
           at == CHOOSE k \in DOMAIN rest.tabs :
                     rest.tabs[k].name = tabs[i].name
       IN  Becomes(Selected(rest, at))
    /\ UNCHANGED <<queue, respawn, names>>
    /\ Continues

CloseToTheRight(i) ==
    /\ Click
    /\ Becomes(ClosedAll(Strip, i + 1, Len(tabs), i))
    /\ UNCHANGED <<queue, respawn, names>>
    /\ Continues

MoveTab(i, j) ==
    /\ Click
    /\ i # j
    /\ Becomes(Moved(Strip, i, j))
    /\ UNCHANGED <<queue, respawn, names>>
    /\ Continues

PinTab(i) ==
    /\ Click
    /\ Becomes(Clustered([Strip EXCEPT !.tabs[i].pinned = ~@]))
    /\ UNCHANGED <<queue, respawn, names>>
    /\ Continues

AsksForTab ==
    /\ names < MaxNames
    /\ names' = names + 1
    /\ queue' = Append(queue, [kind |-> "new", name |-> names', index |-> 0])

(* "+", Duplicate, Reopen and the voice: an open for the shell to drain. *)
NewTab ==
    /\ Act
    /\ AsksForTab
    /\ UNCHANGED <<strip, respawn, synced>>
    /\ Continues

(* open_or_focus_internal_page; one internal page stands for them all. *)
OpenPage ==
    /\ Click
    /\ \/ \E i \in DOMAIN tabs :
            /\ tabs[i].engine = "page"
            /\ Becomes(Selected(Strip, i))
            /\ UNCHANGED names
       \/ /\ \A i \in DOMAIN tabs : tabs[i].engine # "page"
          /\ names < MaxNames
          /\ names' = names + 1
          /\ Becomes(Push(Strip, [Fresh(names + 1) EXCEPT !.engine = "page"]))
    /\ UNCHANGED <<queue, respawn>>
    /\ Continues

(* load_target: an internal page is left at once, with the dead stream it   *)
(* had, and the shell is asked for a session in its place; another tab      *)
(* navigates, which counts as its use.                                      *)
LoadUrl ==
    /\ Click
    /\ active \in DOMAIN tabs
    /\ IF tabs[active].engine = "page"
       THEN /\ Becomes([Strip EXCEPT !.tabs[active] =
                          [Used(@) EXCEPT !.engine = "gone"]])
            /\ queue' = Append(queue, [kind |-> "replace", index |-> active,
                                       name |-> tabs[active].name])
            /\ UNCHANGED names
       ELSE /\ tabs' = [tabs EXCEPT ![active] = Used(@)]
            /\ UNCHANGED <<active, queue, names, synced>>
    /\ UNCHANGED respawn
    /\ Continues

(* Reload of a crashed tab, by button or voice. *)
Reload ==
    /\ Act
    /\ active \in DOMAIN tabs
    /\ Crashed(tabs[active])
    /\ respawn' = TRUE
    /\ UNCHANGED <<strip, queue, names, synced>>
    /\ Continues

-----------------------------------------------------------------------------
(* The poll: web_panel up to finish_browser_panel_poll.                    *)

(* suspend_idle_tabs *)
Dozes(i) == LET t == tabs[i] IN
    /\ i # active
    /\ t.engine # "page"
    /\ ~t.asleep
    /\ ~Crashed(t)
    /\ t.name \notin Loud
    /\ t.idle

(* poll_tabs_for_panel. A frame of the model is the longest the shell waits *)
(* to draw an idle page; a busy page is drawn, and its panel polled, sooner. *)
Awake(i) == tabs[i].engine # "page" /\ ~tabs[i].asleep /\ ~Dozes(i)
Quiet(i) == i # active /\ Awake(i) /\ tabs[i].name \notin Loud

(* Mutant: a tab is due only after more than its interval.                 *)
DueNever(i) == tabs[i].wait = 1
Due(i) == tabs[i].wait <= 1

Polled ==
    {i \in DOMAIN tabs :
        \/ i = active /\ tabs[i].engine # "page"
        \/ i # active /\ Awake(i) /\ ~Quiet(i) /\ Due(i)
        \/ /\ Quiet(i)
           /\ Due(i)
           /\ Cardinality({j \in 1 .. i - 1 : Quiet(j) /\ Due(j)}) < MaxPolls}

PolledTab(t, i) ==
    [t EXCEPT !.engine = IF @ = "gone" THEN "dead" ELSE @,
              !.named = @ \/ Live(t),
              !.wait = IF i = active THEN @ ELSE PollEvery]

(* should_send_hidden *)
(* Mutant: a tab that was told anything is not told again. *)
MustTellOnce(t, hide) == t.told = "unsent" /\ hide
MustTell(t, hide) ==
    IF t.told = "unsent" THEN hide ELSE (t.told = "hidden") # hide

Told(t, hide) ==
    IF t.engine = "page" \/ ~MustTell(t, hide) THEN t
    ELSE [t EXCEPT !.told = IF hide THEN "hidden" ELSE "shown",
                   !.engine = IF Live(t) THEN IF hide THEN "hidden" ELSE "shown"
                              ELSE @]

Frame(ok) ==
    /\ phase = "input"
    /\ onTop
    /\ phase' = "chrome"
    /\ LET aged == [i \in DOMAIN tabs |->
                      [tabs[i] EXCEPT !.asleep = @ \/ Dozes(i),
                                      !.wait = IF @ > 0 THEN @ - 1 ELSE 0]]
           read == [i \in DOMAIN tabs |->
                      IF i \in Polled THEN PolledTab(aged[i], i) ELSE aged[i]]
       IN  tabs' = [i \in DOMAIN tabs |-> Told(read[i], i # active)]
    /\ Publish(Body(tabs, active), ok)
    /\ \/ UNCHANGED <<queue, names>>
       \/ /\ \E i \in Polled : Live(tabs[i])  \* a popup
          /\ AsksForTab
    /\ UNCHANGED <<active, onTop, respawn, acts>>

NoClick ==
    /\ phase = "chrome"
    /\ UNCHANGED <<strip, onTop, queue, respawn, synced, names, acts>>
    /\ EndsFrame

-----------------------------------------------------------------------------
(* The shell: surfaces, start-up, and the helpers it spawns.               *)

(* note_surface_foreground *)
Hide ==
    /\ phase \in {"off", "input"} /\ onTop
    /\ onTop' = FALSE
    /\ tabs' = [i \in DOMAIN tabs |-> Told(tabs[i], TRUE)]
    /\ UNCHANGED <<phase, active, queue, respawn, synced, names, acts>>

Show ==
    /\ ~onTop
    /\ onTop' = TRUE
    /\ UNCHANGED <<phase, strip, queue, respawn, synced, names, acts>>

(* pump_downloads_for_shell_chrome: refreshes the downloads, whatever the   *)
(* surface in front, and with them the snapshot.                            *)
PumpDownloads ==
    /\ phase \in {"off", "input"}
    /\ Publish(Body(tabs, active), TRUE)
    /\ UNCHANGED <<phase, strip, onTop, queue, respawn, names, acts>>

(* restore_session_sync_snapshot: the tab that was in front comes last,    *)
(* because every open brings its tab to the front.                         *)
ToRestore(body) ==
    LET ts == body.tabs
        rest == Picked(ts, {i \in DOMAIN ts : ts[i] # body.front})
        front == Picked(ts, {i \in DOMAIN ts : ts[i] = body.front})
        room == MaxEager - Len(front)
    IN  SubSeq(rest, 1, IF Len(rest) < room THEN Len(rest) ELSE room) \o front

(* ensure_live_tab, the first time the Browser is in front. *)
EnsureLiveTab ==
    /\ phase = "off" /\ onTop
    /\ phase' = "drain"
    /\ LET old == ToRestore(latest)
       IN  IF old # <<>>
           THEN /\ queue' = [i \in DOMAIN old |->
                               [kind |-> "new", name |-> old[i], index |-> 0]]
                /\ UNCHANGED names
           ELSE /\ names' = IF names < MaxNames THEN names + 1 ELSE names
                /\ queue' = <<[kind |-> "new", name |-> names', index |-> 0]>>
    /\ left' = NoBody
    /\ UNCHANGED <<strip, onTop, respawn, sent, latest, acts>>

(* drain_live_tab_requests; make_session may refuse: no seat, no engine.   *)
DrainRequest ==
    /\ phase = "drain" /\ queue # <<>>
    /\ queue' = Tail(queue)
    /\ LET q == Head(queue)
           new == Fresh(q.name)
       IN  \/ UNCHANGED <<strip, synced>>
           \/ /\ q.kind = "new" \/ q.index \notin DOMAIN tabs
              /\ Becomes(Push(Strip, new))
           \/ /\ q.kind = "replace" /\ q.index \in DOMAIN tabs
              /\ Becomes([tabs |-> [tabs EXCEPT ![q.index] =
                             [new EXCEPT !.told = tabs[q.index].told,
                                         !.pinned = tabs[q.index].pinned,
                                         !.wait = tabs[q.index].wait]],
                          active |-> q.index])
    /\ UNCHANGED <<onTop, respawn, names, acts>>
    /\ EndsFrame

(* respawn_live: the tab in front now, with its name but a new session. *)
RespawnActive ==
    /\ phase = "drain" /\ respawn
    /\ respawn' = FALSE
    /\ \/ UNCHANGED <<strip, synced>>
       \/ Becomes([Strip EXCEPT !.tabs = [i \in DOMAIN tabs |->
             IF i # active THEN tabs[i]
             ELSE [tabs[i] EXCEPT !.engine = IF @ = "page" THEN @ ELSE "shown",
                                  !.named = FALSE,
                                  !.asleep = FALSE, !.idle = FALSE]]])
    /\ UNCHANGED <<onTop, queue, names, acts>>
    /\ EndsFrame

(* The shell dies and starts again. *)
Restart ==
    /\ acts < MaxActs
    /\ acts' = acts + 1
    /\ phase' = "off"
    /\ tabs' = <<>> /\ active' = 1
    /\ queue' = <<>> /\ respawn' = FALSE
    /\ sent' = NoBody /\ left' = latest
    /\ onTop' = TRUE
    /\ UNCHANGED <<latest, names>>

-----------------------------------------------------------------------------
(* The helpers and the clock.                                              *)

Happens(i, t) ==
    /\ phase = "input"
    /\ acts < MaxActs
    /\ acts' = acts + 1
    /\ tabs' = [tabs EXCEPT ![i] = t]
    /\ UNCHANGED <<phase, active, onTop, queue, respawn, synced, names>>

Dies(i) == Live(tabs[i]) /\ Happens(i, [tabs[i] EXCEPT !.engine = "gone"])

(* IDLE_TAB_SUSPEND_AFTER passes without a use of the tab. *)
Ages(i) == ~tabs[i].idle /\ Happens(i, [tabs[i] EXCEPT !.idle = TRUE])

Init ==
    /\ phase = "off"
    /\ tabs = <<>> /\ active = 1
    /\ onTop = TRUE
    /\ queue = <<>> /\ respawn = FALSE
    /\ sent = NoBody
    /\ latest = [tabs |-> [i \in 1 .. Saved |-> i], front |-> WasFront]
    /\ left = latest
    /\ names = Saved /\ acts = 0

UserActs ==
    \/ NewTab \/ OpenPage \/ LoadUrl \/ Reload
    \/ \E i \in DOMAIN tabs :
          \/ SelectTab(i) \/ CloseTab(i) \/ PinTab(i)
          \/ CloseOthers(i) \/ CloseToTheRight(i)
          \/ \E j \in DOMAIN tabs : MoveTab(i, j)

Drain == DrainRequest \/ RespawnActive

Next ==
    \/ UserActs
    \/ \E ok \in BOOLEAN : Frame(ok)
    \/ NoClick \/ Drain
    \/ Hide \/ Show \/ PumpDownloads \/ EnsureLiveTab \/ Restart
    \/ \E i \in DOMAIN tabs : Dies(i) \/ Ages(i)

Spec == Init /\ [][Next]_vars

(* The shell draws the Browser while it is in front, at the latest after    *)
(* the repaint interval of an idle page, and the bus takes a snapshot again *)
(* and again.                                                               *)
FairSpec ==
    /\ Spec
    /\ WF_vars(EnsureLiveTab) /\ WF_vars(NoClick) /\ WF_vars(Drain)
    /\ SF_vars(Frame(TRUE))

-----------------------------------------------------------------------------
TypeOK ==
    /\ phase \in {"off", "input", "chrome", "drain"}
    /\ tabs \in Seq(Tab)
    /\ active \in 1 .. (IF tabs = <<>> THEN 1 ELSE Len(tabs))
    /\ onTop \in BOOLEAN /\ respawn \in BOOLEAN
    /\ \A k \in DOMAIN queue :
          queue[k] \in [kind : {"new", "replace"}, name : Names, index : Nat]
    /\ names \in 0 .. MaxNames /\ acts \in 0 .. MaxActs

(* Pinned tabs stand at the front of the strip ("keeping pinned tabs at the *)
(* front (Chrome's invariant)"), after every drag, close, open and pin.     *)
PinnedInFront ==
    \A i, j \in DOMAIN tabs : i < j /\ tabs[j].pinned => tabs[i].pinned

(* The strip is well formed: its index points into it, pinned tabs lead.   *)
StripSound == TypeOK /\ PinnedInFront

(* After every poll the helper of the tab in front paints, whatever it was  *)
(* told before: surfaces hidden and shown, tabs selected by the close of    *)
(* another, helpers replaced under an old hidden_sent.                      *)
ActiveIsShown ==
    phase = "chrome" /\ active \in DOMAIN tabs /\ Live(tabs[active])
        => tabs[active].engine = "shown"

(* A tab stays in front while others are closed, dragged, pinned or         *)
(* polled around it: only a choice of the user or an open changes it, and   *)
(* the choice may come late: a page left for an address comes back to the   *)
(* front when its session is there, whatever was opened before it.          *)
InFront == IF active \in DOMAIN tabs THEN tabs[active].name ELSE 0
Shown == {tabs[i].name : i \in DOMAIN tabs}
ComesBack ==
    /\ phase = "drain" /\ queue # <<>>
    /\ Head(queue).kind = "replace" /\ InFront' = Head(queue).name
ActiveStays ==
    [][ \/ \E i \in DOMAIN tabs : SelectTab(i) \/ CloseOthers(i)
        \/ ~(Shown' \subseteq Shown)
        \/ OpenPage \/ ComesBack
        \/ InFront \in Shown' => InFront' = InFront ]_vars

(* The snapshot on disk comes to agree with the strip again and again,      *)
(* however many publications failed.                                        *)
SnapshotCatchesUp ==
    <>[](onTop) => []<>(latest = Body(tabs, active))

(* A background tab is polled again and again, or put to sleep or closed,   *)
(* unless there are more quiet tabs than one interval has polls for.        *)
Crowded == Cardinality({i \in DOMAIN tabs : Quiet(i)}) > MaxPolls * PollEvery
Waits(n) == \E i \in DOMAIN tabs : tabs[i].name = n /\ Awake(i)
PollsTab(n) == /\ phase = "input" /\ phase' = "chrome"
               /\ \E i \in Polled : tabs[i].name = n
QuietTabsArePolled ==
    (<>[]onTop /\ <>[]~Crowded) =>
        \A n \in Names : []<>(~Waits(n)) \/ []<><<PollsTab(n)>>_vars

(* "startup restores the synced follow-me session": every tab the previous  *)
(* shell left is asked for when the Browser is first opened.                *)
StartupRestores ==
    [][EnsureLiveTab => Range(left.tabs) \subseteq
                            {queue'[k].name : k \in DOMAIN queue'}]_vars
=============================================================================
