---------------------------- MODULE HeldCallbacks ----------------------------
(***************************************************************************)
(* The CEF helper holds a CEF callback object while it waits for the       *)
(* shell's word on a resource request, a permission prompt or a            *)
(* beforeunload dialog.  CEF counts references and expects each held       *)
(* callback to be continued exactly once: a second release frees it twice, *)
(* a forgotten one hangs the page.                                         *)
(*                                                                         *)
(* Two threads of the helper work on the maps: resource requests begin on  *)
(* CEF's IO thread, everything else runs on the browser's UI thread, which *)
(* also drains the shell's decisions.  A request is named by its id; ids   *)
(* are never reused, so the code's check for a duplicate prompt id is      *)
(* never taken.  A send over either socket may fail at any time, because   *)
(* other traffic fills the buffers.                                        *)
(***************************************************************************)
EXTENDS Integers, Sequences, FiniteSets

CONSTANTS
  Requests,     \* the callbacks CEF hands out
  Kind,         \* what each is about
  Keys,         \* pairs of an origin and a capability
  Key,          \* the pair a permission prompt asks for
  Blocked,      \* the resource requests the shell's filter refuses
  Limit,        \* per kind, the callbacks the helper holds: 128, 16, 16
  ShellLimit,   \* the prompts of one kind the shell queues: 16
  None          \* no request

Prompts == {"permission", "unload"}
Kinds == Prompts \cup {"resource"}

ASSUME RequestsAssumption ==
  /\ IsFiniteSet(Requests)
  /\ Kind \in [Requests -> Kinds]
  /\ Key \in [Requests -> Keys]
  /\ Blocked \subseteq Requests
  /\ None \notin Requests

ASSUME LimitsAssumption ==
  /\ Limit \in [Kinds -> Nat \ {0}]
  /\ ShellLimit \in Nat \ {0}

VARIABLES
  hpc,         \* "serving", "closing" after the end of the shell's stream, "down"
  asked,       \* the requests CEF has handed over
  held,        \* the pending_* maps together
  io,          \* the IO thread: the resource request it is beginning
  ioFailed,    \* its event could not be sent
  answering,   \* the UI thread: a request taken out of its map, not yet continued
  answerYes,   \* the answer it is about to give
  refs,        \* references the helper has added to each callback
  answers,     \* how often each callback was continued
  allowed,     \* the callbacks that were continued with "yes"
  left,        \* the prompts CEF dismissed or kept for its default handling
  events,      \* requests on their way to the shell
  control,     \* decisions on their way back
  sstate,      \* the shell's session: "up", "crashed", "closed"
  queue,       \* its pending_permissions and pending_before_unloads
  granted,     \* granted_permissions: what the user allowed this session
  leaving      \* history: the unload dialogs the user answered with "leave"

helperVars == <<hpc, asked, held, io, ioFailed, answering, answerYes, refs,
                answers, allowed, left>>
shellVars  == <<sstate, queue, granted, leaving>>
vars == <<helperVars, events, control, shellVars>>

Decision == [id : Requests, yes : BOOLEAN]

TypeOK ==
  /\ hpc \in {"serving", "closing", "down"}
  /\ asked \subseteq Requests
  /\ held \subseteq Requests
  /\ io \in Requests \cup {None}
  /\ ioFailed \in BOOLEAN
  /\ answering \in Requests \cup {None}
  /\ answerYes \in BOOLEAN
  /\ refs \in [Requests -> Int]
  /\ answers \in [Requests -> Nat]
  /\ allowed \subseteq Requests
  /\ left \subseteq Requests
  /\ events \in Seq(Requests)
  /\ control \in Seq(Decision)
  /\ sstate \in {"up", "crashed", "closed"}
  /\ queue \in [Prompts -> Seq(Requests)]
  /\ granted \subseteq Keys
  /\ leaving \subseteq Requests

Init ==
  /\ hpc = "serving"
  /\ asked = {} /\ held = {}
  /\ io = None /\ ioFailed = FALSE
  /\ answering = None /\ answerYes = FALSE
  /\ refs = [c \in Requests |-> 0]
  /\ answers = [c \in Requests |-> 0]
  /\ allowed = {} /\ left = {}
  /\ events = <<>> /\ control = <<>>
  /\ sstate = "up"
  /\ queue = [k \in Prompts |-> <<>>]
  /\ granted = {} /\ leaving = {}

HeldOf(k) == {c \in held : Kind[c] = k}

Full(k) == Cardinality(HeldOf(k)) >= Limit[k]

\* A handler runs only until the callbacks object is dropped.
Asks(c) == hpc # "down" /\ c \notin asked /\ asked' = asked \cup {c}

Continue(c, yes) ==
  /\ answers' = [answers EXCEPT ![c] = @ + 1]
  /\ allowed' = IF yes THEN allowed \cup {c} ELSE allowed

AddRef(c)  == refs' = [refs EXCEPT ![c] = @ + 1]
Release(c) == refs' = [refs EXCEPT ![c] = @ - 1]

-----------------------------------------------------------------------------
(* The helper's IO thread: begin_resource_request. *)

\* Stash the callback, or cancel at once when the map is full.
BeginResource(c) ==
  /\ Kind[c] = "resource"
  /\ io = None
  /\ Asks(c)
  /\ IF Full("resource")
       THEN /\ Continue(c, FALSE)
            /\ UNCHANGED <<held, io, refs>>
       ELSE /\ AddRef(c)
            /\ held' = held \cup {c}
            /\ io' = c
            /\ UNCHANGED <<answers, allowed>>
  /\ UNCHANGED <<hpc, ioFailed, answering, answerYes, left, events, control, shellVars>>

\* Mutant: a send that failed is ignored, as for most other events.
EmitResourceIgnoring ==
  /\ io # None
  /\ \/ sstate # "closed" /\ events' = Append(events, io)
     \/ UNCHANGED events
  /\ io' = None
  /\ UNCHANGED <<hpc, asked, held, ioFailed, answering, answerYes, refs, answers,
                 allowed, left, control, shellVars>>

\* The event goes out without the map's lock: once it is sent the decision
\* may come back before this handler has returned.
EmitResource ==
  /\ io # None
  /\ ~ioFailed
  /\ \/ /\ sstate # "closed"
        /\ events' = Append(events, io)
        /\ io' = None
        /\ UNCHANGED ioFailed
     \/ /\ ioFailed' = TRUE
        /\ UNCHANGED <<io, events>>
  /\ UNCHANGED <<hpc, asked, held, answering, answerYes, refs, answers, allowed,
                 left, control, shellVars>>

\* The result of the removal is ignored; cancel and release follow anyway.
UndoResource ==
  /\ ioFailed
  /\ held' = held \ {io}
  /\ Continue(io, FALSE)
  /\ Release(io)
  /\ io' = None
  /\ ioFailed' = FALSE
  /\ UNCHANGED <<hpc, asked, answering, answerYes, left, events, control, shellVars>>

-----------------------------------------------------------------------------
(* The helper's UI thread. *)

\* begin_permission_prompt_for_kind and begin_before_unload_dialog: nothing
\* else on this thread runs between their steps.  When the event cannot be
\* sent, a dialog is answered "stay" and a prompt is left to CEF's default.
BeginPrompt(c) ==
  /\ Kind[c] \in Prompts
  /\ Asks(c)
  /\ \/ /\ Full(Kind[c])
        /\ Continue(c, FALSE)
        /\ UNCHANGED <<held, refs, left, events>>
     \/ /\ ~Full(Kind[c])
        /\ sstate # "closed"
        /\ AddRef(c)
        /\ held' = held \cup {c}
        /\ events' = Append(events, c)
        /\ UNCHANGED <<answers, allowed, left>>
     \/ /\ ~Full(Kind[c])
        /\ IF Kind[c] = "unload"
             THEN Continue(c, FALSE) /\ UNCHANGED left
             ELSE left' = left \cup {c} /\ UNCHANGED <<answers, allowed>>
        /\ UNCHANGED <<held, refs, events>>
  /\ UNCHANGED <<hpc, io, ioFailed, answering, answerYes, control, shellVars>>

\* Mutant: the callback is looked up and stays in its map.
TakeDecisionKeeping ==
  /\ hpc = "serving"
  /\ answering = None
  /\ control # <<>>
  /\ LET d == Head(control) IN
       IF d.id \in held
         THEN answering' = d.id /\ answerYes' = d.yes
         ELSE UNCHANGED <<answering, answerYes>>
  /\ control' = Tail(control)
  /\ UNCHANGED <<hpc, asked, held, io, ioFailed, refs, answers, allowed, left, events,
                 shellVars>>

\* The apply_* functions take the callback out of its map first; a decision
\* on a request that is not held any more is dropped.
TakeDecision ==
  /\ hpc = "serving"
  /\ answering = None
  /\ control # <<>>
  /\ LET d == Head(control) IN
       IF d.id \in held
         THEN /\ answering' = d.id
              /\ answerYes' = d.yes
              /\ held' = held \ {d.id}
         ELSE UNCHANGED <<answering, answerYes, held>>
  /\ control' = Tail(control)
  /\ UNCHANGED <<hpc, asked, io, ioFailed, refs, answers, allowed, left, events, shellVars>>

\* ... and then continue and release it.  CEF may dismiss the prompt from
\* within the call: Dismiss can happen before this step.
ApplyDecision ==
  /\ answering # None
  /\ Continue(answering, answerYes)
  /\ Release(answering)
  /\ answering' = None
  /\ answerYes' = FALSE
  /\ UNCHANGED <<hpc, asked, held, io, ioFailed, left, events, control, shellVars>>

\* Mutant: a dismissed prompt leaves the map and keeps its reference.
DismissLeaking(c) ==
  /\ hpc # "down"
  /\ Kind[c] = "permission"
  /\ c \in asked \ left
  /\ left' = left \cup {c}
  /\ held' = held \ {c}
  /\ UNCHANGED <<hpc, asked, io, ioFailed, answering, answerYes, refs, answers, allowed,
                 events, control, shellVars>>

\* on_dismiss_permission_prompt: CEF takes a prompt back (a navigation, the
\* end of the page), or tells that one it continued is gone.
Dismiss(c) ==
  /\ hpc # "down"
  /\ Kind[c] = "permission"
  /\ c \in asked \ left
  /\ left' = left \cup {c}
  /\ IF c \in held
       THEN held' = held \ {c} /\ Release(c)
       ELSE UNCHANGED <<held, refs>>
  /\ UNCHANGED <<hpc, asked, io, ioFailed, answering, answerYes, answers, allowed,
                 events, control, shellVars>>

\* The loop reads the end of the shell's stream and closes the browser.
ReadEof ==
  /\ hpc = "serving"
  /\ sstate = "closed"
  /\ answering = None
  /\ hpc' = "closing"
  /\ UNCHANGED <<asked, held, io, ioFailed, answering, answerYes, refs, answers,
                 allowed, left, events, control, shellVars>>

\* Drop for CefBrowserCallbacks, after CEF's shutdown has ended its threads:
\* everything still held is refused and released.
Teardown ==
  /\ hpc = "closing"
  /\ io = None
  /\ hpc' = "down"
  /\ held' = {}
  /\ answers' = [c \in Requests |-> answers[c] + IF c \in held THEN 1 ELSE 0]
  /\ refs' = [c \in Requests |-> refs[c] - IF c \in held THEN 1 ELSE 0]
  /\ UNCHANGED <<asked, io, ioFailed, answering, answerYes, allowed, left, events,
                 control, shellVars>>

-----------------------------------------------------------------------------
(* The shell. *)

\* WebSession::send: an answer that cannot be written crashes the session.
Tell(c, yes) ==
  \/ /\ hpc # "down"
     /\ control' = Append(control, [id |-> c, yes |-> yes])
     /\ UNCHANGED sstate
  \/ /\ sstate' = "crashed"
     /\ UNCHANGED control

\* handle_event: a resource request is judged and answered at once, ...
JudgeResource ==
  /\ sstate = "up"
  /\ events # <<>>
  /\ Kind[Head(events)] = "resource"
  /\ Tell(Head(events), Head(events) \notin Blocked)
  /\ events' = Tail(events)
  /\ UNCHANGED <<helperVars, queue, granted, leaving>>

\* Mutants: the oldest prompt of a full queue is allowed; or forgotten.
QueuePromptAllowing ==
  /\ sstate = "up"
  /\ events # <<>>
  /\ LET c == Head(events)
         k == Kind[c]
     IN /\ k \in Prompts
        /\ IF Len(queue[k]) >= ShellLimit
             THEN /\ Tell(Head(queue[k]), TRUE)
                  /\ queue' = [queue EXCEPT ![k] = Append(Tail(@), c)]
             ELSE /\ queue' = [queue EXCEPT ![k] = Append(@, c)]
                  /\ UNCHANGED <<control, sstate>>
  /\ events' = Tail(events)
  /\ UNCHANGED <<helperVars, granted, leaving>>

\* ... a prompt is queued for the user; a full queue refuses its oldest.
QueuePrompt ==
  /\ sstate = "up"
  /\ events # <<>>
  /\ LET c == Head(events)
         k == Kind[c]
     IN /\ k \in Prompts
        /\ IF Len(queue[k]) >= ShellLimit
             THEN /\ Tell(Head(queue[k]), FALSE)
                  /\ queue' = [queue EXCEPT ![k] = Append(Tail(@), c)]
             ELSE /\ queue' = [queue EXCEPT ![k] = Append(@, c)]
                  /\ UNCHANGED <<control, sstate>>
  /\ events' = Tail(events)
  /\ UNCHANGED <<helperVars, granted, leaving>>

Front(k) == Head(queue[k])

Pop(k) == queue' = [queue EXCEPT ![k] = Tail(@)]

\* pending_permission_prompt: what the user allowed once this session is
\* allowed again without asking.
ReuseGrant ==
  /\ sstate = "up"
  /\ queue["permission"] # <<>>
  /\ Key[Front("permission")] \in granted
  /\ Tell(Front("permission"), TRUE)
  /\ Pop("permission")
  /\ UNCHANGED <<helperVars, events, granted, leaving>>

\* answer_active_permission: the user answers the prompt in front.
AnswerPermission(yes) ==
  /\ sstate = "up"
  /\ queue["permission"] # <<>>
  /\ Key[Front("permission")] \notin granted
  /\ granted' = IF yes THEN granted \cup {Key[Front("permission")]} ELSE granted
  /\ Tell(Front("permission"), yes)
  /\ Pop("permission")
  /\ UNCHANGED <<helperVars, events, leaving>>

\* answer_active_before_unload.
AnswerUnload(yes) ==
  /\ sstate = "up"
  /\ queue["unload"] # <<>>
  /\ leaving' = IF yes THEN leaving \cup {Front("unload")} ELSE leaving
  /\ Tell(Front("unload"), yes)
  /\ Pop("unload")
  /\ UNCHANGED <<helperVars, events, granted>>

\* The user closes the tab, a crashed one too.
CloseSession ==
  /\ sstate # "closed"
  /\ sstate' = "closed"
  /\ UNCHANGED <<helperVars, events, control, queue, granted, leaving>>

-----------------------------------------------------------------------------

IOThread ==
  \/ \E c \in Requests : BeginResource(c)
  \/ EmitResource
  \/ UndoResource

UIThread ==
  \/ \E c \in Requests : BeginPrompt(c)
  \/ TakeDecision
  \/ ApplyDecision
  \/ \E c \in Requests : Dismiss(c)
  \/ ReadEof
  \/ Teardown

User ==
  \/ \E yes \in BOOLEAN : AnswerPermission(yes)
  \/ \E yes \in BOOLEAN : AnswerUnload(yes)
  \/ CloseSession

Shell == JudgeResource \/ QueuePrompt \/ ReuseGrant

Next == IOThread \/ UIThread \/ Shell \/ User

Spec == Init /\ [][Next]_vars

\* Handlers that have begun run to their end, both loops drain their
\* sockets, and a closing helper reaches its teardown.
FairSpec ==
  /\ Spec
  /\ WF_vars(EmitResource) /\ WF_vars(UndoResource)
  /\ WF_vars(TakeDecision) /\ WF_vars(ApplyDecision)
  /\ WF_vars(ReadEof) /\ WF_vars(Teardown)
  /\ WF_vars(Shell)

-----------------------------------------------------------------------------
(* Properties. *)

\* The helper's own reference is there exactly while a map, or the decision
\* being applied, owns the callback: never released twice, never leaked.
RefBalance ==
  \A c \in Requests :
    refs[c] = IF c \in held \/ c = answering THEN 1 ELSE 0

\* No callback is continued twice, and none is continued while it is still
\* in a map (a second decision would continue it again).
AnsweredOnce ==
  \A c \in Requests :
    /\ answers[c] <= 1
    /\ c \in held \/ c = answering => answers[c] = 0

\* No callback is forgotten: one that was handed over is still held, or was
\* continued, or is CEF's own business again.
NoneForgotten ==
  \A c \in asked :
    c \in held \/ c = answering \/ answers[c] = 1 \/ c \in left

\* Every callback that was handed over is continued exactly once.
ContinuedOnce == AnsweredOnce /\ NoneForgotten

Told(c) ==
  /\ Kind[c] = "resource" => c \notin Blocked
  /\ Kind[c] = "permission" => Key[c] \in granted
  /\ Kind[c] = "unload" => c \in leaving

\* The helper fails closed: "yes" reaches CEF only for a resource the filter
\* lets pass, a capability the user granted to that origin, a dialog the
\* user answered with "leave"; never from an overflow, a lost event or the
\* teardown.
YesOnlyWhenTold == \A c \in allowed : Told(c)

\* A full map refuses instead of growing.
Bounded == \A k \in Kinds : Cardinality(HeldOf(k)) <= Limit[k]

\* The maps keep within their limits and own what they hold, and nothing else.
MapsSound == Bounded /\ RefBalance

\* A resource request never hangs the page: whatever its event met on the
\* way, the request leaves the map, unless the shell gave the session up.
Waits(c) == c \in held
ResourceDecided ==
  \A c \in {r \in Requests : Kind[r] = "resource"} :
    Waits(c) ~> (~Waits(c) \/ sstate = "crashed")

\* A user who does not leave the prompt in front unanswered for ever.
UserAttends ==
  /\ WF_vars(\E yes \in BOOLEAN : AnswerPermission(yes))
  /\ WF_vars(\E yes \in BOOLEAN : AnswerUnload(yes))

\* A prompt leaves the map as well when the user answers what is in front:
\* neither the overflow of the shell's queue nor a dismissal it is not told
\* of leaves a callback behind.
PromptDecided ==
  UserAttends =>
    \A c \in {r \in Requests : Kind[r] # "resource"} :
      Waits(c) ~> (~Waits(c) \/ sstate = "crashed")

\* No request and no prompt is held for ever.
EveryHeldDecided == ResourceDecided /\ PromptDecided

=============================================================================
