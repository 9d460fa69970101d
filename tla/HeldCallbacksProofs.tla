------------------------- MODULE HeldCallbacksProofs -------------------------
(* Proofs about HeldCallbacks, for any set of requests and any limits.     *)
EXTENDS HeldCallbacks, FiniteSetTheorems, TLAPS

Elems(s) == {s[i] : i \in DOMAIN s}

\* What is in flight between the two processes names requests CEF has handed
\* over, never the one the IO thread is still beginning; prompts are queued
\* under their own kind, and a "yes" is one somebody gave.
EventsSound == Elems(events) \subseteq asked \ {io}

DecisionsSound ==
  \A d \in Elems(control) : d.id \in asked \ {io} /\ (d.yes => Told(d.id))

QueuesSound ==
  \A k \in Prompts : \A c \in Elems(queue[k]) : c \in asked \ {io} /\ Kind[c] = k

Circulating == EventsSound /\ DecisionsSound /\ QueuesSound

\* Who has a callback in hand: the IO thread one that is still in the map,
\* the UI thread one that is in it no longer.
InHand ==
  /\ held \subseteq asked
  /\ io # None => io \in held /\ Kind[io] = "resource"
  /\ ioFailed => io # None
  /\ answering # None => answering \in asked \ held
  /\ hpc # "serving" => answering = None
  /\ answering # None /\ answerYes => Told(answering)

\* A callback nobody handed over yet was not continued either.
Untouched == \A c \in Requests \ asked : answers[c] = 0

IInv ==
  /\ TypeOK
  /\ Circulating
  /\ InHand
  /\ Untouched
  /\ RefBalance
  /\ AnsweredOnce
  /\ NoneForgotten
  /\ YesOnlyWhenTold

-----------------------------------------------------------------------------
(* Sequences. *)

\* Append adds one element.
LEMMA ElemsAppend ==
  ASSUME NEW S, NEW s \in Seq(S), NEW e \in S
  PROVE  Append(s, e) \in Seq(S) /\ Elems(Append(s, e)) = Elems(s) \cup {e}
<1>1. Append(s, e) \in Seq(S) /\ DOMAIN Append(s, e) = 1 .. Len(s) + 1
  OBVIOUS
<1>2. Append(s, e)[Len(s) + 1] = e /\ \A i \in 1 .. Len(s) : Append(s, e)[i] = s[i]
  OBVIOUS
<1>3. DOMAIN s = 1 .. Len(s) /\ Len(s) \in Nat
  OBVIOUS
<1>4. 1 .. Len(s) + 1 = (1 .. Len(s)) \cup {Len(s) + 1}
  BY <1>3
<1>5. Elems(Append(s, e)) \subseteq Elems(s) \cup {e}
  BY <1>1, <1>2, <1>3, <1>4 DEF Elems
<1>6. Elems(s) \cup {e} \subseteq Elems(Append(s, e))
  BY <1>1, <1>2, <1>3, <1>4 DEF Elems
<1> QED BY <1>1, <1>5, <1>6

\* Head is an element, Tail keeps elements only.
LEMMA ElemsTail ==
  ASSUME NEW S, NEW s \in Seq(S), s # <<>>
  PROVE  /\ Tail(s) \in Seq(S) /\ Elems(Tail(s)) \subseteq Elems(s)
         /\ Head(s) \in S /\ Head(s) \in Elems(s)
<1>1. DOMAIN s = 1 .. Len(s) /\ Len(s) \in Nat \ {0}
  OBVIOUS
<1>2. Tail(s) \in Seq(S) /\ DOMAIN Tail(s) = 1 .. Len(s) - 1
  OBVIOUS
<1>3. \A i \in 1 .. Len(s) - 1 : Tail(s)[i] = s[i + 1] /\ i + 1 \in 1 .. Len(s)
  BY <1>1
<1>4. Head(s) = s[1] /\ 1 \in 1 .. Len(s) /\ Head(s) \in S
  BY <1>1
<1> QED BY <1>1, <1>2, <1>3, <1>4, Zenon DEF Elems

-----------------------------------------------------------------------------
(* Types. *)

LEMMA TypeStep == TypeOK /\ InHand /\ [Next]_vars => TypeOK'
<1> SUFFICES ASSUME TypeOK, InHand, [Next]_vars PROVE TypeOK'
  OBVIOUS
<1> USE RequestsAssumption DEF TypeOK, helperVars, shellVars
<1>a. ASSUME NEW c \in Requests, NEW yes \in BOOLEAN, Continue(c, yes)
      PROVE  answers' \in [Requests -> Nat] /\ allowed' \subseteq Requests
  BY <1>a DEF Continue
<1>b. ASSUME NEW c \in Requests, AddRef(c) \/ Release(c)
      PROVE  refs' \in [Requests -> Int]
  BY <1>b DEF AddRef, Release
<1>c. ASSUME NEW c \in Requests, Asks(c) PROVE asked' \subseteq Requests
  BY <1>c DEF Asks
<1>1. ASSUME NEW c \in Requests, BeginResource(c) PROVE TypeOK'
  <2>1. asked' \subseteq Requests
    BY <1>1, <1>c DEF BeginResource
  <2>2. CASE Full("resource")
    BY <1>1, <1>a, <2>1, <2>2 DEF BeginResource
  <2>3. CASE ~Full("resource")
    BY <1>1, <1>b, <2>1, <2>3 DEF BeginResource
  <2> QED BY <2>2, <2>3
<1>2. CASE EmitResource
  <2>1. io \in Requests /\ Append(events, io) \in Seq(Requests)
    BY <1>2, ElemsAppend DEF EmitResource
  <2> QED BY <1>2, <2>1 DEF EmitResource
<1>3. ASSUME UndoResource, io # None PROVE TypeOK'
  BY <1>3, <1>a, <1>b DEF UndoResource
<1>4. ASSUME NEW c \in Requests, BeginPrompt(c) PROVE TypeOK'
  <2>1. asked' \subseteq Requests /\ Append(events, c) \in Seq(Requests)
    BY <1>4, <1>c, ElemsAppend DEF BeginPrompt
  <2>2. refs' \in [Requests -> Int] /\ held' \subseteq Requests
    BY <1>4, <1>b DEF BeginPrompt
  <2>3. answers' \in [Requests -> Nat] /\ allowed' \subseteq Requests
    BY <1>4, <1>a DEF BeginPrompt
  <2>4. events' \in Seq(Requests) /\ left' \subseteq Requests
    BY <1>4, <2>1 DEF BeginPrompt
  <2> QED BY <1>4, <2>1, <2>2, <2>3, <2>4 DEF BeginPrompt
<1>5. CASE TakeDecision
  <2>1. Head(control) \in Decision /\ Tail(control) \in Seq(Decision)
    BY <1>5, ElemsTail DEF TakeDecision
  <2> QED BY <1>5, <2>1 DEF TakeDecision, Decision
<1>6. CASE ApplyDecision
  BY <1>6, <1>a, <1>b DEF ApplyDecision
<1>7. ASSUME NEW c \in Requests, Dismiss(c) PROVE TypeOK'
  BY <1>7, <1>b DEF Dismiss
<1>8. CASE ReadEof
  BY <1>8 DEF ReadEof
<1>9. CASE Teardown
  BY <1>9 DEF Teardown
<1>10. ASSUME NEW c \in Requests, NEW yes \in BOOLEAN, Tell(c, yes)
       PROVE  control' \in Seq(Decision) /\ sstate' \in {"up", "crashed", "closed"}
  <2>1. [id |-> c, yes |-> yes] \in Decision
    BY DEF Decision
  <2>2. Append(control, [id |-> c, yes |-> yes]) \in Seq(Decision)
    BY <2>1, ElemsAppend
  <2> QED BY <1>10, <2>2 DEF Tell
<1>11. CASE JudgeResource
  <2>1. Head(events) \in Requests /\ Tail(events) \in Seq(Requests)
    BY <1>11, ElemsTail DEF JudgeResource
  <2>2. (Head(events) \notin Blocked) \in BOOLEAN
    OBVIOUS
  <2> QED BY <1>11, <1>10, <2>1, <2>2 DEF JudgeResource
<1>12. CASE QueuePrompt
  <2> DEFINE c == Head(events)
             k == Kind[c]
  <2>1. c \in Requests /\ Tail(events) \in Seq(Requests) /\ k \in Prompts
    BY <1>12, ElemsTail DEF QueuePrompt
  <2>2. queue[k] \in Seq(Requests) /\ Append(queue[k], c) \in Seq(Requests)
    BY <2>1, ElemsAppend
  <2>3. CASE Len(queue[k]) >= ShellLimit
    <3>1. queue[k] # <<>>
      BY <2>2, <2>3, LimitsAssumption
    <3>2. Head(queue[k]) \in Requests /\ Tail(queue[k]) \in Seq(Requests)
      BY <2>2, <3>1, ElemsTail
    <3>3. Append(Tail(queue[k]), c) \in Seq(Requests)
      BY <2>1, <3>2, ElemsAppend
    <3>4. control' \in Seq(Decision) /\ sstate' \in {"up", "crashed", "closed"}
      BY <1>12, <1>10, <2>3, <3>2 DEF QueuePrompt
    <3> QED BY <1>12, <2>1, <2>3, <3>3, <3>4 DEF QueuePrompt
  <2>4. CASE ~(Len(queue[k]) >= ShellLimit)
    BY <1>12, <2>1, <2>2, <2>4 DEF QueuePrompt
  <2> QED BY <2>3, <2>4
<1>13. ASSUME NEW k \in Prompts, queue[k] # <<>>, Pop(k)
       PROVE  Front(k) \in Requests /\ queue' \in [Prompts -> Seq(Requests)]
  <2>1. Head(queue[k]) \in Requests /\ Tail(queue[k]) \in Seq(Requests)
    BY <1>13, ElemsTail
  <2> QED BY <1>13, <2>1 DEF Pop, Front
<1>14. CASE ReuseGrant
  <2>1. Front("permission") \in Requests /\ queue' \in [Prompts -> Seq(Requests)]
    BY <1>14, <1>13 DEF ReuseGrant, Prompts
  <2>2. control' \in Seq(Decision) /\ sstate' \in {"up", "crashed", "closed"}
    BY <1>14, <1>10, <2>1 DEF ReuseGrant
  <2> QED BY <1>14, <2>1, <2>2 DEF ReuseGrant
<1>15. ASSUME NEW yes \in BOOLEAN, AnswerPermission(yes) PROVE TypeOK'
  <2>1. Front("permission") \in Requests /\ queue' \in [Prompts -> Seq(Requests)]
    BY <1>15, <1>13 DEF AnswerPermission, Prompts
  <2>2. control' \in Seq(Decision) /\ sstate' \in {"up", "crashed", "closed"}
    BY <1>15, <1>10, <2>1 DEF AnswerPermission
  <2> QED BY <1>15, <2>1, <2>2 DEF AnswerPermission
<1>16. ASSUME NEW yes \in BOOLEAN, AnswerUnload(yes) PROVE TypeOK'
  <2>1. Front("unload") \in Requests /\ queue' \in [Prompts -> Seq(Requests)]
    BY <1>16, <1>13 DEF AnswerUnload, Prompts
  <2>2. control' \in Seq(Decision) /\ sstate' \in {"up", "crashed", "closed"}
    BY <1>16, <1>10, <2>1 DEF AnswerUnload
  <2> QED BY <1>16, <2>1, <2>2 DEF AnswerUnload
<1>17. CASE CloseSession
  BY <1>17 DEF CloseSession
<1>18. CASE UNCHANGED vars
  BY <1>18 DEF vars
<1>19. UndoResource => io # None
  BY DEF UndoResource, InHand
<1> QED
  BY <1>1, <1>2, <1>3, <1>4, <1>5, <1>6, <1>7, <1>8, <1>9, <1>11, <1>12,
     <1>14, <1>15, <1>16, <1>17, <1>18, <1>19, Zenon
  DEF Next, IOThread, UIThread, Shell, User

-----------------------------------------------------------------------------
(* Grants are never taken back. *)

LEMMA ToldStays ==
  TypeOK /\ [Next]_vars => \A c \in Requests : Told(c) => Told(c)'
<1> SUFFICES ASSUME TypeOK, [Next]_vars
             PROVE  granted \subseteq granted' /\ leaving \subseteq leaving'
  BY DEF Told
<1>1. CASE IOThread \/ UIThread
  BY <1>1 DEF IOThread, UIThread, BeginResource, EmitResource, UndoResource,
     BeginPrompt, TakeDecision, ApplyDecision, Dismiss, ReadEof, Teardown, shellVars
<1>2. CASE Shell
  BY <1>2 DEF Shell, JudgeResource, QueuePrompt, ReuseGrant
<1>3. CASE User
  BY <1>3 DEF User, AnswerPermission, AnswerUnload, CloseSession
<1>4. CASE UNCHANGED vars
  BY <1>4 DEF vars, shellVars
<1> QED BY <1>1, <1>2, <1>3, <1>4 DEF Next

-----------------------------------------------------------------------------
(* The helper's bookkeeping. *)

Books == InHand /\ Untouched /\ RefBalance /\ AnsweredOnce /\ NoneForgotten

\* Every step of the two helper threads keeps the books.
LEMMA HelperStep ==
  ASSUME IInv, IOThread \/ UIThread, \A c \in Requests : Told(c) => Told(c)'
  PROVE  Books'
<1> USE RequestsAssumption
    DEF IInv, TypeOK, Books, InHand, Untouched, RefBalance, AnsweredOnce, NoneForgotten
<1>1. ASSUME NEW c \in Requests, BeginResource(c) PROVE Books'
  <2>1. c \notin held /\ c # answering /\ answers[c] = 0 /\ refs[c] = 0
    BY <1>1 DEF BeginResource, Asks
  <2>2. CASE Full("resource")
    BY <1>1, <2>1, <2>2 DEF BeginResource, Asks, Continue, shellVars
  <2>3. CASE ~Full("resource")
    BY <1>1, <2>1, <2>3 DEF BeginResource, Asks, AddRef, shellVars
  <2> QED BY <2>2, <2>3
<1>2. CASE EmitResource
  BY <1>2 DEF EmitResource, shellVars
<1>3. CASE UndoResource
  <2>1. io \in held /\ io # answering /\ answers[io] = 0 /\ refs[io] = 1 /\ io # None
    BY <1>3 DEF UndoResource
  <2> QED BY <1>3, <2>1 DEF UndoResource, Continue, Release, shellVars
<1>4. ASSUME NEW c \in Requests, BeginPrompt(c) PROVE Books'
  <2>1. c \notin held /\ c # answering /\ answers[c] = 0 /\ refs[c] = 0
    BY <1>4 DEF BeginPrompt, Asks
  <2>2. CASE held' = held \cup {c}
    BY <1>4, <2>1, <2>2 DEF BeginPrompt, Asks, AddRef, Continue, shellVars
  <2>3. CASE held' = held
    BY <1>4, <2>1, <2>3 DEF BeginPrompt, Asks, Continue, shellVars
  <2> QED BY <1>4, <2>2, <2>3 DEF BeginPrompt
<1>5. CASE TakeDecision
  <2>1. Head(control) \in Elems(control) /\ Head(control) \in Decision
    BY <1>5, ElemsTail DEF TakeDecision
  <2>2. Head(control).id # io /\ (Head(control).yes => Told(Head(control).id))
    BY <2>1 DEF Circulating, DecisionsSound
  <2>3. CASE Head(control).id \in held
    <3> DEFINE c == Head(control).id
    <3>1. c \in Requests /\ c # None /\ c # io /\ answers[c] = 0 /\ refs[c] = 1
      BY <2>1, <2>2, <2>3 DEF Decision
    <3>2. answering = None /\ answering' = c /\ held' = held \ {c} /\ hpc = "serving"
          /\ answerYes' = Head(control).yes
      BY <1>5, <2>3 DEF TakeDecision
    <3>3. UNCHANGED <<hpc, asked, io, ioFailed, refs, answers, allowed, left, shellVars>>
      BY <1>5 DEF TakeDecision
    <3>4. InHand'
      BY <2>2, <3>1, <3>2, <3>3 DEF Told, shellVars
    <3>5. (Untouched /\ RefBalance /\ AnsweredOnce /\ NoneForgotten)'
      BY <3>1, <3>2, <3>3
    <3> QED BY <3>4, <3>5
  <2>4. CASE Head(control).id \notin held
    <3>1. UNCHANGED <<hpc, asked, held, io, ioFailed, answering, answerYes, refs,
                      answers, allowed, left>>
      BY <1>5, <2>4 DEF TakeDecision
    <3> QED BY <3>1
  <2> QED BY <2>3, <2>4
<1>6. CASE ApplyDecision
  <2>1. answering \in Requests \ held /\ answering \in asked
    BY <1>6 DEF ApplyDecision
  <2>2. answers[answering] = 0 /\ refs[answering] = 1
    BY <2>1
  <2> QED BY <1>6, <2>1, <2>2 DEF ApplyDecision, Continue, Release, shellVars
<1>7. ASSUME NEW c \in Requests, Dismiss(c) PROVE Books'
  BY <1>7 DEF Dismiss, Release, shellVars
<1>8. CASE ReadEof
  BY <1>8 DEF ReadEof, shellVars
<1>9. CASE Teardown
  BY <1>9 DEF Teardown, shellVars
<1> QED
  BY <1>1, <1>2, <1>3, <1>4, <1>5, <1>6, <1>7, <1>8, <1>9, Zenon DEF IOThread, UIThread

\* The shell does not touch them.
LEMMA BooksStay ==
  ASSUME IInv, UNCHANGED helperVars, \A c \in Requests : Told(c) => Told(c)'
  PROVE  Books'
BY DEF helperVars, IInv, TypeOK, Books, InHand, Untouched, RefBalance, AnsweredOnce,
       NoneForgotten

-----------------------------------------------------------------------------
(* What was answered "yes". *)

LEMMA ToldStep ==
  ASSUME IInv, [Next]_vars, \A c \in Requests : Told(c) => Told(c)'
  PROVE  YesOnlyWhenTold'
<1>1. allowed' \subseteq allowed \cup (IF answerYes THEN {answering} \ {None} ELSE {})
  <2> USE DEF IInv, TypeOK, InHand
  <2>1. CASE IOThread
    BY <2>1 DEF IOThread, BeginResource, EmitResource, UndoResource, Continue, shellVars
  <2>2. CASE UIThread
    BY <2>2 DEF UIThread, BeginPrompt, TakeDecision, ApplyDecision, Dismiss, ReadEof,
                Teardown, Continue, shellVars
  <2>3. CASE Shell \/ User
    BY <2>3 DEF Shell, JudgeResource, QueuePrompt, ReuseGrant, User, AnswerPermission,
                AnswerUnload, CloseSession, helperVars
  <2>4. CASE UNCHANGED vars
    BY <2>4 DEF vars, helperVars
  <2> QED BY <2>1, <2>2, <2>3, <2>4 DEF Next
<1>2. \A c \in allowed' : c \in Requests /\ Told(c)
  BY <1>1 DEF IInv, TypeOK, InHand, YesOnlyWhenTold
<1> QED BY <1>2 DEF YesOnlyWhenTold

-----------------------------------------------------------------------------
(* What is in flight. *)

\* A decision about a request in flight, "yes" only when told, may be sent.
LEMMA TellStep ==
  ASSUME IInv, NEW c \in Requests, NEW yes \in BOOLEAN, Tell(c, yes),
         c \in asked \ {io}, yes => Told(c)', UNCHANGED <<asked, io>>,
         \A r \in Requests : Told(r) => Told(r)'
  PROVE  DecisionsSound'
<1> DEFINE d == [id |-> c, yes |-> yes]
<1>1. control \in Seq(Decision) /\ d \in Decision
  BY DEF IInv, TypeOK, Decision
<1>2. Elems(control') \subseteq Elems(control) \cup {d}
  <2>1. Elems(Append(control, d)) = Elems(control) \cup {d}
    BY <1>1, ElemsAppend
  <2>2. control' = control \/ control' = Append(control, d)
    BY DEF Tell
  <2> QED BY <2>1, <2>2
<1>3. d.id = c /\ d.yes = yes
  OBVIOUS
<1>4. \A e \in Elems(control) :
        e.id \in Requests /\ e.id \in asked \ {io} /\ (e.yes => Told(e.id)')
  BY DEF IInv, TypeOK, Circulating, DecisionsSound
<1>5. \A e \in Elems(control') : e.id \in asked' \ {io'} /\ (e.yes => Told(e.id)')
  BY <1>2, <1>3, <1>4, Zenon
<1> QED BY <1>5, Zenon DEF DecisionsSound, Told, Elems

\* Taking the front of a queue leaves sound queues.
LEMMA PopStep ==
  ASSUME IInv, NEW k \in Prompts, queue[k] # <<>>, Pop(k), UNCHANGED <<asked, io>>
  PROVE  /\ Front(k) \in Requests /\ Front(k) \in asked \ {io} /\ Kind[Front(k)] = k
         /\ QueuesSound'
<1>1. queue \in [Prompts -> Seq(Requests)] /\ queue[k] \in Seq(Requests)
  BY DEF IInv, TypeOK
<1>2. /\ Elems(Tail(queue[k])) \subseteq Elems(queue[k])
      /\ Front(k) \in Elems(queue[k]) /\ Front(k) \in Requests
  BY <1>1, ElemsTail DEF Front
<1>3. queue' = [queue EXCEPT ![k] = Tail(queue[k])]
  BY DEF Pop
<1>4. QueuesSound
  BY DEF IInv, Circulating
<1>5. \A j \in Prompts : Elems(queue'[j]) \subseteq Elems(queue[j])
  BY <1>1, <1>2, <1>3
<1> QED BY <1>2, <1>4, <1>5 DEF QueuesSound

LEMMA CirculatingStep ==
  ASSUME IInv, [Next]_vars, \A c \in Requests : Told(c) => Told(c)'
  PROVE  Circulating'
<1> USE RequestsAssumption
<1>1. /\ asked \subseteq Requests /\ held \subseteq asked /\ None \notin asked
      /\ io # None => io \in asked
      /\ events \in Seq(Requests) /\ control \in Seq(Decision)
      /\ queue \in [Prompts -> Seq(Requests)]
      /\ EventsSound /\ DecisionsSound /\ QueuesSound
  BY DEF IInv, TypeOK, InHand, Circulating
<1>2. \A d \in Elems(control) : d.id \in Requests
  BY <1>1 DEF DecisionsSound
\* A step that sends nothing, and begins no request that is in flight.
<1>3. ASSUME UNCHANGED <<events, control, queue>>,
             asked \ {io} \subseteq asked' \ {io'}
      PROVE  Circulating'
  <2>1. EventsSound'
    BY <1>1, <1>3 DEF EventsSound
  <2>2. \A d \in Elems(control) : d.id \in asked' \ {io'} /\ (d.yes => Told(d.id)')
    BY <1>1, <1>2, <1>3 DEF DecisionsSound
  <2>3. DecisionsSound'
    BY <1>3, <2>2, Zenon DEF DecisionsSound, Told, Elems
  <2>4. QueuesSound'
    BY <1>1, <1>3 DEF QueuesSound
  <2> QED BY <2>1, <2>3, <2>4 DEF Circulating
\* A step that sends the shell one more request.
<1>4. ASSUME NEW c \in Requests, events' = Append(events, c), c \in asked' \ {io'},
             asked \ {io} \subseteq asked' \ {io'}, UNCHANGED <<control, queue>>
      PROVE  Circulating'
  <2>1. Elems(events') = Elems(events) \cup {c}
    BY <1>1, <1>4, ElemsAppend
  <2>2. EventsSound'
    BY <1>1, <1>4, <2>1 DEF EventsSound
  <2>3. \A d \in Elems(control) : d.id \in asked' \ {io'} /\ (d.yes => Told(d.id)')
    BY <1>1, <1>2, <1>4 DEF DecisionsSound
  <2>4. DecisionsSound'
    BY <1>4, <2>3, Zenon DEF DecisionsSound, Told, Elems
  <2>5. QueuesSound'
    BY <1>1, <1>4 DEF QueuesSound
  <2> QED BY <2>2, <2>4, <2>5 DEF Circulating
\* A request the shell takes from its socket was in flight.
<1>5. ASSUME events # <<>>, events' = Tail(events), UNCHANGED <<asked, io>>
      PROVE  Head(events) \in Requests /\ Head(events) \in asked \ {io} /\ EventsSound'
  BY <1>1, <1>5, ElemsTail DEF EventsSound
<1>6. CASE IOThread
  <2>1. ASSUME NEW c \in Requests, BeginResource(c) PROVE Circulating'
    BY <1>1, <1>3, <2>1 DEF BeginResource, Asks, shellVars
  <2>2. CASE EmitResource
    BY <1>1, <1>3, <1>4, <2>2 DEF EmitResource, shellVars
  <2>3. CASE UndoResource
    BY <1>1, <1>3, <2>3 DEF UndoResource, shellVars
  <2> QED BY <1>6, <2>1, <2>2, <2>3 DEF IOThread
<1>7. CASE UIThread
  <2>1. ASSUME NEW c \in Requests, BeginPrompt(c) PROVE Circulating'
    <3>1. c \notin asked /\ asked' = asked \cup {c} /\ io' = io /\ c # io
      BY <1>1, <2>1 DEF BeginPrompt, Asks
    <3>2. events' = events \/ events' = Append(events, c)
      BY <2>1 DEF BeginPrompt
    <3>3. UNCHANGED <<control, queue>>
      BY <2>1 DEF BeginPrompt, shellVars
    <3> QED BY <1>3, <1>4, <3>1, <3>2, <3>3
  <2>2. CASE TakeDecision
    <3>1. Elems(control') \subseteq Elems(control)
      BY <1>1, <2>2, ElemsTail DEF TakeDecision
    <3>2. UNCHANGED <<asked, io, events, queue>>
      BY <2>2 DEF TakeDecision, shellVars
    <3>3. \A d \in Elems(control') : d.id \in asked' \ {io'} /\ (d.yes => Told(d.id)')
      BY <1>1, <1>2, <3>1, <3>2 DEF DecisionsSound
    <3>4. DecisionsSound'
      BY <3>3, Zenon DEF DecisionsSound, Told, Elems
    <3>5. EventsSound' /\ QueuesSound'
      BY <1>1, <3>2 DEF EventsSound, QueuesSound
    <3> QED BY <3>4, <3>5 DEF Circulating
  <2>3. CASE ApplyDecision
    BY <1>3, <2>3 DEF ApplyDecision, shellVars
  <2>4. ASSUME NEW c \in Requests, Dismiss(c) PROVE Circulating'
    BY <1>3, <2>4 DEF Dismiss, shellVars
  <2>5. CASE ReadEof
    BY <1>3, <2>5 DEF ReadEof, shellVars
  <2>6. CASE Teardown
    BY <1>3, <2>6 DEF Teardown, shellVars
  <2> QED BY <1>7, <2>1, <2>2, <2>3, <2>4, <2>5, <2>6, Zenon DEF UIThread
<1>8. CASE JudgeResource
  <2> PICK c \in Requests : c = Head(events)
    BY <1>1, <1>8, ElemsTail DEF JudgeResource
  <2>1. UNCHANGED <<asked, io, queue>> /\ Kind[c] = "resource"
    BY <1>8 DEF JudgeResource, helperVars
  <2>2. c \in asked \ {io} /\ EventsSound'
    BY <1>5, <1>8, <2>1 DEF JudgeResource
  <2>3. Tell(c, c \notin Blocked) /\ (c \notin Blocked) \in BOOLEAN
    BY <1>8 DEF JudgeResource
  <2>4. c \notin Blocked => Told(c)'
    BY <2>1 DEF Told
  <2>5. DecisionsSound'
    BY <2>1, <2>2, <2>3, <2>4, TellStep
  <2>6. QueuesSound'
    BY <1>1, <2>1 DEF QueuesSound
  <2> QED BY <2>2, <2>5, <2>6 DEF Circulating
<1>9. CASE QueuePrompt
  <2> PICK c \in Requests : c = Head(events)
    BY <1>1, <1>9, ElemsTail DEF QueuePrompt
  <2> DEFINE k == Kind[c]
  <2>1. UNCHANGED <<asked, io, granted, leaving>> /\ k \in Prompts
    BY <1>9 DEF QueuePrompt, helperVars
  <2>2. c \in Requests /\ c \in asked \ {io} /\ EventsSound'
    BY <1>5, <1>9, <2>1 DEF QueuePrompt
  <2>3. queue[k] \in Seq(Requests)
    BY <1>1, <2>1
  <2>4. CASE Len(queue[k]) >= ShellLimit
    <3>1. queue[k] # <<>>
      BY <2>3, <2>4, LimitsAssumption
    <3>2. /\ Tail(queue[k]) \in Seq(Requests)
          /\ Elems(Tail(queue[k])) \subseteq Elems(queue[k])
          /\ Head(queue[k]) \in Requests /\ Head(queue[k]) \in Elems(queue[k])
      BY <2>3, <3>1, ElemsTail
    <3>3. Elems(Append(Tail(queue[k]), c)) = Elems(Tail(queue[k])) \cup {c}
      <4>1. \A q \in Seq(Requests) : Elems(Append(q, c)) = Elems(q) \cup {c}
        BY ElemsAppend
      <4> QED BY <3>2, <4>1, Zenon
    <3>4. /\ Tell(Head(queue[k]), FALSE)
          /\ queue' = [queue EXCEPT ![k] = Append(Tail(queue[k]), c)]
      BY <1>9, <2>4 DEF QueuePrompt
    <3>5. Head(queue[k]) \in asked \ {io}
      BY <1>1, <2>1, <3>2 DEF QueuesSound
    <3>6. DecisionsSound'
      <4> PICK o \in Requests : o = Head(queue[k])
        BY <3>2
      <4>1. Tell(o, FALSE) /\ o \in asked \ {io} /\ UNCHANGED <<asked, io>>
        BY <2>1, <3>4, <3>5
      <4> QED BY <4>1, TellStep
    <3>7. \A j \in Prompts : Elems(queue'[j]) \subseteq
                               Elems(queue[j]) \cup (IF j = k THEN {c} ELSE {})
      BY <1>1, <3>2, <3>3, <3>4
    <3>8. QueuesSound'
      BY <1>1, <2>1, <2>2, <3>7 DEF QueuesSound
    <3> QED BY <2>2, <3>6, <3>8 DEF Circulating
  <2>5. CASE ~(Len(queue[k]) >= ShellLimit)
    <3>1. queue' = [queue EXCEPT ![k] = Append(queue[k], c)] /\ UNCHANGED control
      BY <1>9, <2>5 DEF QueuePrompt
    <3>2. Elems(Append(queue[k], c)) = Elems(queue[k]) \cup {c}
      BY <2>2, <2>3, ElemsAppend
    <3>3. \A j \in Prompts : Elems(queue'[j]) \subseteq
                               Elems(queue[j]) \cup (IF j = k THEN {c} ELSE {})
      BY <1>1, <3>1, <3>2
    <3>4. QueuesSound'
      BY <1>1, <2>1, <2>2, <3>3 DEF QueuesSound
    <3>5. \A d \in Elems(control) : d.id \in asked' \ {io'} /\ (d.yes => Told(d.id)')
      BY <1>1, <1>2, <2>1 DEF DecisionsSound
    <3>6. DecisionsSound'
      BY <3>1, <3>5, Zenon DEF DecisionsSound, Told, Elems
    <3> QED BY <2>2, <3>4, <3>6 DEF Circulating
  <2> QED BY <2>4, <2>5
\* A step that answers the prompt in front of queue k.
<1>10. ASSUME NEW k \in Prompts, NEW yes \in BOOLEAN, NEW c \in Requests,
              queue[k] # <<>>, c = Front(k), Pop(k), Tell(c, yes),
              yes => Told(c)', UNCHANGED <<asked, io, events>>
       PROVE  Circulating'
  <2>1. c \in asked \ {io} /\ QueuesSound'
    BY <1>10, PopStep
  <2>2. DecisionsSound'
    BY <1>10, <2>1, TellStep
  <2>3. EventsSound'
    BY <1>1, <1>10 DEF EventsSound
  <2> QED BY <2>1, <2>2, <2>3 DEF Circulating
<1>11. CASE ReuseGrant
  <2>1. /\ "permission" \in Prompts /\ queue["permission"] # <<>> /\ Pop("permission")
        /\ UNCHANGED <<asked, io, events, granted, leaving>>
    BY <1>11 DEF ReuseGrant, helperVars, Prompts
  <2> PICK c \in Requests : c = Front("permission")
    BY <2>1, PopStep
  <2>2. Kind[c] = "permission" /\ Key[c] \in granted /\ Tell(c, TRUE)
    BY <1>11, <2>1, PopStep DEF ReuseGrant
  <2>3. Told(c)
    BY <2>2 DEF Told
  <2> QED BY <1>10, <2>1, <2>2, <2>3
<1>12. ASSUME NEW yes \in BOOLEAN, AnswerPermission(yes) PROVE Circulating'
  <2>1. /\ "permission" \in Prompts /\ queue["permission"] # <<>> /\ Pop("permission")
        /\ UNCHANGED <<asked, io, events, leaving>>
    BY <1>12 DEF AnswerPermission, helperVars, Prompts
  <2> PICK c \in Requests : c = Front("permission")
    BY <2>1, PopStep
  <2>2. Kind[c] = "permission" /\ (yes => Key[c] \in granted') /\ Tell(c, yes)
    BY <1>12, <2>1, PopStep DEF AnswerPermission
  <2>3. yes => Told(c)'
    BY <2>2 DEF Told
  <2> QED BY <1>10, <2>1, <2>2, <2>3
<1>13. ASSUME NEW yes \in BOOLEAN, AnswerUnload(yes) PROVE Circulating'
  <2>1. /\ "unload" \in Prompts /\ queue["unload"] # <<>> /\ Pop("unload")
        /\ UNCHANGED <<asked, io, events, granted>>
    BY <1>13 DEF AnswerUnload, helperVars, Prompts
  <2> PICK c \in Requests : c = Front("unload")
    BY <2>1, PopStep
  <2>2. Kind[c] = "unload" /\ (yes => c \in leaving') /\ Tell(c, yes)
    BY <1>13, <2>1, PopStep DEF AnswerUnload
  <2>3. yes => Told(c)'
    BY <2>2 DEF Told
  <2> QED BY <1>10, <2>1, <2>2, <2>3
<1>14. CASE CloseSession
  BY <1>3, <1>14 DEF CloseSession, helperVars
<1>15. CASE UNCHANGED vars
  BY <1>3, <1>15 DEF vars, helperVars, shellVars
<1> QED
  BY <1>6, <1>7, <1>8, <1>9, <1>11, <1>12, <1>13, <1>14, <1>15, Zenon
  DEF Next, Shell, User

-----------------------------------------------------------------------------
(* The theorems. *)

LEMMA Invariance == Spec => []IInv
<1>1. Init => IInv
  <2> SUFFICES ASSUME Init PROVE IInv
    OBVIOUS
  <2> USE RequestsAssumption DEF Init
  <2>1. TypeOK
    <3>1. <<>> \in Seq(Requests) /\ <<>> \in Seq(Decision)
      OBVIOUS
    <3>2. queue \in [Prompts -> Seq(Requests)]
      BY <3>1, Zenon
    <3>3. events \in Seq(Requests) /\ control \in Seq(Decision)
      BY <3>1, Zenon
    <3>4. /\ refs \in [Requests -> Int] /\ answers \in [Requests -> Nat]
          /\ io \in Requests \cup {None} /\ answering \in Requests \cup {None}
      OBVIOUS
    <3> QED BY <3>2, <3>3, <3>4, Zenon DEF TypeOK
  <2>2. Elems(<<>>) = {}
    BY DEF Elems
  <2>3. Circulating
    <3>1. Elems(events) = {} /\ Elems(control) = {}
      BY <2>2, Zenon
    <3>2. \A k \in Prompts : queue[k] = <<>>
      BY Zenon
    <3>3. \A k \in Prompts : Elems(queue[k]) = {}
      BY <2>2, <3>2, Zenon
    <3> QED BY <3>1, <3>3 DEF Circulating, EventsSound, DecisionsSound, QueuesSound
  <2>4. Books /\ YesOnlyWhenTold
    BY DEF Books, InHand, Untouched, RefBalance, AnsweredOnce, NoneForgotten,
           YesOnlyWhenTold
  <2> QED BY <2>1, <2>3, <2>4 DEF IInv, Books
<1>2. IInv /\ [Next]_vars => IInv'
  <2> SUFFICES ASSUME IInv, [Next]_vars PROVE IInv'
    OBVIOUS
  <2>1. TypeOK'
    BY TypeStep DEF IInv
  <2>2. \A c \in Requests : Told(c) => Told(c)'
    BY ToldStays DEF IInv
  <2>3. Circulating' /\ YesOnlyWhenTold'
    BY <2>2, CirculatingStep, ToldStep
  <2>4. Books'
    <3>1. CASE IOThread \/ UIThread
      BY <2>2, <3>1, HelperStep
    <3>2. CASE Shell \/ User \/ UNCHANGED vars
      <4>1. UNCHANGED helperVars
        BY <3>2 DEF Shell, JudgeResource, QueuePrompt, ReuseGrant, User,
                    AnswerPermission, AnswerUnload, CloseSession, vars
      <4> QED BY <2>2, <4>1, BooksStay
    <3> QED BY <3>1, <3>2 DEF Next
  <2> QED BY <2>1, <2>3, <2>4 DEF IInv, Books
<1> QED BY <1>1, <1>2, PTL DEF Spec

\* Every variable of the session and the helper keeps its type.
THEOREM TypeCorrect == Spec => []TypeOK
<1>1. IInv => TypeOK
  BY DEF IInv
<1> QED BY <1>1, Invariance, PTL

\* A step adds at most one callback to the maps, and only to one that is not
\* full.
LEMMA HeldStep ==
  ASSUME [Next]_vars
  PROVE  \/ held' \subseteq held
         \/ \E c \in Requests : ~Full(Kind[c]) /\ held' = held \cup {c}
<1>1. CASE IOThread
  BY <1>1 DEF IOThread, BeginResource, EmitResource, UndoResource
<1>2. CASE UIThread
  BY <1>2 DEF UIThread, BeginPrompt, TakeDecision, ApplyDecision, Dismiss, ReadEof, Teardown
<1>3. CASE Shell \/ User \/ UNCHANGED vars
  BY <1>3 DEF Shell, JudgeResource, QueuePrompt, ReuseGrant, User, AnswerPermission,
              AnswerUnload, CloseSession, vars, helperVars
<1> QED BY <1>1, <1>2, <1>3 DEF Next

LEMMA BoundedStep ==
  ASSUME TypeOK, Bounded, [Next]_vars
  PROVE  Bounded'
<1> SUFFICES ASSUME NEW k \in Kinds
             PROVE  Cardinality(HeldOf(k)') <= Limit[k]
  BY DEF Bounded
<1>1. IsFiniteSet(held)
  BY RequestsAssumption, FS_Subset DEF TypeOK
<1>2. IsFiniteSet(HeldOf(k)) /\ Cardinality(HeldOf(k)) <= Limit[k]
      /\ Cardinality(HeldOf(k)) \in Nat /\ Limit[k] \in Nat
  <2>1. HeldOf(k) \subseteq held
    BY DEF HeldOf
  <2> QED BY <1>1, <2>1, FS_Subset, FS_CardinalityType, LimitsAssumption DEF Bounded
<1>3. CASE HeldOf(k)' \subseteq HeldOf(k)
  BY <1>2, <1>3, FS_Subset, FS_CardinalityType
<1>4. CASE \E c \in Requests : ~Full(Kind[c]) /\ held' = held \cup {c} /\ Kind[c] = k
  <2>1. PICK c \in Requests : ~Full(k) /\ HeldOf(k)' = HeldOf(k) \cup {c}
    BY <1>4 DEF HeldOf
  <2>2. Cardinality(HeldOf(k)) < Limit[k]
    BY <1>2, <2>1 DEF Full
  <2>3. Cardinality(HeldOf(k) \cup {c})
          = IF c \in HeldOf(k) THEN Cardinality(HeldOf(k)) ELSE Cardinality(HeldOf(k)) + 1
    BY <1>2, FS_AddElement
  <2>4. Cardinality(HeldOf(k) \cup {c}) <= Limit[k]
    BY <1>2, <2>2, <2>3
  <2> QED BY <2>1, <2>4
<1>5. CASE held' \subseteq held
  BY <1>3, <1>5 DEF HeldOf
<1>6. CASE \E c \in Requests : ~Full(Kind[c]) /\ held' = held \cup {c} /\ Kind[c] # k
  BY <1>3, <1>6 DEF HeldOf
<1> QED BY <1>4, <1>5, <1>6, HeldStep

\* CEF's callbacks are neither released twice nor leaked, and no map grows
\* past its limit, whatever the order of requests, lost events, decisions,
\* dismissals and the teardown.
THEOREM MapsAreSound == Spec => []MapsSound
<1>1. IInv => RefBalance /\ TypeOK
  BY DEF IInv
<1>2. Init => Bounded
  BY FS_EmptySet, LimitsAssumption DEF Init, Bounded, HeldOf
<1>3. Bounded /\ RefBalance => MapsSound
  BY DEF MapsSound
<1> QED BY <1>1, <1>2, <1>3, BoundedStep, Invariance, PTL DEF Spec

\* Every callback is continued at most once and none is forgotten.
THEOREM ContinuedExactlyOnce == Spec => []ContinuedOnce
<1>1. IInv => ContinuedOnce
  BY DEF IInv, ContinuedOnce
<1> QED BY <1>1, Invariance, PTL

\* The helper fails closed: no "yes" that the filter or the user did not give.
THEOREM FailsClosed == Spec => []YesOnlyWhenTold
<1>1. IInv => YesOnlyWhenTold
  BY DEF IInv
<1> QED BY <1>1, Invariance, PTL

=============================================================================
