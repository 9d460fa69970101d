------------------------- MODULE SessionSyncProofs --------------------------
(***************************************************************************)
(* The safety of SessionSync for any sets of requests and any number of    *)
(* ends of the worker and of the receiving shell.                          *)
(*                                                                         *)
(* Shape describes the worker's list: what is claimed stands in front of   *)
(* it and nowhere else.  With that, Once says that whatever was claimed    *)
(* stays spent: its nonce is in the ledger until its token is over.        *)
(* Carried follows a handoff from outbox to outbox, Shells a tab through   *)
(* the receiving shell.  Ordered is about the snapshots a life of the      *)
(* worker has still to read: each that is older than the saved one is      *)
(* spent already, and the others come in their order.                      *)
(***************************************************************************)
EXTENDS SessionSync, WellFoundedInduction, TLAPS

\* The worker's list.
FrontOps == {"save", "store", "call", "unlink"}
SnapOps  == {"list snaps", "snaps"}

Good(it) ==
  /\ it.op \in {"snaps", "save"} => it.batch \subseteq Snap
  /\ it.op \in {"tabs", "store", "send", "unlink"} => it.batch \subseteq Tab
  /\ it.op = "call" => it.batch \subseteq PhoneTab
  /\ it.op \in {"snaps", "tabs", "send"} => it.batch # {}
  /\ it.op \in FrontOps => \E r \in it.batch : it.batch = {r}

Shape ==
  /\ \A i \in 1 .. Len(todo) : Good(todo[i])
  /\ \A i \in 1 .. Len(todo) : todo[i].op \in FrontOps => i = 1
  /\ \A i, j \in 1 .. Len(todo) :
       todo[i].op \in SnapOps /\ todo[j].op \in SnapOps => i = j

\* Spent requests.
Spent(r) == r \in ledger \/ age[r] = "over"

Once ==
  /\ \A r \in Request : applied[r] > 0 => Spent(r) /\ applied[r] = 1
  /\ At("save") \/ At("store") => \A r \in Batch : Spent(r) /\ applied[r] = 0
  /\ \A t \in PhoneTab : calls[t] > 0 => calls[t] = 1 /\ applied[t] > 0
  /\ At("call") => \A t \in Batch : calls[t] = 0 /\ applied[t] > 0

\* Handoffs.
Marked(t) == t \in marks \cup unmarked
Gone(t)   == t \in shareOut \cup inbox \/ Marked(t)

Carried ==
  /\ HandoffKept
  /\ At("unlink") => \A t \in Batch : Gone(t)
  /\ \A t \in unlinked : Marked(t)
  /\ shell.step = "unlink" => Marked(shell.taking)

\* The receiving shell.
Shells ==
  /\ shell.step # "idle" => shell.taking \in NodeTab
  /\ \A t \in NodeTab \ unmarked :
       /\ opened[t] > 0 => opened[t] = 1 /\ t \in marks
       /\ t \in shell.queue =>
            /\ opened[t] = 0
            /\ t \in marks \/ (shell.step = "mark" /\ shell.taking = t)

\* The snapshots.
Snaps == published \cap Snap
Known(r) == Spent(r) \/ r \in dropped
Waiting(B) ==
  /\ B \subseteq published
  /\ \A q \in B : q > seen["snap"]
  /\ \A r \in Snaps : r > seen["snap"] => r \in B \/ \A q \in B : q < r

Ordered ==
  /\ {local, seen["snap"]} \subseteq Snaps \cup {None}
  /\ \A r \in Snaps : r <= local \/ r <= seen["snap"] => Known(r)
  /\ \A i \in 1 .. Len(todo) : todo[i].op = "snaps" => Waiting(todo[i].batch)
  /\ At("save") => \A r \in Batch : r = seen["snap"] /\ (r >= local \/ r \in dropped)

Mirrored == last /\ ~pending => share = local

IInv == TypeOK /\ Shape /\ Once /\ Carried /\ Shells /\ Ordered /\ Mirrored
-----------------------------------------------------------------------------
(* Lists and requests. *)

\* The oldest of a batch.
LEMMA FirstProps ==
  ASSUME NEW S, S \subseteq Nat, S # {}
  PROVE  First(S) \in S /\ \A q \in S : First(S) <= q
<1> DEFINE R == OpToRel(<, Nat)
<1>1. IsWellFoundedOn(R, Nat)
  BY NatLessThanWellFounded
<1>2. \A x, y \in Nat : <<x, y>> \in R <=> x < y
  BY DEF OpToRel
<1> HIDE DEF R
<1>3. \E x \in S : \A y \in S : ~(<<y, x>> \in R)
  BY <1>1, WFMin
<1>4. \E x \in S : \A y \in S : x <= y
  <2>1. PICK x \in S : \A y \in S : ~(<<y, x>> \in R)
    BY <1>3
  <2>2. \A y \in S : x \in Nat /\ y \in Nat /\ ~(y < x)
    BY <1>2, <2>1
  <2>3. \A y \in S : x <= y
    BY <2>2
  <2> QED BY <2>3
<1> QED BY <1>4 DEF First

LEMMA FirstOfOne ==
  ASSUME NEW r \in Nat PROVE First({r}) = r
BY FirstProps

LEMMA Requests ==
  /\ Snap \subseteq Nat \ {0} /\ Tab \subseteq Nat \ {0} /\ Request \subseteq Nat \ {0}
  /\ Snap \cap Tab = {} /\ Request = Snap \cup Tab
  /\ NodeTab \subseteq Tab /\ PhoneTab \subseteq Tab /\ NodeTab \cap PhoneTab = {}
  /\ None \notin Request
BY RequestAssumption DEF Tab, Request, None

LEMMA Ordinals ==
  ASSUME NEW n, n \in Request \cup {0} \/ n \in Snap \cup {0}
  PROVE  n \in Nat
BY RequestAssumption DEF Request, Tab

LEMMA SnapOrdinals == Snap \subseteq Nat \ {0} /\ Snap \subseteq Request
BY RequestAssumption DEF Request, Tab

LEMMA Concatenated ==
  ASSUME NEW S, NEW t \in Seq(S), NEW u \in Seq(S)
  PROVE  /\ t \o u \in Seq(S) /\ Len(t \o u) = Len(t) + Len(u) /\ Len(t) \in Nat
         /\ \A i \in 1 .. Len(t) + Len(u) :
              (t \o u)[i] = IF i <= Len(t) THEN t[i] ELSE u[i - Len(t)]
OBVIOUS

LEMMA SeqFacts ==
  ASSUME NEW S, NEW t \in Seq(S)
  PROVE  Len(t) \in Nat /\ (t # <<>> => Head(t) = t[1] /\ 1 \in 1 .. Len(t) /\ t[1] \in S)
OBVIOUS

LEMMA OneOrTwo == \A i \in 1 .. 2 : i = 1 \/ i = 2
OBVIOUS

LEMMA EitherPart ==
  ASSUME NEW m \in Nat, NEW n \in Nat, NEW i \in 1 .. m + n
  PROVE  (i \in 1 .. m /\ i <= m) \/ (i - m \in 1 .. n /\ ~(i <= m))
OBVIOUS

\* The item in front replaced by others.
LEMMA Replaced ==
  ASSUME NEW S, NEW s \in Seq(S), s # <<>>, NEW t \in Seq(S)
  PROVE  /\ t \o Tail(s) \in Seq(S) /\ Len(s) \in Nat \ {0} /\ Len(t) \in Nat
         /\ Head(s) = s[1] /\ s[1] \in S
         /\ Len(t \o Tail(s)) = Len(t) + Len(s) - 1
         /\ \A i \in 1 .. Len(t) : (t \o Tail(s))[i] = t[i]
         /\ \A i \in Len(t) + 1 .. Len(t) + Len(s) - 1 :
              (t \o Tail(s))[i] = s[i - Len(t) + 1] /\ i - Len(t) + 1 \in 2 .. Len(s)
<1> DEFINE u == Tail(s)
<1>1. /\ Len(s) \in Nat \ {0} /\ Head(s) = s[1] /\ s[1] \in S
      /\ u \in Seq(S) /\ Len(u) = Len(s) - 1
      /\ \A i \in 1 .. Len(s) - 1 : u[i] = s[i + 1]
  OBVIOUS
<1> HIDE DEF u
<1>2. /\ t \o u \in Seq(S) /\ Len(t \o u) = Len(t) + Len(u) /\ Len(t) \in Nat
      /\ \A i \in 1 .. Len(t) + Len(u) :
           (t \o u)[i] = IF i <= Len(t) THEN t[i] ELSE u[i - Len(t)]
  BY <1>1, Concatenated
<1>3. \A i \in Len(t) + 1 .. Len(t) + Len(s) - 1 :
         /\ i \in 1 .. Len(t) + Len(u) /\ ~(i <= Len(t))
         /\ i - Len(t) \in 1 .. Len(s) - 1 /\ (i - Len(t)) + 1 = i - Len(t) + 1
         /\ i - Len(t) + 1 \in 2 .. Len(s)
  BY <1>1, <1>2
<1>4. \A i \in 1 .. Len(t) : i \in 1 .. Len(t) + Len(u) /\ i <= Len(t)
  BY <1>1, <1>2
<1> QED BY <1>1, <1>2, <1>3, <1>4 DEF u

\* A list of items that may take the place of the one in front.
Fits(t) ==
  /\ t \in Seq(Item)
  /\ todo' = t \o Tail(todo)
  /\ \A k \in 1 .. Len(t) :
       /\ Good(t[k])
       /\ t[k].op \in FrontOps => k = 1
       /\ t[k].op \in SnapOps => Head(todo).op \in SnapOps
  /\ \A k, l \in 1 .. Len(t) : t[k].op \in SnapOps /\ t[l].op \in SnapOps => k = l

\* Where the items come from, then.
LEMMA Origins ==
  ASSUME todo \in Seq(Item), todo # <<>>, Shape, NEW t, Fits(t)
  PROVE  /\ todo' \in Seq(Item) /\ Len(t) \in Nat
         /\ Head(todo) = todo[1] /\ todo[1] \in Item /\ 1 \in 1 .. Len(todo)
         /\ \A i \in 1 .. Len(todo') :
              \/ i \in 1 .. Len(t) /\ todo'[i] = t[i]
              \/ i > Len(t) /\ \E j \in 2 .. Len(todo) :
                   i - Len(t) + 1 = j /\ todo'[i] = todo[j]
         /\ \A i \in 1 .. Len(t) : i \in 1 .. Len(todo') /\ todo'[i] = t[i]
<1>1. /\ todo' = t \o Tail(todo) /\ t \in Seq(Item)
  BY DEF Fits
<1>2. /\ t \o Tail(todo) \in Seq(Item) /\ Len(todo) \in Nat \ {0} /\ Len(t) \in Nat
      /\ Head(todo) = todo[1] /\ todo[1] \in Item
      /\ Len(t \o Tail(todo)) = Len(t) + Len(todo) - 1
      /\ \A i \in 1 .. Len(t) : (t \o Tail(todo))[i] = t[i]
      /\ \A i \in Len(t) + 1 .. Len(t) + Len(todo) - 1 :
              (t \o Tail(todo))[i] = todo[i - Len(t) + 1] /\ i - Len(t) + 1 \in 2 .. Len(todo)
  BY <1>1, Replaced
<1>3. \A i \in 1 .. Len(todo') : i \in 1 .. Len(t) \/ i \in Len(t) + 1 .. Len(t) + Len(todo) - 1
  BY <1>1, <1>2
<1>4. \A i \in 1 .. Len(todo') :
              \/ i \in 1 .. Len(t) /\ todo'[i] = t[i]
              \/ i > Len(t) /\ \E j \in 2 .. Len(todo) :
                   i - Len(t) + 1 = j /\ todo'[i] = todo[j]
  <2> SUFFICES ASSUME NEW i \in 1 .. Len(todo')
               PROVE  \/ i \in 1 .. Len(t) /\ todo'[i] = t[i]
                      \/ i > Len(t) /\ \E j \in 2 .. Len(todo) :
                           i - Len(t) + 1 = j /\ todo'[i] = todo[j]
    OBVIOUS
  <2>1. CASE i \in 1 .. Len(t)
    BY <1>1, <1>2, <2>1
  <2>2. CASE i \in Len(t) + 1 .. Len(t) + Len(todo) - 1
    BY <1>1, <1>2, <2>2
  <2> QED BY <1>3, <2>1, <2>2
<1>5. \A i \in 1 .. Len(t) : i \in 1 .. Len(todo') /\ todo'[i] = t[i]
  BY <1>1, <1>2
<1>6. 1 \in 1 .. Len(todo)
  BY <1>2
<1> QED BY <1>1, <1>2, <1>4, <1>5, <1>6

LEMMA Reshaped ==
  ASSUME todo \in Seq(Item), todo # <<>>, Shape, NEW t, Fits(t)
  PROVE  /\ todo' \in Seq(Item) /\ Shape'
         /\ Head(todo).op \notin SnapOps =>
              \A i \in 1 .. Len(todo') : todo'[i].op = "snaps" =>
                \E j \in 1 .. Len(todo) : todo[j] = todo'[i]
         /\ Head(todo).op \in SnapOps =>
              \A i \in 1 .. Len(todo') : todo'[i].op = "snaps" =>
                \E k \in 1 .. Len(t) : t[k] = todo'[i]
<1>1. \A i \in 1 .. Len(todo') : Good(todo'[i]) /\ (todo'[i].op \in FrontOps => i = 1)
  <2> SUFFICES ASSUME NEW i \in 1 .. Len(todo')
               PROVE  Good(todo'[i]) /\ (todo'[i].op \in FrontOps => i = 1)
    OBVIOUS
  <2>1. CASE i \in 1 .. Len(t) /\ todo'[i] = t[i]
    BY <2>1 DEF Fits
  <2>2. CASE \E j \in 2 .. Len(todo) : todo'[i] = todo[j]
    BY <2>2 DEF Shape
  <2> QED BY <2>1, <2>2, Origins
<1>2. \A i \in 1 .. Len(todo') : todo'[i].op \in SnapOps =>
         \/ Head(todo).op \in SnapOps /\ i \in 1 .. Len(t) /\ todo'[i] = t[i]
         \/ Head(todo).op \notin SnapOps /\ i > Len(t)
              /\ \E j \in 2 .. Len(todo) : i - Len(t) + 1 = j /\ todo'[i] = todo[j]
  <2> SUFFICES ASSUME NEW i \in 1 .. Len(todo'), todo'[i].op \in SnapOps
               PROVE  \/ Head(todo).op \in SnapOps /\ i \in 1 .. Len(t) /\ todo'[i] = t[i]
                      \/ Head(todo).op \notin SnapOps /\ i > Len(t)
                           /\ \E j \in 2 .. Len(todo) :
                                i - Len(t) + 1 = j /\ todo'[i] = todo[j]
    OBVIOUS
  <2>1. CASE i \in 1 .. Len(t) /\ todo'[i] = t[i]
    BY <2>1 DEF Fits
  <2>2. CASE i > Len(t) /\ \E j \in 2 .. Len(todo) : i - Len(t) + 1 = j /\ todo'[i] = todo[j]
    <3>1. PICK j \in 2 .. Len(todo) : i - Len(t) + 1 = j /\ todo'[i] = todo[j]
      BY <2>2
    <3>2. Head(todo) = todo[1] /\ 1 \in 1 .. Len(todo) /\ j \in 1 .. Len(todo) /\ j # 1
      BY Origins
    <3>3. Head(todo).op \notin SnapOps
      BY <3>1, <3>2 DEF Shape
    <3> QED BY <2>2, <3>3
  <2> QED BY <2>1, <2>2, Origins
<1>3. \A i, j \in 1 .. Len(todo') :
         todo'[i].op \in SnapOps /\ todo'[j].op \in SnapOps => i = j
  <2> SUFFICES ASSUME NEW i \in 1 .. Len(todo'), NEW j \in 1 .. Len(todo'),
                      todo'[i].op \in SnapOps, todo'[j].op \in SnapOps
               PROVE  i = j
    OBVIOUS
  <2>1. CASE Head(todo).op \in SnapOps
    BY <1>2, <2>1 DEF Fits
  <2>2. CASE Head(todo).op \notin SnapOps
    <3>1. PICK k \in 2 .. Len(todo) : i - Len(t) + 1 = k /\ todo'[i] = todo[k]
      BY <1>2, <2>2
    <3>2. PICK l \in 2 .. Len(todo) : j - Len(t) + 1 = l /\ todo'[j] = todo[l]
      BY <1>2, <2>2
    <3>3. k \in 1 .. Len(todo) /\ l \in 1 .. Len(todo)
      OBVIOUS
    <3>4. k = l
      BY <3>1, <3>2, <3>3 DEF Shape
    <3>5. Len(t) \in Nat
      BY Origins
    <3> QED BY <3>1, <3>2, <3>4, <3>5
  <2> QED BY <2>1, <2>2
<1>4. Shape'
  BY <1>1, <1>3 DEF Shape
<1>5. Head(todo).op \notin SnapOps =>
        \A i \in 1 .. Len(todo') : todo'[i].op = "snaps" =>
          \E j \in 1 .. Len(todo) : todo[j] = todo'[i]
  <2>1. \A j \in 2 .. Len(todo) : j \in 1 .. Len(todo)
    OBVIOUS
  <2> QED BY <1>2, <2>1 DEF SnapOps
<1>6. Head(todo).op \in SnapOps =>
        \A i \in 1 .. Len(todo') : todo'[i].op = "snaps" =>
          \E k \in 1 .. Len(t) : t[k] = todo'[i]
  BY <1>2 DEF SnapOps
<1> QED BY <1>4, <1>5, <1>6, Origins

\* What is in front, then.
LEMMA InFront ==
  ASSUME todo \in Seq(Item), todo # <<>>, Shape, NEW t, Fits(t)
  PROVE  /\ t = <<>> => \A op \in FrontOps : ~At(op)'
         /\ t # <<>> => \A op : At(op)' => t[1].op = op /\ Batch' = t[1].batch
<1>1. t \in Seq(Item)
  BY DEF Fits
<1>2. ASSUME t = <<>>, NEW op \in FrontOps, At(op)' PROVE FALSE
  <2>1. todo' # <<>> /\ Head(todo').op = op /\ todo' \in Seq(Item)
    BY <1>2, Origins DEF At
  <2>2. 1 \in 1 .. Len(todo') /\ Head(todo') = todo'[1] /\ Len(t) = 0
    BY <1>2, <2>1
  <2>3. PICK j \in 2 .. Len(todo) : todo'[1] = todo[j]
    BY <2>2, Origins
  <2>4. j \in 1 .. Len(todo) /\ j # 1
    OBVIOUS
  <2> QED BY <1>2, <2>1, <2>2, <2>3, <2>4 DEF Shape
<1>3. ASSUME t # <<>>, NEW op, At(op)' PROVE t[1].op = op /\ Batch' = t[1].batch
  <2>1. 1 \in 1 .. Len(t)
    BY <1>1, <1>3
  <2>2. todo'[1] = t[1] /\ todo' \in Seq(Item) /\ todo' # <<>> /\ Head(todo').op = op
    BY <1>3, <2>1, Origins DEF At
  <2>3. Head(todo') = todo'[1]
    BY <2>2
  <2> QED BY <2>2, <2>3 DEF Batch
<1> QED BY <1>2, <1>3

-----------------------------------------------------------------------------
(* The worker's steps and its list. *)

\* The batch in front and the oldest request of it.
LEMMA Front ==
  ASSUME TypeOK, Shape, NEW op, At(op)
  PROVE  /\ up /\ todo \in Seq(Item) /\ todo # <<>> /\ Head(todo) \in Item
         /\ Good(Head(todo)) /\ Head(todo).op = op /\ Batch = Head(todo).batch
         /\ Batch \subseteq Request
         /\ op \in FrontOps \cup {"snaps", "tabs", "send"} =>
              /\ Cur \in Batch /\ Cur \in Nat
              /\ \A q \in Batch : Cur <= q
         /\ op \in FrontOps => Batch = {Cur}
         /\ op \in {"snaps", "save"} => Batch \subseteq Snap
         /\ op \in {"tabs", "store", "send", "unlink"} => Batch \subseteq Tab
         /\ op = "call" => Batch \subseteq PhoneTab
<1>1. /\ up /\ todo \in Seq(Item) /\ todo # <<>> /\ Head(todo).op = op
      /\ Batch = Head(todo).batch
  BY DEF TypeOK, At, Batch
<1>2. Head(todo) \in Item /\ 1 \in 1 .. Len(todo) /\ Head(todo) = todo[1]
  BY <1>1
<1>3. Good(Head(todo))
  BY <1>2 DEF Shape
<1>4. Batch \subseteq Request /\ Batch \subseteq Nat
  BY <1>1, <1>2, Requests DEF Item
<1>5. op \in FrontOps => \E r \in Batch : Batch = {r}
  BY <1>1, <1>3 DEF Good
<1>6. op \in FrontOps \cup {"snaps", "tabs", "send"} => Batch # {}
  BY <1>1, <1>3, <1>5 DEF Good
<1>7. op \in FrontOps \cup {"snaps", "tabs", "send"} =>
        Cur \in Batch /\ Cur \in Nat /\ \A q \in Batch : Cur <= q
  BY <1>4, <1>6, FirstProps DEF Cur
<1>8. op \in FrontOps => Batch = {Cur}
  BY <1>5, <1>7
<1> QED BY <1>1, <1>2, <1>3, <1>4, <1>7, <1>8 DEF Good

LEMMA Items ==
  /\ \A op \in Ops : Do(op) \in Item /\ Do(op).op = op
  /\ \A op \in Ops, S \in SUBSET Request :
       On(op, S) \in Item /\ On(op, S).op = op /\ On(op, S).batch = S
  /\ \A op \in Ops \ ({"snaps", "tabs", "send"} \cup FrontOps) : Good(Do(op))
  /\ FrontOps \cup SnapOps \cup {"tabs", "send"} \subseteq Ops
BY DEF Do, On, Item, Good, FrontOps, SnapOps, Ops

LEMMA FitsNone ==
  ASSUME todo \in Seq(Item), todo # <<>>, todo' = Tail(todo) PROVE Fits(<<>>)
<1>1. Tail(todo) \in Seq(Item)
  OBVIOUS
<1>2. <<>> \o Tail(todo) = Tail(todo)
  BY <1>1
<1> QED BY <1>2 DEF Fits

LEMMA FitsOne ==
  ASSUME NEW a \in Item, Good(a), todo' = <<a>> \o Tail(todo),
         a.op \in SnapOps => Head(todo).op \in SnapOps
  PROVE  Fits(<<a>>)
<1> DEFINE t == <<a>>
<1>1. t \in Seq(Item) /\ Len(t) = 1 /\ t[1] = a /\ todo' = t \o Tail(todo)
  OBVIOUS
<1>2. \A k \in 1 .. Len(t) : k = 1
  BY <1>1
<1> HIDE DEF t
<1>3. Fits(t)
  BY <1>1, <1>2 DEF Fits
<1> QED BY <1>3 DEF t

LEMMA FitsTwo ==
  ASSUME NEW a \in Item, NEW b \in Item, NEW t \in Seq(Item), Len(t) = 2, t[1] = a, t[2] = b,
         Good(a), Good(b), todo' = t \o Tail(todo), b.op \notin FrontOps,
         a.op \notin SnapOps, b.op \in SnapOps => Head(todo).op \in SnapOps
  PROVE  Fits(t)
<1>1. \A k \in 1 .. Len(t) : (k = 1 /\ t[k] = a) \/ (k = 2 /\ t[k] = b)
  OBVIOUS
<1> QED BY <1>1 DEF Fits

LEMMA Pairs ==
  ASSUME NEW a \in Item, NEW b \in Item
  PROVE  /\ <<a>> \o <<b>> \in Seq(Item) /\ Len(<<a>> \o <<b>>) = 2
         /\ (<<a>> \o <<b>>)[1] = a /\ (<<a>> \o <<b>>)[2] = b
         /\ <<a>> \o <<>> = <<a>> /\ <<>> \o <<a>> = <<a>>
         /\ <<a, b>> \in Seq(Item) /\ Len(<<a, b>>) = 2
         /\ <<a, b>>[1] = a /\ <<a, b>>[2] = b
<1>1. <<a>> \in Seq(Item) /\ <<b>> \in Seq(Item) /\ Len(<<a>>) = 1 /\ Len(<<b>>) = 1
      /\ <<a>>[1] = a /\ <<b>>[1] = b
  OBVIOUS
<1> DEFINE x == <<a>>
           y == <<b>>
<1> HIDE DEF x, y
<1>2. /\ x \o y \in Seq(Item) /\ Len(x \o y) = 2 /\ (x \o y)[1] = a /\ (x \o y)[2] = b
  BY <1>1, Concatenated DEF x, y
<1>3. x \o <<>> = x /\ <<>> \o x = x
  BY <1>1 DEF x
<1>4. <<a, b>> \in Seq(Item) /\ Len(<<a, b>>) = 2 /\ <<a, b>>[1] = a /\ <<a, b>>[2] = b
  OBVIOUS
<1> QED BY <1>2, <1>3, <1>4 DEF x, y

\* A step of a batch: an item x in front of the rest, or the rest alone.
LEMMA BatchSteps ==
  ASSUME TypeOK, Shape, NEW op \in {"snaps", "tabs", "send"}, At(op),
         NEW x \in Item, Good(x), x.op \in FrontOps
  PROVE  /\ todo' = <<x>> \o Unfinished(op) \o Tail(todo) =>
              Fits(<<x>> \o Unfinished(op)) /\ <<x>> \o Unfinished(op) # <<>>
                /\ (<<x>> \o Unfinished(op))[1] = x
         /\ todo' = Unfinished(op) \o Tail(todo) =>
              /\ Fits(Unfinished(op))
              /\ \A p \in FrontOps : ~At(p)'
         /\ \A k \in 1 .. Len(Unfinished(op)) :
              Unfinished(op)[k].op = op => Unfinished(op)[k].batch = Batch \ {Cur}
         /\ \A k \in 1 .. Len(<<x>> \o Unfinished(op)) :
              (<<x>> \o Unfinished(op))[k].op = op =>
                (<<x>> \o Unfinished(op))[k].batch = Batch \ {Cur}
<1> DEFINE rest == On(op, Batch \ {Cur})
<1>1. /\ op \notin FrontOps /\ op \in Ops /\ x.op \notin SnapOps /\ x.op # op
  BY DEF FrontOps, SnapOps, Ops
<1>2. /\ todo \in Seq(Item) /\ todo # <<>> /\ Head(todo).op = op /\ Batch \subseteq Request
      /\ op = "snaps" => Batch \subseteq Snap
      /\ op \in {"tabs", "send"} => Batch \subseteq Tab
      /\ Cur \in Batch
  BY Front
<1>3. rest \in Item /\ rest.op = op /\ rest.batch = Batch \ {Cur}
  BY <1>1, <1>2, Items
<1>4. CASE Batch = {Cur}
  <2>1. Unfinished(op) = <<>>
    BY <1>4 DEF Unfinished
  <2>2. <<x>> \o Unfinished(op) = <<x>> /\ Len(<<x>>) = 1 /\ <<x>>[1] = x
        /\ <<>> \o Tail(todo) = Tail(todo)
    BY <1>2, <2>1, Pairs
  <2>3. todo' = <<x>> \o Unfinished(op) \o Tail(todo) => Fits(<<x>>)
    BY <1>1, <2>2, FitsOne
  <2>4. todo' = Unfinished(op) \o Tail(todo) => Fits(<<>>)
    BY <1>2, <2>1, <2>2, FitsNone
  <2>5. Fits(<<>>) => \A p \in FrontOps : ~At(p)'
    BY <1>2, InFront
  <2>6. \A k \in 1 .. Len(<<x>>) : <<x>>[k] = x
    BY <2>2
  <2>7. \A k \in 1 .. Len(<<>>) : FALSE
    OBVIOUS
  <2>8. <<x>> # <<>>
    OBVIOUS
  <2> QED BY <1>1, <2>1, <2>2, <2>3, <2>4, <2>5, <2>6, <2>7, <2>8
<1>5. CASE Batch # {Cur}
  <2>1. Unfinished(op) = <<rest>>
    BY <1>5 DEF Unfinished
  <2>2. Good(rest)
    BY <1>1, <1>2, <1>3, <1>5 DEF Good
  <2> HIDE DEF rest
  <2>3. /\ <<x>> \o <<rest>> \in Seq(Item) /\ Len(<<x>> \o <<rest>>) = 2
        /\ (<<x>> \o <<rest>>)[1] = x /\ (<<x>> \o <<rest>>)[2] = rest
    BY <1>3, Pairs
  <2>4. todo' = (<<x>> \o <<rest>>) \o Tail(todo) => Fits(<<x>> \o <<rest>>)
    BY <1>1, <1>2, <1>3, <2>2, <2>3, FitsTwo
  <2>5. todo' = <<rest>> \o Tail(todo) => Fits(<<rest>>)
    BY <1>2, <1>3, <2>2, FitsOne
  <2>6. Len(<<rest>>) = 1 /\ <<rest>>[1] = rest /\ <<rest>> # <<>>
    OBVIOUS
  <2>7. Fits(<<rest>>) => \A p \in FrontOps : ~At(p)'
    BY <1>1, <1>2, <1>3, <2>6, InFront
  <2>8. \A k \in 1 .. Len(<<x>> \o <<rest>>) :
          (<<x>> \o <<rest>>)[k] = x \/ (<<x>> \o <<rest>>)[k] = rest
    BY <2>3
  <2>9. \A k \in 1 .. Len(<<rest>>) : <<rest>>[k] = rest
    BY <2>6
  <2>10. <<x>> \o <<rest>> # <<>>
    BY <2>3
  <2> QED BY <1>1, <1>3, <2>1, <2>3, <2>4, <2>5, <2>7, <2>8, <2>9, <2>10
<1> QED BY <1>4, <1>5

\* No request is in front; what is left of the snapshots was there before.
Quiet == \A p \in FrontOps : ~At(p)'
Kept  == \A i \in 1 .. Len(todo') :
           todo'[i].op = "snaps" => \E j \in 1 .. Len(todo) : todo[j] = todo'[i]

\* The lists a tick, a start and an end begin with.
PlainOps == {"list tabs", "mirror", "scan", "tell", "exit"}
Plain(t) == t \in Seq(Item) /\ \A i \in 1 .. Len(t) : Good(t[i]) /\ t[i].op \in PlainOps

LEMMA PlainItems ==
  \A op \in PlainOps \cup {"list snaps"} : Do(op) \in Item /\ Do(op).op = op /\ Good(Do(op))
<1>1. PlainOps \cup {"list snaps"} \subseteq Ops \ ({"snaps", "tabs", "send"} \cup FrontOps)
  BY DEF PlainOps, Ops, FrontOps
<1> QED BY <1>1, Items

LEMMA PlainOne == ASSUME NEW op \in PlainOps PROVE Plain(<<Do(op)>>) /\ Len(<<Do(op)>>) = 1
<1> DEFINE a == Do(op)
<1>1. a \in Item /\ Good(a) /\ a.op \in PlainOps
  BY PlainItems
<1> HIDE DEF a
<1>2. <<a>> \in Seq(Item) /\ Len(<<a>>) = 1 /\ \A i \in 1 .. Len(<<a>>) : <<a>>[i] = a
  BY <1>1
<1> QED BY <1>1, <1>2 DEF Plain, a

LEMMA PlainFlush == Plain(Flush) /\ Len(Flush) = 3
<1> DEFINE a == Do("mirror")
           b == Do("scan")
           c == Do("tell")
<1>1. /\ a \in Item /\ Good(a) /\ a.op \in PlainOps
      /\ b \in Item /\ Good(b) /\ b.op \in PlainOps
      /\ c \in Item /\ Good(c) /\ c.op \in PlainOps
  BY PlainItems DEF PlainOps
<1>2. Flush = <<a, b, c>>
  BY DEF Flush
<1> HIDE DEF a, b, c
<1>3. <<a, b, c>> \in Seq(Item) /\ Len(<<a, b, c>>) = 3
      /\ <<a, b, c>>[1] = a /\ <<a, b, c>>[2] = b /\ <<a, b, c>>[3] = c
  BY <1>1
<1>4. \A i \in 1 .. 3 : i = 1 \/ i = 2 \/ i = 3
  OBVIOUS
<1> QED BY <1>1, <1>2, <1>3, <1>4 DEF Plain

LEMMA PlainAfter ==
  ASSUME NEW t, Plain(t), NEW u \in Seq(Item),
         \A i \in 1 .. Len(u) :
           Good(u[i]) /\ (u[i].op \in PlainOps \/ (i = 1 /\ u[i].op = "list snaps"))
  PROVE  /\ u \o t \in Seq(Item)
         /\ \A i \in 1 .. Len(u \o t) :
              /\ Good((u \o t)[i])
              /\ (u \o t)[i].op \in PlainOps \/ (i = 1 /\ (u \o t)[i].op = "list snaps")
<1>1. t \in Seq(Item) /\ Len(t) \in Nat /\ Len(u) \in Nat
  <2>1. t \in Seq(Item)
    BY DEF Plain
  <2> QED BY <2>1, SeqFacts
<1>2. /\ u \o t \in Seq(Item) /\ Len(u \o t) = Len(u) + Len(t)
      /\ \A i \in 1 .. Len(u) + Len(t) : (u \o t)[i] = IF i <= Len(u) THEN u[i] ELSE t[i - Len(u)]
  BY <1>1, Concatenated
<1>3. \A i \in 1 .. Len(u) + Len(t) :
         \/ i \in 1 .. Len(u) /\ (u \o t)[i] = u[i]
         \/ i - Len(u) \in 1 .. Len(t) /\ (u \o t)[i] = t[i - Len(u)]
  BY <1>1, <1>2, EitherPart
<1> QED BY <1>2, <1>3 DEF Plain

LEMMA NewLists ==
  ASSUME \/ todo' = Flush \/ todo' = <<Do("list snaps"), Do("list tabs")>> \o Flush
         \/ todo' = Flush \o <<Do("exit")>> \/ todo' = <<>>
  PROVE  todo' \in Seq(Item) /\ Shape' /\ Quiet /\ Kept
<1>1. /\ todo' \in Seq(Item)
      /\ \A i \in 1 .. Len(todo') :
           /\ Good(todo'[i])
           /\ todo'[i].op \in PlainOps \/ (i = 1 /\ todo'[i].op = "list snaps")
  <2>1. CASE todo' = Flush
    BY <2>1, PlainFlush DEF Plain
  <2>2. CASE todo' = <<Do("list snaps"), Do("list tabs")>> \o Flush
    <3> DEFINE a == Do("list snaps")
               b == Do("list tabs")
    <3>1. /\ a \in Item /\ Good(a) /\ a.op = "list snaps"
          /\ b \in Item /\ Good(b) /\ b.op \in PlainOps
      BY PlainItems DEF PlainOps
    <3>2. todo' = <<a, b>> \o Flush
      BY <2>2
    <3> HIDE DEF a, b
    <3>3. /\ <<a, b>> \in Seq(Item) /\ Len(<<a, b>>) = 2 /\ <<a, b>>[1] = a /\ <<a, b>>[2] = b
      BY <3>1, Pairs
    <3>4. \A i \in 1 .. 2 : i = 1 \/ i = 2
      BY OneOrTwo
    <3>5. \A i \in 1 .. Len(<<a, b>>) : Good(<<a, b>>[i]) /\
             (<<a, b>>[i].op \in PlainOps \/ (i = 1 /\ <<a, b>>[i].op = "list snaps"))
      BY <3>1, <3>3, <3>4
    <3> QED BY <3>2, <3>3, <3>5, PlainFlush, PlainAfter
  <2>3. CASE todo' = Flush \o <<Do("exit")>>
    <3>1. Plain(<<Do("exit")>>)
      BY PlainOne DEF PlainOps
    <3>2. Flush \in Seq(Item) /\ \A i \in 1 .. Len(Flush) : Good(Flush[i]) /\ Flush[i].op \in PlainOps
      BY PlainFlush DEF Plain
    <3> QED BY <2>3, <3>1, <3>2, PlainAfter
  <2>4. CASE todo' = <<>>
    BY <2>4
  <2> QED BY <2>1, <2>2, <2>3, <2>4
<1>2. PlainOps \cap FrontOps = {} /\ PlainOps \cap SnapOps = {}
      /\ "list snaps" \notin FrontOps \cup {"snaps"}
  BY DEF FrontOps, SnapOps, PlainOps
<1>3. Shape'
  BY <1>1, <1>2 DEF Shape
<1>4. Kept
  BY <1>1, <1>2 DEF Kept, SnapOps
<1>5. Quiet
  <2> SUFFICES ASSUME NEW op \in FrontOps, At(op)' PROVE FALSE
    BY DEF Quiet
  <2>1. todo' # <<>> /\ Head(todo').op = op /\ todo' \in Seq(Item)
    BY <1>1 DEF At
  <2>2. Head(todo') = todo'[1] /\ 1 \in 1 .. Len(todo')
    BY <2>1, SeqFacts
  <2> QED BY <1>1, <1>2, <2>1, <2>2
<1> QED BY <1>1, <1>3, <1>4, <1>5

\* Steps that have done with the item in front.
LEMMA DoneSteps ==
  ASSUME TypeOK, Shape, NEW op, At(op), Done
  PROVE  todo' \in Seq(Item) /\ Shape' /\ Quiet /\ Kept
<1>1. todo \in Seq(Item) /\ todo # <<>>
  BY Front
<1>2. Fits(<<>>)
  BY <1>1, FitsNone DEF Done
<1>3. \A k \in 1 .. Len(<<>>) : FALSE
  OBVIOUS
<1> QED BY <1>1, <1>2, <1>3, Reshaped, InFront DEF Quiet, Kept

\* Steps that put one other item in its place.
LEMMA OneItemSteps ==
  ASSUME TypeOK, Shape, NEW op, At(op), NEW a \in Item, Good(a), a.op \notin FrontOps \cup SnapOps,
         todo' = <<a>> \o Tail(todo)
  PROVE  todo' \in Seq(Item) /\ Shape' /\ Quiet /\ Kept
<1>1. todo \in Seq(Item) /\ todo # <<>>
  BY Front
<1>2. Fits(<<a>>)
  BY <1>1, FitsOne
<1>3. <<a>> # <<>> /\ <<a>>[1] = a /\ \A k \in 1 .. Len(<<a>>) : <<a>>[k] = a
  OBVIOUS
<1>4. Quiet
  BY <1>1, <1>2, <1>3, InFront DEF Quiet
<1>5. todo' \in Seq(Item) /\ Shape' /\ Kept
  <2>1. CASE Head(todo).op \notin SnapOps
    BY <1>1, <1>2, <2>1, Reshaped DEF Kept
  <2>2. CASE Head(todo).op \in SnapOps
    <3>1. \A i \in 1 .. Len(todo') : todo'[i].op = "snaps" => todo'[i] = a
      BY <1>1, <1>2, <1>3, <2>2, Reshaped
    <3> QED BY <1>1, <1>2, <3>1, Reshaped DEF Kept, SnapOps
  <2> QED BY <2>1, <2>2
<1> QED BY <1>4, <1>5

\* What is left of a batch of snapshots after its oldest.
Rest == \A i \in 1 .. Len(todo') : todo'[i].op = "snaps" => todo'[i].batch = Batch \ {Cur}

LEMMA ClaimLists ==
  ASSUME TypeOK, Shape, NEW topic, NEW op \in {"snaps", "tabs"}, NEW effect,
         effect = IF op = "snaps" THEN "save" ELSE "store", Claim(topic, op, effect)
  PROVE  /\ todo' \in Seq(Item) /\ Shape'
         /\ \A p : At(p)' => p = effect /\ Batch' = {Cur}
         /\ op = "snaps" => Rest
         /\ op = "tabs" => Kept
<1> DEFINE x == On(effect, {Cur})
           t == <<x>> \o Unfinished(op)
<1>1. At(op) /\ todo' = t \o Tail(todo)
  BY DEF Claim, Then
<1>2. /\ todo \in Seq(Item) /\ todo # <<>> /\ Head(todo).op = op /\ Cur \in Batch
      /\ Batch \subseteq Request
      /\ op = "snaps" => Batch \subseteq Snap
      /\ op = "tabs" => Batch \subseteq Tab
  BY <1>1, Front
<1>3. effect \in {"save", "store"} /\ effect \in Ops /\ effect \in FrontOps
  BY DEF Ops, FrontOps
<1>4. x \in Item /\ x.op = effect /\ x.batch = {Cur}
  BY <1>2, <1>3, Items
<1>5. Good(x)
  BY <1>2, <1>3, <1>4 DEF Good
<1> HIDE DEF x
<1>6. Fits(t) /\ t # <<>> /\ t[1] = x
      /\ \A k \in 1 .. Len(t) : t[k].op = op => t[k].batch = Batch \ {Cur}
  <2>1. Fits(t) /\ t # <<>> /\ t[1] = x
    BY <1>1, <1>3, <1>4, <1>5, BatchSteps
  <2>2. op \in {"snaps", "tabs", "send"} /\ At(op) /\ x.op \in FrontOps
    BY <1>1, <1>3, <1>4
  <2>3. \A k \in 1 .. Len(<<x>> \o Unfinished(op)) :
          (<<x>> \o Unfinished(op))[k].op = op =>
            (<<x>> \o Unfinished(op))[k].batch = Batch \ {Cur}
    BY <1>4, <1>5, <2>2, BatchSteps, ZenonT(30)
  <2> QED BY <2>1, <2>3
<1> HIDE DEF t
<1>7. \A p : At(p)' => p = effect /\ Batch' = {Cur}
  BY <1>2, <1>4, <1>6, InFront
<1>8. op = "snaps" => Rest
  <2> SUFFICES ASSUME op = "snaps", NEW i \in 1 .. Len(todo'), todo'[i].op = "snaps"
               PROVE  todo'[i].batch = Batch \ {Cur}
    BY DEF Rest
  <2>1. PICK k \in 1 .. Len(t) : t[k] = todo'[i]
    BY <1>2, <1>6, Reshaped DEF SnapOps
  <2> QED BY <1>6, <2>1
<1>9. op = "tabs" => Kept
  BY <1>2, <1>6, Reshaped DEF Kept, SnapOps
<1> QED BY <1>2, <1>6, <1>7, <1>8, <1>9, Reshaped

LEMMA SkipLists ==
  ASSUME TypeOK, Shape, NEW op \in {"snaps", "tabs"}, At(op), Then(Unfinished(op))
  PROVE  /\ todo' \in Seq(Item) /\ Shape' /\ Quiet
         /\ op = "snaps" => Rest
         /\ op = "tabs" => Kept
<1> DEFINE x == On("save", Batch)
           t == Unfinished(op)
<1>1. todo' = t \o Tail(todo)
  BY DEF Then
<1>2. /\ todo \in Seq(Item) /\ todo # <<>> /\ Head(todo).op = op /\ Cur \in Batch
  BY Front
<1>3. PICK a \in Item : Good(a) /\ a.op \in FrontOps
  <2>1. PICK r \in Request : TRUE
    BY <1>2, Front
  <2>2. r \in Snap \/ r \in Tab
    BY Requests
  <2>3. CASE r \in Snap
    <3> DEFINE b == On("save", {r})
    <3>1. b \in Item /\ b.op = "save" /\ b.batch = {r}
      BY Items DEF FrontOps
    <3> QED BY <2>3, <3>1 DEF Good, FrontOps
  <2>4. CASE r \in Tab
    <3> DEFINE b == On("store", {r})
    <3>1. b \in Item /\ b.op = "store" /\ b.batch = {r}
      BY Items DEF FrontOps
    <3> QED BY <2>4, <3>1 DEF Good, FrontOps
  <2> QED BY <2>2, <2>3, <2>4
<1>4. Fits(t) /\ Quiet /\ \A k \in 1 .. Len(t) : t[k].op = op => t[k].batch = Batch \ {Cur}
  <2>1. Fits(t) /\ Quiet
    BY <1>1, <1>3, BatchSteps DEF Quiet
  <2>2. \A k \in 1 .. Len(t) : t[k].op = op => t[k].batch = Batch \ {Cur}
    BY <1>3, BatchSteps
  <2> QED BY <2>1, <2>2
<1> HIDE DEF t
<1>5. op = "snaps" => Rest
  <2> SUFFICES ASSUME op = "snaps", NEW i \in 1 .. Len(todo'), todo'[i].op = "snaps"
               PROVE  todo'[i].batch = Batch \ {Cur}
    BY DEF Rest
  <2>1. PICK k \in 1 .. Len(t) : t[k] = todo'[i]
    BY <1>2, <1>4, Reshaped DEF SnapOps
  <2> QED BY <1>4, <2>1
<1>6. op = "tabs" => Kept
  BY <1>2, <1>4, Reshaped DEF Kept, SnapOps
<1> QED BY <1>2, <1>4, <1>5, <1>6, Reshaped

LEMMA StoreLists ==
  ASSUME TypeOK, Shape, Store
  PROVE  /\ todo' \in Seq(Item) /\ Shape' /\ Kept
         /\ \A p \in FrontOps : At(p)' => p = "call" /\ Batch' = Batch /\ Batch \subseteq PhoneTab
<1>1. At("store") /\ "store" \in FrontOps
  BY DEF Store, FrontOps
<1>2. /\ todo \in Seq(Item) /\ todo # <<>> /\ Head(todo).op = "store" /\ Batch = {Cur}
      /\ Batch \subseteq Tab /\ Batch \subseteq Request
  BY <1>1, Front
<1> DEFINE b == Do("scan")
           a == On("call", Batch)
<1>3. b \in Item /\ Good(b) /\ b.op = "scan"
  BY PlainItems DEF PlainOps
<1>4. a \in Item /\ a.op = "call" /\ a.batch = Batch
  BY <1>2, Items DEF FrontOps
<1>5. "scan" \notin FrontOps \cup SnapOps /\ "call" \notin SnapOps /\ "store" \notin SnapOps
  BY DEF FrontOps, SnapOps
<1>6. CASE Cur \in PhoneTab
  <2>1. todo' = (<<a>> \o <<b>>) \o Tail(todo)
    BY <1>6 DEF Store, Then
  <2>2. Good(a)
    BY <1>2, <1>4, <1>6 DEF Good, FrontOps
  <2> HIDE DEF a, b
  <2>3. /\ <<a>> \o <<b>> \in Seq(Item) /\ Len(<<a>> \o <<b>>) = 2
        /\ (<<a>> \o <<b>>)[1] = a /\ (<<a>> \o <<b>>)[2] = b
    BY <1>3, <1>4, Pairs
  <2> DEFINE t == <<a>> \o <<b>>
  <2> HIDE DEF t
  <2>4. t \in Seq(Item) /\ Len(t) = 2 /\ t[1] = a /\ t[2] = b /\ todo' = t \o Tail(todo)
    BY <2>1, <2>3 DEF t
  <2>5. Fits(t)
    BY <1>3, <1>4, <1>5, <2>2, <2>4, FitsTwo
  <2>6. t # <<>>
    BY <2>4
  <2>7. \A p : At(p)' => p = "call" /\ Batch' = Batch
    BY <1>2, <1>4, <2>4, <2>5, <2>6, InFront
  <2> QED BY <1>2, <1>5, <1>6, <2>5, <2>7, Reshaped DEF Kept
<1>7. CASE Cur \notin PhoneTab
  <2>1. todo' = (<<>> \o <<b>>) \o Tail(todo)
    BY <1>7 DEF Store, Then
  <2> HIDE DEF b
  <2>2. todo' = <<b>> \o Tail(todo)
    BY <1>3, <2>1, Pairs
  <2>3. todo' \in Seq(Item) /\ Shape' /\ Quiet /\ Kept
    BY <1>1, <1>3, <1>5, <2>2, OneItemSteps
  <2> QED BY <2>3 DEF Quiet
<1> QED BY <1>6, <1>7

LEMMA SendLists ==
  ASSUME TypeOK, Shape, Send
  PROVE  /\ todo' \in Seq(Item) /\ Shape' /\ Kept
         /\ \A p \in FrontOps : At(p)' => p = "unlink" /\ Batch' = {Cur} /\ shareUp
<1>1. At("send") /\ "send" \notin SnapOps
  BY DEF Send, SnapOps
<1>2. /\ todo \in Seq(Item) /\ todo # <<>> /\ Head(todo).op = "send" /\ Cur \in Batch
      /\ Batch \subseteq Tab /\ Batch \subseteq Request
  BY <1>1, Front
<1> DEFINE x == On("unlink", {Cur})
<1>3. x \in Item /\ x.op = "unlink" /\ x.batch = {Cur} /\ x.op \in FrontOps
  BY <1>2, Items DEF FrontOps
<1>4. Good(x)
  BY <1>2, <1>3 DEF Good, FrontOps
<1> HIDE DEF x
<1>5. CASE shareUp
  <2> DEFINE t == <<x>> \o Unfinished("send")
  <2>1. todo' = t \o Tail(todo)
    BY <1>5 DEF Send, Then, x
  <2>2. Fits(t) /\ t # <<>> /\ t[1] = x
    BY <1>1, <1>3, <1>4, <2>1, BatchSteps
  <2> HIDE DEF t
  <2>3. \A p : At(p)' => p = "unlink" /\ Batch' = {Cur}
    BY <1>2, <1>3, <2>2, InFront
  <2> QED BY <1>1, <1>2, <1>5, <2>2, <2>3, Reshaped DEF Kept
<1>6. CASE ~shareUp
  <2>1. todo' = Unfinished("send") \o Tail(todo)
    BY <1>6 DEF Send, Then
  <2>2. Fits(Unfinished("send")) /\ \A p \in FrontOps : ~At(p)'
    BY <1>1, <1>3, <1>4, <2>1, BatchSteps
  <2> QED BY <1>1, <1>2, <2>2, Reshaped DEF Kept
<1> QED BY <1>5, <1>6

\* Steps that leave no request in front and add no snapshots to be read.
Calm ==
  \/ Start \/ Tick \/ Shutdown \/ Exit \/ Crash \/ ListTabs \/ Save \/ WriteFails
  \/ Call \/ Mirror \/ Scan \/ Unlink \/ Tell
  \/ Refuse("tab", "tabs") \/ ClaimFails("tab", "tabs")

LEMMA CalmLists ==
  ASSUME TypeOK, Shape, Calm
  PROVE  todo' \in Seq(Item) /\ Shape' /\ Quiet /\ Kept
<1>1. CASE Start \/ Tick \/ Shutdown \/ Exit \/ Crash
  BY <1>1, NewLists DEF Start, Tick, Shutdown, Exit, Crash, Forget
<1>2. CASE WriteFails
  BY <1>2, DoneSteps DEF WriteFails
<1>3. CASE Call \/ Mirror \/ Unlink \/ Tell
  BY <1>3, DoneSteps DEF Call, Mirror, Unlink, Tell
<1>4. CASE ListTabs
  <2> DEFINE new == Unread(Tab, seen["tab"])
  <2>1. At("list tabs") /\ (new = {} => Done) /\ (new # {} => todo' = <<On("tabs", new)>> \o Tail(todo))
    BY <1>4 DEF ListTabs, List, Then
  <2>2. new \subseteq Tab /\ new \subseteq Request
    BY Requests DEF Unread
  <2> HIDE DEF new
  <2>3. CASE new = {}
    BY <2>1, <2>3, DoneSteps
  <2>4. CASE new # {}
    <3> DEFINE a == On("tabs", new)
    <3>1. a \in Item /\ a.op = "tabs" /\ a.batch = new
      BY <2>2, Items
    <3>2. Good(a) /\ a.op \notin FrontOps \cup SnapOps
      BY <2>2, <2>4, <3>1 DEF Good, FrontOps, SnapOps
    <3> HIDE DEF a
    <3> QED BY <2>1, <2>4, <3>1, <3>2, OneItemSteps DEF a
  <2> QED BY <2>3, <2>4
<1>5. CASE Scan
  <2>1. /\ At("scan") /\ (outbox = {} => Done)
        /\ Done \/ (outbox # {} /\ todo' = <<On("send", outbox)>> \o Tail(todo))
    BY <1>5 DEF Scan, Then
  <2>2. outbox \subseteq Tab /\ outbox \subseteq Request
    BY Requests DEF TypeOK
  <2>3. CASE Done
    BY <2>1, <2>3, DoneSteps
  <2>4. CASE outbox # {} /\ todo' = <<On("send", outbox)>> \o Tail(todo)
    <3> DEFINE a == On("send", outbox)
    <3>1. a \in Item /\ a.op = "send" /\ a.batch = outbox
      BY <2>2, Items
    <3>2. Good(a) /\ a.op \notin FrontOps \cup SnapOps
      BY <2>2, <2>4, <3>1 DEF Good, FrontOps, SnapOps
    <3>3. todo' = <<a>> \o Tail(todo)
      BY <2>4
    <3> HIDE DEF a
    <3> QED BY <2>1, <3>1, <3>2, <3>3, OneItemSteps
  <2> QED BY <2>1, <2>3, <2>4
<1>6. CASE Save
  <2> DEFINE a == Do("mirror")
             b == Do("tell")
             t == <<a, b>>
  <2>1. At("save") /\ todo' = t \o Tail(todo)
    BY <1>6 DEF Save, Then
  <2>2. todo \in Seq(Item) /\ todo # <<>> /\ Head(todo).op = "save"
    BY <2>1, Front
  <2>3. /\ a \in Item /\ Good(a) /\ a.op = "mirror"
        /\ b \in Item /\ Good(b) /\ b.op = "tell"
    BY PlainItems DEF PlainOps
  <2> HIDE DEF a, b
  <2>4. t \in Seq(Item) /\ Len(t) = 2 /\ t[1] = a /\ t[2] = b
    BY <2>3, Pairs
  <2> HIDE DEF t
  <2>5. {"mirror", "tell"} \cap (FrontOps \cup SnapOps) = {} /\ "save" \notin SnapOps
    BY DEF FrontOps, SnapOps
  <2>6. Fits(t)
    BY <2>1, <2>2, <2>3, <2>4, <2>5, FitsTwo
  <2>7. t # <<>>
    BY DEF t
  <2>8. Quiet
    BY <2>2, <2>3, <2>4, <2>5, <2>6, <2>7, InFront DEF Quiet
  <2> QED BY <2>2, <2>5, <2>6, <2>8, Reshaped DEF Kept
<1>7. CASE Refuse("tab", "tabs") \/ ClaimFails("tab", "tabs")
  <2>1. At("tabs") /\ Then(Unfinished("tabs"))
    BY <1>7 DEF Refuse, ClaimFails
  <2> QED BY <2>1, SkipLists
<1> QED BY <1>1, <1>2, <1>3, <1>4, <1>5, <1>6, <1>7 DEF Calm

LEMMA ListSnapsLists ==
  ASSUME TypeOK, Shape, ListSnaps
  PROVE  /\ todo' \in Seq(Item) /\ Shape' /\ Quiet
         /\ \A i \in 1 .. Len(todo') :
              todo'[i].op = "snaps" => todo'[i].batch = Unread(Snap, seen["snap"])
<1> DEFINE new == Unread(Snap, seen["snap"])
<1>1. At("list snaps") /\ (new = {} => Done)
      /\ (new # {} => todo' = <<On("snaps", new)>> \o Tail(todo))
  BY DEF ListSnaps, List, Then
<1>2. new \subseteq Snap /\ new \subseteq Request
  BY Requests DEF Unread
<1>3. todo \in Seq(Item) /\ todo # <<>> /\ Head(todo).op = "list snaps"
  BY <1>1, Front
<1>4. "list snaps" \in SnapOps /\ "snaps" \in SnapOps \ FrontOps
  BY DEF SnapOps, FrontOps
<1>5. CASE new = {}
  <2>1. Fits(<<>>) /\ Done
    BY <1>1, <1>3, <1>5, FitsNone DEF Done
  <2>2. \A k \in 1 .. Len(<<>>) : FALSE
    OBVIOUS
  <2>3. todo' \in Seq(Item) /\ Shape' /\ Quiet
    BY <1>1, <2>1, DoneSteps
  <2>4. \A i \in 1 .. Len(todo') : todo'[i].op # "snaps"
    BY <1>3, <1>4, <2>1, <2>2, Reshaped
  <2> QED BY <2>3, <2>4
<1>6. CASE new # {}
  <2> HIDE DEF new
  <2> DEFINE a == On("snaps", new)
  <2>1. a \in Item /\ a.op = "snaps" /\ a.batch = new
    BY <1>2, <1>4, Items
  <2>2. Good(a)
    BY <1>2, <1>6, <2>1, <1>4 DEF Good
  <2>3. todo' = <<a>> \o Tail(todo)
    BY <1>1, <1>6
  <2> HIDE DEF a
  <2>4. Fits(<<a>>)
    BY <1>3, <1>4, <2>1, <2>2, <2>3, FitsOne
  <2>5. <<a>> # <<>> /\ <<a>>[1] = a /\ \A k \in 1 .. Len(<<a>>) : <<a>>[k] = a
    OBVIOUS
  <2>6. Quiet
    BY <1>3, <1>4, <2>1, <2>4, <2>5, InFront DEF Quiet
  <2>7. \A i \in 1 .. Len(todo') : todo'[i].op = "snaps" => todo'[i] = a
    <3>1. \A i \in 1 .. Len(todo') : todo'[i].op = "snaps" =>
            \E k \in 1 .. Len(<<a>>) : <<a>>[k] = todo'[i]
      BY <1>3, <1>4, <2>4, Reshaped
    <3> QED BY <2>5, <3>1
  <2>8. todo' \in Seq(Item) /\ Shape'
    BY <1>3, <2>4, Reshaped
  <2>9. \A i \in 1 .. Len(todo') : todo'[i].op = "snaps" => todo'[i].batch = new
    BY <2>1, <2>7
  <2> QED BY <2>6, <2>8, <2>9 DEF new
<1> QED BY <1>5, <1>6

\* Steps of the rest of the world.
Outside ==
  \/ \E r \in Request : Publish(r) \/ Grow(r)
  \/ MountOrUnmount
  \/ \E t \in NodeTab : SyncCopy(t) \/ SyncDelete(t) \/ Take(t) \/ Open(t)
  \/ Mark \/ Drop \/ ShellRestart

Untouched == UNCHANGED <<up, memory, local, outbox, ledger, applied, dropped, calls, share>>

LEMMA OutsideLists == ASSUME Outside PROVE Untouched /\ UNCHANGED status
BY DEF Outside, Untouched, Publish, Grow, MountOrUnmount, SyncCopy, SyncDelete, Take, Open,
       Mark, Drop, ShellRestart, memory, files, bus, other

\* Every step, sorted by what it does to the list.
Special ==
  \/ ListSnaps \/ Claim("snap", "snaps", "save") \/ Refuse("snap", "snaps")
  \/ ClaimFails("snap", "snaps") \/ Claim("tab", "tabs", "store") \/ Store \/ Send

LEMMA Steps == Next => Calm \/ Special \/ Outside
BY DEF Next, Work, Receive, Environment, ReadSnap, ReadTab, Calm, Special, Outside

LEMMA ShapeStep == TypeOK /\ Shape /\ [Next]_vars => Shape' /\ todo' \in Seq(Item)
<1> SUFFICES ASSUME TypeOK, Shape, [Next]_vars PROVE Shape' /\ todo' \in Seq(Item)
  OBVIOUS
<1>1. CASE UNCHANGED todo
  BY <1>1 DEF Shape, TypeOK
<1>2. CASE Calm
  BY <1>2, CalmLists
<1>3. CASE ListSnaps \/ Store \/ Send
  BY <1>3, ListSnapsLists, StoreLists, SendLists
<1>4. CASE Claim("snap", "snaps", "save") \/ Claim("tab", "tabs", "store")
  BY <1>4, ClaimLists
<1>5. CASE Refuse("snap", "snaps") \/ ClaimFails("snap", "snaps")
  <2>1. At("snaps") /\ Then(Unfinished("snaps"))
    BY <1>5 DEF Refuse, ClaimFails
  <2> QED BY <2>1, SkipLists
<1>6. CASE UNCHANGED vars
  BY <1>1, <1>6 DEF vars, memory
<1>7. CASE Outside
  BY <1>1, <1>7, OutsideLists DEF Untouched, memory
<1> QED BY <1>2, <1>3, <1>4, <1>5, <1>6, <1>7, Steps DEF Special

\* The bound on the ends, and the receiving shell.
LEMMA EndsType ==
  ASSUME ends \in [{"worker", "shell"} -> 0 .. MaxEnds], NEW p \in {"worker", "shell"}, Ends(p)
  PROVE  ends' \in [{"worker", "shell"} -> 0 .. MaxEnds]
<1>1. ends[p] \in Nat /\ ends[p] + 1 \in 0 .. MaxEnds
  BY BoundAssumption DEF Ends
<1>2. ends' = [ends EXCEPT ![p] = ends[p] + 1]
  BY DEF Ends
<1> QED BY <1>1, <1>2

LEMMA CallType ==
  ASSUME NEW S, NEW f \in [S -> Nat], NEW s \in S, NEW n \in {0, 1}
  PROVE  /\ [f EXCEPT ![s] = @ + n] \in [S -> Nat] /\ f[s] \in Nat
         /\ [f EXCEPT ![s] = @ + n][s] = f[s] + n
         /\ \A q \in S \ {s} : [f EXCEPT ![s] = @ + n][q] = f[q]
OBVIOUS

ShellType == [taking : NodeTab \cup {None}, step : {"idle", "mark", "unlink"},
              knows : SUBSET NodeTab, queue : SUBSET NodeTab]

\* The fields of the receiving shell after a step of it.
LEMMA ShellSteps ==
  ASSUME TypeOK
  PROVE  /\ \A t : Take(t) =>
              /\ shell'.taking = t /\ shell'.step = "mark" /\ shell'.knows = shell.knows
              /\ shell'.queue = IF t \in shell.knows \cup marks THEN shell.queue
                                ELSE shell.queue \cup {t}
         /\ Mark => /\ shell'.taking = shell.taking /\ shell'.step = "unlink"
                    /\ shell'.knows = shell.knows \cup {shell.taking}
                    /\ shell'.queue = shell.queue
         /\ Drop => /\ shell'.taking = None /\ shell'.step = "idle"
                    /\ shell'.knows = shell.knows /\ shell'.queue = shell.queue
         /\ \A t : Open(t) =>
              /\ shell'.taking = shell.taking /\ shell'.step = "idle"
              /\ shell'.knows = shell.knows /\ shell'.queue = shell.queue \ {t}
         /\ ShellRestart => shell'.taking = None /\ shell'.step = "idle"
                            /\ shell'.knows = {} /\ shell'.queue = {}
<1> shell \in ShellType
  BY DEF TypeOK, ShellType
<1>1. \A t : Take(t) =>
              /\ shell'.taking = t /\ shell'.step = "mark" /\ shell'.knows = shell.knows
              /\ shell'.queue = IF t \in shell.knows \cup marks THEN shell.queue
                                ELSE shell.queue \cup {t}
  BY DEF Take, ShellType
<1>2. Mark => /\ shell'.taking = shell.taking /\ shell'.step = "unlink"
              /\ shell'.knows = shell.knows \cup {shell.taking}
              /\ shell'.queue = shell.queue
  BY DEF Mark, ShellType
<1>3. Drop => /\ shell'.taking = None /\ shell'.step = "idle"
              /\ shell'.knows = shell.knows /\ shell'.queue = shell.queue
  BY DEF Drop, ShellType
<1>4. \A t : Open(t) =>
         /\ shell'.taking = shell.taking /\ shell'.step = "idle"
         /\ shell'.knows = shell.knows /\ shell'.queue = shell.queue \ {t}
  BY DEF Open, ShellType
<1>5. ShellRestart => shell'.taking = None /\ shell'.step = "idle"
                      /\ shell'.knows = {} /\ shell'.queue = {}
  BY DEF ShellRestart, IdleShell
<1> QED BY <1>1, <1>2, <1>3, <1>4, <1>5

LEMMA ShellTypeStep ==
  ASSUME TypeOK, Mark \/ Drop \/ ShellRestart \/ \E t \in NodeTab : Take(t) \/ Open(t),
         shell.step = "mark" => shell.taking \in NodeTab
  PROVE  shell' \in ShellType
<1> shell \in ShellType
  BY DEF TypeOK, ShellType
<1>1. ASSUME NEW t \in NodeTab, Take(t) PROVE shell' \in ShellType
  BY <1>1 DEF Take, ShellType
<1>2. CASE Mark
  BY <1>2 DEF Mark, ShellType
<1>3. CASE Drop
  BY <1>3 DEF Drop, ShellType
<1>4. ASSUME NEW t \in NodeTab, Open(t) PROVE shell' \in ShellType
  BY <1>4 DEF Open, ShellType
<1>5. CASE ShellRestart
  BY <1>5 DEF ShellRestart, IdleShell, ShellType
<1> QED BY <1>1, <1>2, <1>3, <1>4, <1>5

\* What each step does to the other variables.
LEMMA TypeStep == TypeOK /\ Shape /\ Shells /\ [Next]_vars => TypeOK'
<1> SUFFICES ASSUME TypeOK, Shape, Shells, [Next]_vars PROVE TypeOK'
  OBVIOUS
<1> todo' \in Seq(Item)
  BY ShapeStep
<1> USE DEF TypeOK
<1>1. ASSUME NEW r \in Request, Publish(r) \/ Grow(r) PROVE TypeOK'
  BY <1>1 DEF Publish, Grow, Age, memory, files, other
<1>2. CASE MountOrUnmount \/ \E t \in NodeTab : SyncCopy(t) \/ SyncDelete(t)
  BY <1>2, Requests DEF MountOrUnmount, SyncCopy, SyncDelete, memory, files, other, bus
<1>3. CASE Start \/ Tick \/ Shutdown
  BY <1>3, EndsType DEF Start, Tick, Shutdown, files, other, bus
<1>4. CASE Exit \/ Crash
  <2>1. At("save") \/ At("store") => Batch \subseteq Request
    BY Front
  <2>2. Silent \in Statuses /\ [k \in {"snap", "tab"} |-> None] \in [{"snap", "tab"} -> Request \cup {None}]
    BY DEF Silent, Statuses
  <2>3. up' \in BOOLEAN /\ seen' = [k \in {"snap", "tab"} |-> None] /\ last' \in BOOLEAN
        /\ pending' \in BOOLEAN /\ told' = Silent
    BY <1>4 DEF Exit, Crash, Forget
  <2>4. ends' \in [{"worker", "shell"} -> 0 .. MaxEnds] /\ dropped' \subseteq Request
    BY <1>4, <2>1, EndsType DEF Exit, Crash
  <2>5. UNCHANGED <<published, age, ledger, local, outbox, share, shareOut, shareUp, inbox,
                    unlinked, shell, marks, unmarked, opened, status, calls, applied>>
    BY <1>4 DEF Exit, Crash, files, other, bus
  <2> QED BY <2>2, <2>3, <2>4, <2>5
<1>5. CASE ListSnaps \/ ListTabs
  BY <1>5 DEF ListSnaps, ListTabs, List, files, other, bus
<1>6. ASSUME NEW topic \in {"snap", "tab"}, NEW op \in {"snaps", "tabs"}, NEW effect,
             Claim(topic, op, effect) \/ Refuse(topic, op) \/ ClaimFails(topic, op)
      PROVE  TypeOK'
  <2>1. Cur \in Request
    BY <1>6, Front DEF Claim, Refuse, ClaimFails
  <2> QED BY <1>6, <2>1 DEF Claim, Refuse, ClaimFails, Swept, files, other, bus
<1>7. CASE Save
  <2>1. Cur \in Snap /\ Cur \in Request
    BY <1>7, Front DEF Save, FrontOps
  <2> QED BY <1>7, <2>1 DEF Save, files, other, bus
<1>8. CASE Store
  <2>1. Batch \subseteq Tab /\ Cur \in Request
    BY <1>8, Front DEF Store, FrontOps
  <2> QED BY <1>8, <2>1 DEF Store, files, other, bus
<1>9. CASE WriteFails
  <2>1. Batch \subseteq Request
    BY <1>9, Front DEF WriteFails
  <2> QED BY <1>9, <2>1 DEF WriteFails, files, other, bus
<1>10. CASE Call
  <2>1. Cur \in PhoneTab
    BY <1>10, Front DEF Call, FrontOps
  <2>2. calls' \in [PhoneTab -> Nat]
    BY <1>10, <2>1, CallType DEF Call
  <2> QED BY <1>10, <2>2 DEF Call, files, other, bus
<1>11. CASE Mirror \/ Scan
  BY <1>11 DEF Mirror, Scan, files, other, bus
<1>12. CASE Send
  <2>1. Cur \in Tab
    BY <1>12, Front DEF Send, FrontOps
  <2> QED BY <1>12, <2>1 DEF Send, other, bus
<1>13. CASE Unlink
  BY <1>13 DEF Unlink, files, other, bus
<1>14. CASE Tell
  <2>1. Status \in Statuses
    BY DEF Status, Statuses
  <2> QED BY <1>14, <2>1 DEF Tell, files, other, bus
<1>15. ASSUME NEW t \in NodeTab, Take(t) \/ Open(t) PROVE TypeOK'
  <2>1. shell' \in ShellType
    BY <1>15, ShellTypeStep DEF Shells
  <2>2. opened' \in [NodeTab -> Nat]
    BY <1>15, CallType DEF Take, Open
  <2> QED BY <1>15, <2>1, <2>2 DEF Take, Open, files, bus, memory, ShellType
<1>16. CASE Mark
  <2>1. shell' \in ShellType /\ shell.taking \in NodeTab
    BY <1>16, ShellTypeStep DEF Shells, Mark
  <2> QED BY <1>16, <2>1 DEF Mark, files, bus, memory, ShellType
<1>17. CASE Drop \/ ShellRestart
  <2>1. shell' \in ShellType
    BY <1>17, ShellTypeStep DEF Shells
  <2> QED BY <1>17, <2>1, EndsType DEF Drop, ShellRestart, files, bus, memory, ShellType
<1>18. CASE UNCHANGED vars
  BY <1>18 DEF vars, bus, memory, files, other
<1> QED BY <1>1, <1>2, <1>3, <1>4, <1>5, <1>6, <1>7, <1>8, <1>9, <1>10, <1>11, <1>12,
           <1>13, <1>14, <1>15, <1>16, <1>17, <1>18
        DEF Next, Work, Receive, Environment, ReadSnap, ReadTab

-----------------------------------------------------------------------------
(* A request in front, and requests that are spent. *)

LEMMA Stutters == UNCHANGED vars => Untouched /\ UNCHANGED status
BY DEF vars, Untouched, bus, memory, files, other

\* How a request comes to be in front.
LEMMA FrontAfter ==
  ASSUME TypeOK, Shape, [Next]_vars, NEW op \in FrontOps, At(op)'
  PROVE  \/ Untouched /\ At(op) /\ Batch' = Batch
         \/ op = "save" /\ Claim("snap", "snaps", "save") /\ Batch' = {Cur}
         \/ op = "store" /\ Claim("tab", "tabs", "store") /\ Batch' = {Cur}
         \/ op = "call" /\ Store /\ Batch' = Batch /\ Batch \subseteq PhoneTab
         \/ op = "unlink" /\ Send /\ Batch' = {Cur} /\ shareUp
<1>1. CASE Untouched
  BY <1>1 DEF Untouched, At, Batch, memory
<1>2. CASE Calm
  BY <1>2, CalmLists DEF Quiet
<1>3. CASE ListSnaps
  BY <1>3, ListSnapsLists DEF Quiet
<1>4. CASE Claim("snap", "snaps", "save")
  BY <1>4, ClaimLists
<1>5. CASE Claim("tab", "tabs", "store")
  BY <1>5, ClaimLists
<1>6. CASE Refuse("snap", "snaps") \/ ClaimFails("snap", "snaps")
  <2>1. At("snaps") /\ Then(Unfinished("snaps"))
    BY <1>6 DEF Refuse, ClaimFails
  <2> QED BY <2>1, SkipLists DEF Quiet
<1>7. CASE Store
  BY <1>7, StoreLists
<1>8. CASE Send
  BY <1>8, SendLists
<1> QED BY <1>1, <1>2, <1>3, <1>4, <1>5, <1>6, <1>7, <1>8, Steps, Stutters, OutsideLists
        DEF Special

LEMMA SpentStays ==
  ASSUME TypeOK, [Next]_vars
  PROVE  \A r \in Request : Spent(r) => Spent(r)'
<1> SUFFICES ASSUME NEW r \in Request, Spent(r) PROVE Spent(r)'
  OBVIOUS
<1>1. age' = age \/ \E q \in Request : Grow(q)
  BY DEF Next, Work, Receive, Environment, ReadSnap, ReadTab, Claim, Refuse, ClaimFails,
         Publish, MountOrUnmount, SyncCopy, SyncDelete, Start, Tick, Shutdown, Exit, Crash,
         ListSnaps, ListTabs, List, Save, Store, WriteFails, Call, Mirror, Scan, Send, Unlink,
         Tell, Take, Mark, Drop, Open, ShellRestart, vars, bus
<1>2. ledger' = ledger \/ (age' = age /\ Swept \subseteq ledger')
  BY DEF Next, Work, Receive, Environment, ReadSnap, ReadTab, Claim, Refuse, ClaimFails,
         Publish, Grow, MountOrUnmount, SyncCopy, SyncDelete, Start, Tick, Shutdown, Exit, Crash,
         ListSnaps, ListTabs, List, Save, Store, WriteFails, Call, Mirror, Scan, Send, Unlink,
         Tell, Take, Mark, Drop, Open, ShellRestart, vars, bus
<1>3. age[r] = "over" => age'[r] = "over"
  <2>1. ASSUME NEW q \in Request, Grow(q), age[r] = "over" PROVE age'[r] = "over"
    <3>1. q # r /\ age' = [age EXCEPT ![q] = IF age[q] = "early" THEN "edge" ELSE "over"]
      BY <2>1 DEF Grow
    <3> QED BY <2>1, <3>1 DEF TypeOK
  <2> QED BY <1>1, <2>1
<1>4. r \in ledger => r \in ledger' \/ age[r] = "over"
  BY <1>2 DEF Swept
<1> QED BY <1>3, <1>4 DEF Spent

\* What was valid was not spent; a claim spends it.
LEMMA ClaimSpends ==
  ASSUME TypeOK, Shape, NEW topic, NEW op \in {"snaps", "tabs"}, NEW effect,
         Claim(topic, op, effect)
  PROVE  Cur \in Request /\ ~Spent(Cur) /\ (\A r : r = Cur => Spent(r)')
<1>1. Cur \in Request
  BY Front DEF Claim
<1>2. ~Spent(Cur)
  BY DEF Claim, Valid, Swept, Spent
<1>3. \A r : r = Cur => r \in ledger'
  BY DEF Claim
<1> QED BY <1>1, <1>2, <1>3 DEF Spent

\* Only Save and Store apply a request, the one in front; only Call sends on.
LEMMA AppliedSteps ==
  ASSUME TypeOK, Shape, [Next]_vars
  PROVE  /\ \/ applied' = applied
            \/ /\ At("save") \/ At("store")
               /\ Batch = {Cur} /\ Cur \in Request
               /\ applied'[Cur] = applied[Cur] + 1
               /\ \A q \in Request \ {Cur} : applied'[q] = applied[q]
               /\ calls' = calls
         /\ \/ calls' = calls
            \/ /\ At("call") /\ applied' = applied
               /\ Batch = {Cur} /\ Cur \in PhoneTab
               /\ calls'[Cur] \in {calls[Cur], calls[Cur] + 1}
               /\ \A q \in PhoneTab \ {Cur} : calls'[q] = calls[q]
<1>1. CASE Save \/ Store
  <2>1. /\ At("save") \/ At("store")
        /\ applied' = [applied EXCEPT ![Cur] = applied[Cur] + 1] /\ calls' = calls
    BY <1>1 DEF Save, Store
  <2>2. Batch = {Cur} /\ Cur \in Request
    BY <2>1, Front DEF FrontOps
  <2> QED BY <2>1, <2>2 DEF TypeOK
<1>2. CASE Call
  <2>1. Batch = {Cur} /\ Cur \in PhoneTab /\ At("call") /\ applied' = applied
    BY <1>2, Front DEF Call, FrontOps
  <2>2. PICK n \in {0, 1} : calls' = [calls EXCEPT ![Cur] = @ + n]
    BY <1>2 DEF Call
  <2>3. calls \in [PhoneTab -> Nat]
    BY DEF TypeOK
  <2>4. /\ calls'[Cur] = calls[Cur] + n /\ calls[Cur] \in Nat
        /\ \A q \in PhoneTab \ {Cur} : calls'[q] = calls[q]
    BY <2>1, <2>2, <2>3, CallType
  <2>5. n = 0 \/ n = 1
    OBVIOUS
  <2>6. calls'[Cur] \in {calls[Cur], calls[Cur] + 1}
    BY <2>4, <2>5
  <2> QED BY <2>1, <2>4, <2>6
<1>3. CASE ~(Save \/ Store \/ Call)
  <2>1. UNCHANGED <<applied, calls>>
    BY <1>3 DEF Next, Work, Receive, Environment, ReadSnap, ReadTab, Claim, Refuse, ClaimFails,
         Publish, Grow, MountOrUnmount, SyncCopy, SyncDelete, Start, Tick, Shutdown, Exit, Crash,
         ListSnaps, ListTabs, List, WriteFails, Mirror, Scan, Send, Unlink,
         Tell, Take, Mark, Drop, Open, ShellRestart, vars
  <2> QED BY <2>1
<1> QED BY <1>1, <1>2, <1>3

LEMMA OnceStep == TypeOK /\ Shape /\ Once /\ [Next]_vars => Once'
<1> SUFFICES ASSUME TypeOK, Shape, Once, [Next]_vars PROVE Once'
  OBVIOUS
<1>0. /\ applied \in [Request -> Nat] /\ calls \in [PhoneTab -> Nat]
      /\ PhoneTab \subseteq Request
  BY Requests DEF TypeOK
<1>1. \A r \in Request : applied'[r] > 0 => Spent(r)' /\ applied'[r] = 1
  <2>1. CASE applied' = applied
    BY <2>1, SpentStays DEF Once
  <2>2. CASE applied' # applied
    <3>1. /\ At("save") \/ At("store")
          /\ Batch = {Cur} /\ Cur \in Request
          /\ applied'[Cur] = applied[Cur] + 1
          /\ \A q \in Request \ {Cur} : applied'[q] = applied[q]
      BY <2>2, AppliedSteps
    <3>2. Spent(Cur) /\ applied[Cur] = 0
      BY <3>1 DEF Once
    <3>3. \A r \in Request : r = Cur => Spent(r)' /\ applied'[r] = 1
      BY <3>1, <3>2, SpentStays
    <3> QED BY <3>1, <3>3, SpentStays DEF Once
  <2> QED BY <2>1, <2>2
<1>2. ASSUME NEW op \in {"save", "store"}, At(op)'
      PROVE  \A r \in Batch' : Spent(r)' /\ applied'[r] = 0
  <2>1. op \in FrontOps
    BY DEF FrontOps
  <2>2. CASE Untouched /\ At(op) /\ Batch' = Batch
    <3>1. Batch \subseteq Request /\ applied' = applied
      BY <2>2, Front DEF Untouched
    <3> QED BY <1>2, <2>2, <3>1, SpentStays DEF Once
  <2>3. CASE (Claim("snap", "snaps", "save") \/ Claim("tab", "tabs", "store")) /\ Batch' = {Cur}
    <3>1. Cur \in Request /\ ~Spent(Cur) /\ (\A r : r = Cur => Spent(r)')
      BY <2>3, ClaimSpends
    <3>2. applied' = applied
      BY <2>3 DEF Claim
    <3>3. applied[Cur] = 0
      BY <1>0, <3>1 DEF Once
    <3> QED BY <2>3, <3>1, <3>2, <3>3
  <2> QED BY <1>2, <2>1, <2>2, <2>3, FrontAfter
<1>3. \A t \in PhoneTab : calls'[t] > 0 => calls'[t] = 1 /\ applied'[t] > 0
  <2>1. \A t \in PhoneTab : applied[t] > 0 => applied'[t] > 0
    BY <1>0, AppliedSteps
  <2>2. CASE calls' = calls
    BY <2>1, <2>2 DEF Once
  <2>3. CASE calls' # calls
    <3>1. /\ At("call") /\ applied' = applied /\ Batch = {Cur} /\ Cur \in PhoneTab
          /\ calls'[Cur] \in {calls[Cur], calls[Cur] + 1}
          /\ \A q \in PhoneTab \ {Cur} : calls'[q] = calls[q]
      BY <2>3, AppliedSteps
    <3>2. calls[Cur] = 0 /\ applied[Cur] > 0
      BY <3>1 DEF Once
    <3> QED BY <1>0, <3>1, <3>2 DEF Once
  <2> QED BY <2>2, <2>3
<1>4. ASSUME At("call")' PROVE \A t \in Batch' : calls'[t] = 0 /\ applied'[t] > 0
  <2>1. "call" \in FrontOps
    BY DEF FrontOps
  <2>2. CASE Untouched /\ At("call") /\ Batch' = Batch
    BY <2>2 DEF Once, Untouched
  <2>3. CASE Store /\ Batch' = Batch /\ Batch \subseteq PhoneTab
    <3>1. Batch = {Cur} /\ At("store")
      BY <2>3, Front DEF Store, FrontOps
    <3>2. /\ applied' = [applied EXCEPT ![Cur] = applied[Cur] + 1] /\ calls' = calls
      BY <2>3 DEF Store
    <3>3. applied[Cur] = 0 /\ Cur \in PhoneTab
      BY <2>3, <3>1 DEF Once
    <3>4. calls[Cur] = 0 /\ applied'[Cur] > 0
      BY <1>0, <3>2, <3>3 DEF Once
    <3> QED BY <2>3, <3>1, <3>2, <3>4
  <2> QED BY <1>4, <2>1, <2>2, <2>3, FrontAfter
<1> QED BY <1>1, <1>2, <1>3, <1>4 DEF Once

-----------------------------------------------------------------------------
(* Handoffs and the receiving shell. *)

\* Which steps take a handoff from where it is.
LEMMA MoveSteps ==
  ASSUME [Next]_vars
  PROVE  /\ marks \subseteq marks' /\ unmarked \subseteq unmarked'
         /\ shareOut \subseteq shareOut' \/ \E t \in NodeTab : SyncDelete(t)
         /\ inbox \subseteq inbox' \/ Drop
         /\ outbox \subseteq outbox' \/ Unlink
         /\ unlinked' \subseteq unlinked \/ Drop
         /\ \/ UNCHANGED <<shell, opened, marks, unmarked>>
            \/ Mark \/ Drop \/ ShellRestart \/ \E t \in NodeTab : Take(t) \/ Open(t)
BY DEF Next, Work, Receive, Environment, ReadSnap, ReadTab, Claim, Refuse, ClaimFails,
         Publish, Grow, MountOrUnmount, SyncCopy, SyncDelete, Start, Tick, Shutdown, Exit, Crash,
         ListSnaps, ListTabs, List, Save, Store, WriteFails, Call, Mirror, Scan, Send, Unlink,
         Tell, Take, Mark, Drop, Open, ShellRestart, vars, other, files

LEMMA GoneStays ==
  ASSUME Carried, [Next]_vars
  PROVE  \A t : (Marked(t) => Marked(t)') /\ (Gone(t) => Gone(t)')
<1> SUFFICES ASSUME NEW t PROVE (Marked(t) => Marked(t)') /\ (Gone(t) => Gone(t)')
  OBVIOUS
<1>1. Marked(t) => Marked(t)'
  BY MoveSteps DEF Marked
<1>2. ASSUME t \in shareOut PROVE t \in shareOut' \/ Marked(t)
  <2>1. CASE shareOut \subseteq shareOut'
    BY <1>2, <2>1
  <2>2. CASE \E q \in NodeTab : SyncDelete(q)
    BY <1>2, <2>2 DEF SyncDelete, Carried
  <2> QED BY <2>1, <2>2, MoveSteps
<1>3. ASSUME t \in inbox PROVE t \in inbox' \/ Marked(t)
  <2>1. CASE inbox \subseteq inbox'
    BY <1>3, <2>1
  <2>2. CASE Drop
    BY <1>3, <2>2 DEF Drop, Carried
  <2> QED BY <2>1, <2>2, MoveSteps
<1> QED BY <1>1, <1>2, <1>3 DEF Gone, Marked

LEMMA CarriedStep == TypeOK /\ Shape /\ Carried /\ Shells /\ [Next]_vars => Carried'
<1> SUFFICES ASSUME TypeOK, Shape, Carried, Shells, [Next]_vars PROVE Carried'
  OBVIOUS
<1>1. ASSUME NEW t \in Tab, applied'[t] > 0 PROVE t \in outbox' \/ Gone(t)'
  <2>1. t \in Request /\ t \notin Snap
    BY Requests
  <2>2. CASE applied'[t] = applied[t]
    <3>1. t \in outbox \/ Gone(t)
      BY <1>1, <2>2 DEF Carried, HandoffKept, Gone, Marked
    <3>2. t \in outbox => t \in outbox' \/ Gone(t)
      <4>1. CASE Unlink
        BY <4>1 DEF Unlink, Carried
      <4> QED BY <4>1, MoveSteps
    <3> QED BY <3>1, <3>2, GoneStays
  <2>3. CASE applied'[t] # applied[t]
    <3>1. /\ At("save") \/ At("store")
          /\ Batch = {Cur} /\ t = Cur
      BY <2>1, <2>3, AppliedSteps
    <3>2. ~At("save")
      BY <2>1, <3>1, Front
    <3>3. At("store") /\ ~(Save \/ Call)
      BY <3>1, <3>2 DEF At, Save, Call
    <3>4. CASE Store
      BY <3>1, <3>4 DEF Store
    <3>5. CASE ~Store
      <4>1. UNCHANGED applied
        BY <3>3, <3>5 DEF Next, Work, Receive, Environment, ReadSnap, ReadTab, Claim, Refuse,
          ClaimFails, Publish, Grow, MountOrUnmount, SyncCopy, SyncDelete, Start, Tick, Shutdown,
          Exit, Crash, ListSnaps, ListTabs, List, WriteFails, Mirror, Scan, Send, Unlink,
          Tell, Take, Mark, Drop, Open, ShellRestart, vars
      <4> QED BY <2>3, <4>1
    <3> QED BY <3>4, <3>5
  <2> QED BY <2>2, <2>3
<1>2. HandoffKept'
  BY <1>1 DEF HandoffKept, Gone, Marked
<1>3. ASSUME At("unlink")' PROVE \A t \in Batch' : Gone(t)'
  <2>1. "unlink" \in FrontOps
    BY DEF FrontOps
  <2>2. CASE Untouched /\ At("unlink") /\ Batch' = Batch
    BY <2>2, GoneStays DEF Carried
  <2>3. CASE Send /\ Batch' = {Cur} /\ shareUp
    <3>1. Cur \in shareOut'
      BY <2>3 DEF Send
    <3> QED BY <2>3, <3>1 DEF Gone
  <2> QED BY <1>3, <2>1, <2>2, <2>3, FrontAfter
<1>4. \A t \in unlinked' : Marked(t)'
  <2>1. CASE unlinked' \subseteq unlinked
    BY <2>1, GoneStays DEF Carried
  <2>2. CASE Drop
    <3>1. unlinked' \subseteq unlinked \cup {shell.taking} /\ Marked(shell.taking)
      BY <2>2 DEF Drop, Carried
    <3> QED BY <3>1, GoneStays DEF Carried
  <2> QED BY <2>1, <2>2, MoveSteps
<1>5. (shell.step = "unlink" => Marked(shell.taking))'
  <2>1. CASE UNCHANGED shell
    BY <2>1, GoneStays DEF Carried
  <2>2. CASE Mark
    <3>1. shell'.taking = shell.taking /\ shell.taking \in marks' \cup unmarked'
      BY <2>2, ShellSteps DEF Mark
    <3> QED BY <3>1 DEF Marked
  <2>3. CASE Drop \/ ShellRestart \/ \E t \in NodeTab : Take(t) \/ Open(t)
    BY <2>3, ShellSteps
  <2> QED BY <2>1, <2>2, <2>3, MoveSteps
<1> QED BY <1>2, <1>3, <1>4, <1>5 DEF Carried

LEMMA ShellsStep == TypeOK /\ Shells /\ [Next]_vars => Shells'
<1> SUFFICES ASSUME TypeOK, Shells, [Next]_vars PROVE Shells'
  OBVIOUS
<1>1. CASE UNCHANGED <<shell, opened, marks, unmarked>>
  BY <1>1 DEF Shells
<1>2. CASE Mark
  <2>1. /\ shell.step = "mark" /\ shell.taking \in NodeTab /\ opened' = opened
        /\ \/ marks' = marks \cup {shell.taking} /\ unmarked' = unmarked
           \/ unmarked' = unmarked \cup {shell.taking} /\ marks' = marks
        /\ shell'.taking = shell.taking /\ shell'.step = "unlink" /\ shell'.queue = shell.queue
    BY <1>2, ShellSteps DEF Mark, Shells
  <2> QED BY <2>1 DEF Shells
<1>3. CASE Drop \/ ShellRestart
  <2>1. /\ opened' = opened /\ marks' = marks /\ unmarked' = unmarked /\ shell'.step = "idle"
        /\ shell'.queue \subseteq shell.queue /\ (shell'.queue = {} \/ shell.step = "unlink")
    BY <1>3, ShellSteps DEF Drop, ShellRestart
  <2> QED BY <2>1 DEF Shells
<1>4. ASSUME NEW t \in NodeTab, Take(t) PROVE Shells'
  <2>1. /\ opened' = opened /\ marks' = marks /\ unmarked' = unmarked /\ shell.step = "idle"
        /\ shell'.taking = t /\ shell'.step = "mark"
        /\ shell'.queue = IF t \in shell.knows \cup marks THEN shell.queue
                          ELSE shell.queue \cup {t}
    BY <1>4, ShellSteps DEF Take
  <2>2. opened \in [NodeTab -> Nat]
    BY DEF TypeOK
  <2>3. t \notin marks \cup unmarked => opened[t] = 0
    BY <2>2 DEF Shells
  <2> QED BY <2>1, <2>3 DEF Shells
<1>5. ASSUME NEW t \in NodeTab, Open(t) PROVE Shells'
  <2>1. /\ marks' = marks /\ unmarked' = unmarked /\ shell.step = "idle" /\ t \in shell.queue
        /\ shell'.step = "idle" /\ shell'.queue = shell.queue \ {t}
    BY <1>5, ShellSteps DEF Open
  <2>2. PICK n \in {0, 1} : opened' = [opened EXCEPT ![t] = @ + n]
    BY <1>5 DEF Open
  <2>3. opened \in [NodeTab -> Nat]
    BY DEF TypeOK
  <2>4. opened'[t] = opened[t] + n /\ \A q \in NodeTab \ {t} : opened'[q] = opened[q]
    BY <2>2, <2>3, CallType
  <2>5. t \in unmarked \/ (opened[t] = 0 /\ t \in marks)
    BY <2>1 DEF Shells
  <2>6. n = 0 \/ n = 1
    OBVIOUS
  <2>7. t \in unmarked \/ (t \in marks /\ (opened'[t] > 0 => opened'[t] = 1))
    BY <2>4, <2>5, <2>6
  <2> QED BY <2>1, <2>4, <2>7 DEF Shells
<1> QED BY <1>1, <1>2, <1>3, <1>4, <1>5, MoveSteps

-----------------------------------------------------------------------------
(* The snapshots. *)

\* Only Save changes the saved snapshot, and only reading moves the cursor.
LEMMA SnapSteps ==
  ASSUME [Next]_vars
  PROVE  /\ local' = local \/ Save
         /\ dropped \subseteq dropped'
         /\ published' = published \/ (\E r \in Request : Publish(r))
         /\ seen' = seen \/ Exit \/ Crash \/ ReadSnap \/ ReadTab
BY DEF Next, Work, Receive, Environment, ReadSnap, ReadTab, Claim, Refuse, ClaimFails,
         Publish, Grow, MountOrUnmount, SyncCopy, SyncDelete, Start, Tick, Shutdown, Exit, Crash,
         ListSnaps, ListTabs, List, Save, Store, WriteFails, Call, Mirror, Scan, Send, Unlink,
         Tell, Take, Mark, Drop, Open, ShellRestart, vars, files, bus, memory

LEMMA KnownStays ==
  ASSUME TypeOK, [Next]_vars
  PROVE  \A r \in Request : Known(r) => Known(r)'
BY SpentStays, SnapSteps DEF Known

\* What reading a snapshot makes of it: it is known afterwards, in any case.
LEMMA ReadKnown ==
  ASSUME TypeOK, Shape, ReadSnap
  PROVE  /\ At("snaps") /\ Cur \in Batch /\ Batch \subseteq Snap /\ Cur \in Snap
         /\ Cur \in Nat /\ \A q \in Batch : Cur <= q
         /\ seen' = [seen EXCEPT !["snap"] = Cur] /\ seen'["snap"] = Cur
         /\ UNCHANGED <<published, local>> /\ Rest
         /\ \A r : r = Cur => Known(r)'
         /\ Claim("snap", "snaps", "save") => ~Spent(Cur)
<1>1. At("snaps") /\ seen' = [seen EXCEPT !["snap"] = Cur] /\ UNCHANGED <<published, local>>
  BY DEF ReadSnap, Claim, Refuse, ClaimFails, bus, files
<1>2. /\ Cur \in Batch /\ Batch \subseteq Snap /\ Cur \in Snap /\ Cur \in Request /\ Cur \in Nat
      /\ \A q \in Batch : Cur <= q
  BY <1>1, Front, Requests
<1>3. seen'["snap"] = Cur
  BY <1>1 DEF TypeOK
<1>4. CASE Claim("snap", "snaps", "save")
  <2>1. Rest
    BY <1>4, ClaimLists
  <2>2. ~Spent(Cur) /\ \A r : r = Cur => Spent(r)'
    BY <1>4, ClaimSpends
  <2> QED BY <1>1, <1>2, <1>3, <2>1, <2>2 DEF Known
<1>5. CASE Refuse("snap", "snaps") \/ ClaimFails("snap", "snaps")
  <2>1. Then(Unfinished("snaps"))
    BY <1>5 DEF Refuse, ClaimFails
  <2>2. Rest
    BY <1>1, <2>1, SkipLists
  <2>3. ~Claim("snap", "snaps", "save") \/ ~Spent(Cur)
    BY ClaimSpends
  <2>4. \A r : r = Cur => Known(r)'
    <3>1. CASE ClaimFails("snap", "snaps")
      <4>1. \A r : r = Cur => r \in dropped'
        BY <3>1 DEF ClaimFails
      <4> QED BY <4>1 DEF Known
    <3>2. CASE Refuse("snap", "snaps")
      <4>1. /\ age' = age
            /\ age[Cur] = "over" \/ (Cur \in ledger /\ age[Cur] # "over" /\ ledger' = Swept)
        BY <3>2 DEF Refuse, Valid, Swept, bus
      <4>2. \A r : r = Cur => age'[r] = "over" \/ r \in ledger'
        BY <4>1 DEF Swept
      <4> QED BY <4>2 DEF Known, Spent
    <3> QED BY <1>5, <3>1, <3>2
  <2> QED BY <1>1, <1>2, <1>3, <2>2, <2>3, <2>4
<1> QED BY <1>4, <1>5 DEF ReadSnap

LEMMA WaitingStays ==
  ASSUME TypeOK, Ordered, [Next]_vars, NEW B, B \subseteq Snap, Waiting(B),
         seen'["snap"] = seen["snap"]
  PROVE  Waiting(B)'
<1>1. published \subseteq published'
  BY SnapSteps DEF Publish
<1>2. \A r \in Snaps' \ Snaps : r > seen["snap"] => \A q \in B : q < r
  <2>1. CASE published' = published
    BY <2>1 DEF Snaps
  <2>2. ASSUME NEW p \in Request, Publish(p)
        PROVE  \A r \in Snaps' \ Snaps : \A q \in B : q < r
    <3>1. published' = published \cup {p} /\ \A q \in published : (p \in Snap) = (q \in Snap) => q < p
      BY <2>2 DEF Publish
    <3>2. B \subseteq published
      BY DEF Waiting
    <3> QED BY <3>1, <3>2 DEF Snaps
  <2> QED BY <2>1, <2>2, SnapSteps
<1> QED BY <1>1, <1>2 DEF Waiting, Snaps

\* The list of snapshots to read after a step.
LEMMA WaitingStep ==
  ASSUME TypeOK, Shape, Ordered, [Next]_vars, NEW i \in 1 .. Len(todo'), todo'[i].op = "snaps",
         NEW B, B = todo'[i].batch
  PROVE  Waiting(B)'
<1>0. Snap \subseteq Nat \ {0} /\ seen["snap"] \in Nat
  <2>1. seen["snap"] \in Request \cup {0}
    BY DEF TypeOK, None
  <2> QED BY <2>1, Ordinals, SnapOrdinals
<1>1. CASE ListSnaps
  <2>1. B = Unread(Snap, seen["snap"])
    BY <1>1, ListSnapsLists
  <2>2. UNCHANGED <<seen, published>>
    BY <1>1 DEF ListSnaps, List, bus
  <2> QED BY <2>1, <2>2 DEF Waiting, Unread, Snaps
<1>2. CASE ReadSnap
  <2>1. /\ At("snaps") /\ Cur \in Batch /\ Batch \subseteq Snap /\ Cur \in Nat
        /\ (\A q \in Batch : Cur <= q) /\ seen'["snap"] = Cur /\ published' = published
        /\ B = Batch \ {Cur}
    BY <1>2, ReadKnown DEF Rest
  <2>2. Waiting(Batch)
    <3>1. todo # <<>> /\ todo \in Seq(Item) /\ Head(todo).op = "snaps" /\ Batch = Head(todo).batch
      BY <2>1, Front
    <3>2. Head(todo) = todo[1] /\ 1 \in 1 .. Len(todo)
      BY <3>1, SeqFacts
    <3> QED BY <3>1, <3>2 DEF Ordered
  <2>3. Batch \subseteq published /\ Cur > seen["snap"]
        /\ \A r \in Snaps : r > seen["snap"] => r \in Batch \/ \A q \in Batch : q < r
    BY <2>1, <2>2 DEF Waiting
  <2>4. Batch \subseteq Nat /\ Snaps \subseteq Nat
    BY <1>0, <2>1 DEF Snaps
  <2>5. \A q \in B : q > Cur
    BY <2>1, <2>4
  <2>6. \A r \in Snaps : r > Cur => r \in B \/ \A q \in B : q < r
    BY <1>0, <2>1, <2>3, <2>4
  <2>7. Snaps' = Snaps /\ B \subseteq published
    BY <2>1, <2>3 DEF Snaps
  <2> QED BY <2>1, <2>5, <2>6, <2>7 DEF Waiting
<1>3. CASE todo' = <<>>
  BY <1>3
<1>4. CASE Kept /\ seen'["snap"] = seen["snap"]
  <2>1. PICK j \in 1 .. Len(todo) : todo[j] = todo'[i]
    BY <1>4 DEF Kept
  <2>2. Waiting(B) /\ Good(todo[j])
    BY <2>1 DEF Ordered, Shape
  <2>3. B \subseteq Snap
    BY <2>1, <2>2 DEF Good
  <2> QED BY <1>4, <2>2, <2>3, WaitingStays
<1>5. CASE Calm
  <2>1. Kept
    BY <1>5, CalmLists
  <2>2. todo' = <<>> \/ seen'["snap"] = seen["snap"]
    BY <1>5 DEF Calm, Start, Tick, Shutdown, Exit, Crash, Forget, ListTabs, List, Save, WriteFails,
                Call, Mirror, Scan, Unlink, Tell, Refuse, ClaimFails, TypeOK
  <2> QED BY <1>3, <1>4, <2>1, <2>2
<1>6. CASE Claim("tab", "tabs", "store") \/ Store \/ Send
  <2>1. Kept
    BY <1>6, ClaimLists, StoreLists, SendLists
  <2>2. seen'["snap"] = seen["snap"]
    BY <1>6 DEF Claim, Store, Send, TypeOK
  <2> QED BY <1>4, <2>1, <2>2
<1>7. CASE Outside \/ UNCHANGED vars
  <2>1. UNCHANGED <<todo, seen>>
    BY <1>7, OutsideLists, Stutters DEF Untouched, memory
  <2>2. Kept
    BY <2>1 DEF Kept
  <2> QED BY <1>4, <2>1, <2>2
<1> QED BY <1>1, <1>2, <1>5, <1>6, <1>7, Steps DEF Special, ReadSnap

\* The snapshot being saved is the last one read, and not an older one.
LEMMA SavingNext ==
  ASSUME TypeOK, Shape, Ordered, [Next]_vars, At("save")'
  PROVE  \A r \in Batch' : r = seen'["snap"] /\ (r >= local' \/ r \in dropped')
<1>1. "save" \in FrontOps
  BY DEF FrontOps
<1>2. CASE Untouched /\ At("save") /\ Batch' = Batch
  BY <1>2 DEF Ordered, Untouched, memory
<1>3. CASE Claim("snap", "snaps", "save") /\ Batch' = {Cur}
  <2>1. /\ seen'["snap"] = Cur /\ ~Spent(Cur) /\ local' = local /\ Cur \in Snap /\ Cur \in Batch
        /\ At("snaps") /\ dropped' = dropped
    BY <1>3, ReadKnown DEF ReadSnap, Claim
  <2>2. todo # <<>> /\ todo \in Seq(Item) /\ Head(todo).op = "snaps" /\ Batch = Head(todo).batch
    BY <2>1, Front
  <2>3. Head(todo) = todo[1] /\ 1 \in 1 .. Len(todo)
    BY <2>2, SeqFacts
  <2>4. Cur \in published
    BY <2>1, <2>2, <2>3 DEF Ordered, Waiting
  <2>5. Cur <= local => Cur \in dropped
    BY <2>1, <2>4 DEF Ordered, Known, Snaps
  <2>6. Cur \in Nat /\ local \in Nat
    BY <2>1, Requests DEF TypeOK, None
  <2> QED BY <1>3, <2>1, <2>5, <2>6
<1> QED BY <1>1, <1>2, <1>3, FrontAfter

LEMMA OrderedStep == TypeOK /\ Shape /\ Ordered /\ [Next]_vars => Ordered'
<1> SUFFICES ASSUME TypeOK, Shape, Ordered, [Next]_vars PROVE Ordered'
  OBVIOUS
<1>0. /\ Snap \subseteq Nat \ {0} /\ Snap \subseteq Request /\ None = 0
      /\ seen["snap"] \in Nat /\ local \in Nat
  <2>1. seen["snap"] \in Request \cup {0} /\ local \in Snap \cup {0} /\ None = 0
    BY DEF TypeOK, None
  <2> QED BY <2>1, Ordinals, SnapOrdinals
<1>1. /\ {local', seen'["snap"]} \subseteq Snaps' \cup {None}
      /\ \A r \in Snaps' : r <= local' \/ r <= seen'["snap"] => Known(r)'
  <2>1. ASSUME NEW q \in Request, Publish(q)
        PROVE  /\ {local', seen'["snap"]} \subseteq Snaps' \cup {None}
               /\ \A r \in Snaps' : r <= local' \/ r <= seen'["snap"] => Known(r)'
    <3>1. /\ UNCHANGED <<local, seen>> /\ published' = published \cup {q}
          /\ \A p \in published : (q \in Snap) = (p \in Snap) => p < q
      BY <2>1 DEF Publish, files, memory
    <3>2. q \in Snap => ~(q <= local) /\ ~(q <= seen["snap"])
      BY <1>0, <3>1 DEF Ordered, Snaps
    <3>3. Snaps' \subseteq Snaps \cup {q} /\ Snaps \subseteq Snaps' /\ (q \in Snaps' => q \in Snap)
      BY <3>1 DEF Snaps
    <3>4. \A r \in Snaps : r <= local \/ r <= seen["snap"] => Known(r)'
      BY <1>0, KnownStays DEF Ordered, Snaps
    <3> QED BY <3>1, <3>2, <3>3, <3>4 DEF Ordered
  <2>2. CASE Save
    <3>1. /\ local' = Cur /\ UNCHANGED <<published, seen>> /\ At("save") /\ Cur \in Batch
      BY <2>2, Front DEF Save, bus, FrontOps
    <3>2. Cur = seen["snap"] /\ Snaps' = Snaps
      BY <3>1 DEF Ordered, Snaps
    <3>3. \A r \in Snaps : r <= local \/ r <= seen["snap"] => Known(r)'
      BY <1>0, KnownStays DEF Ordered, Snaps
    <3> QED BY <3>1, <3>2, <3>3 DEF Ordered
  <2>3. CASE ReadSnap
    <3>1. /\ seen'["snap"] = Cur /\ UNCHANGED <<published, local>> /\ At("snaps") /\ Cur \in Batch
          /\ (\A q \in Batch : Cur <= q) /\ (\A r : r = Cur => Known(r)') /\ Cur \in Snap
          /\ Batch \subseteq Snap /\ Cur \in Nat
      BY <2>3, ReadKnown
    <3>2. todo # <<>> /\ todo \in Seq(Item) /\ Head(todo).op = "snaps" /\ Batch = Head(todo).batch
      BY <3>1, Front
    <3>3. Head(todo) = todo[1] /\ 1 \in 1 .. Len(todo)
      BY <3>2, SeqFacts
    <3>4. Waiting(Batch)
      BY <3>2, <3>3 DEF Ordered
    <3>5. Snaps' = Snaps /\ Cur \in Snaps
      BY <3>1, <3>4 DEF Waiting, Snaps
    <3>6. \A r \in Snaps : r <= Cur => r <= seen["snap"] \/ r = Cur
      <4>1. Snaps \subseteq Nat /\ Batch \subseteq Nat
        BY <1>0, <3>1 DEF Snaps
      <4>2. \A r \in Snaps : r > seen["snap"] => r \in Batch \/ \A q \in Batch : q < r
        BY <3>4 DEF Waiting
      <4> QED BY <1>0, <3>1, <4>1, <4>2
    <3>7. \A r \in Snaps : r <= local \/ r <= seen["snap"] => Known(r)'
      BY <1>0, KnownStays DEF Ordered, Snaps
    <3> QED BY <3>1, <3>5, <3>6, <3>7 DEF Ordered
  <2>4. CASE Exit \/ Crash
    <3>1. seen'["snap"] = None /\ UNCHANGED <<published, local>>
      BY <2>4 DEF Exit, Crash, Forget, bus, files
    <3>2. Snaps' = Snaps /\ \A r \in Snaps : ~(r <= None)
      <4>1. \A r \in Nat \ {0} : ~(r <= 0)
        OBVIOUS
      <4>2. Snaps \subseteq Nat \ {0}
        BY <1>0 DEF Snaps
      <4>3. Snaps' = Snaps
        BY <3>1 DEF Snaps
      <4> QED BY <1>0, <4>1, <4>2, <4>3
    <3>3. \A r \in Snaps : r <= local => Known(r)'
      BY <1>0, KnownStays DEF Ordered, Snaps
    <3> QED BY <3>1, <3>2, <3>3 DEF Ordered
  <2>5. CASE published' = published /\ local' = local /\ seen'["snap"] = seen["snap"]
    <3>1. Snaps' = Snaps
      BY <2>5 DEF Snaps
    <3>2. \A r \in Snaps : r <= local \/ r <= seen["snap"] => Known(r)'
      BY <1>0, KnownStays DEF Ordered, Snaps
    <3> QED BY <2>5, <3>1, <3>2 DEF Ordered
  <2>6. ReadTab => UNCHANGED <<published, local>> /\ seen'["snap"] = seen["snap"]
    BY DEF ReadTab, Claim, Refuse, ClaimFails, TypeOK, bus, files
  <2> QED BY <2>1, <2>2, <2>3, <2>4, <2>5, <2>6, SnapSteps
<1>2. (\A i \in 1 .. Len(todo) : todo[i].op = "snaps" => Waiting(todo[i].batch))'
  BY WaitingStep DEF Waiting
<1>3. At("save")' => \A r \in Batch' : r = seen'["snap"] /\ (r >= local' \/ r \in dropped')
  BY SavingNext
<1> QED BY <1>1, <1>2, <1>3 DEF Ordered

LEMMA MirroredStep == Mirrored /\ [Next]_vars => Mirrored'
<1> SUFFICES ASSUME Mirrored, [Next]_vars PROVE Mirrored'
  OBVIOUS
<1>1. CASE Save
  BY <1>1 DEF Save, Mirrored
<1>2. CASE Mirror
  BY <1>2 DEF Mirror, Mirrored
<1>3. CASE Exit \/ Crash
  BY <1>3 DEF Exit, Crash, Forget, Mirrored
<1>4. CASE UNCHANGED <<last, pending, share, local>>
  BY <1>4 DEF Mirrored
<1>5. ~(Save \/ Mirror \/ Exit \/ Crash) => UNCHANGED <<last, pending, share, local>>
  BY DEF Next, Work, Receive, Environment, ReadSnap, ReadTab, Claim, Refuse, ClaimFails,
         Publish, Grow, MountOrUnmount, SyncCopy, SyncDelete, Start, Tick, Shutdown,
         ListSnaps, ListTabs, List, Store, WriteFails, Call, Scan, Send, Unlink,
         Tell, Take, Mark, Drop, Open, ShellRestart, vars, files, memory
<1> QED BY <1>1, <1>2, <1>3, <1>4, <1>5

-----------------------------------------------------------------------------
(* The theorems. *)

LEMMA InvInit == Init => IInv
<1> SUFFICES ASSUME Init PROVE IInv
  OBVIOUS
<1> USE DEF Init
<1>1. todo = <<>> /\ todo \in Seq(Item) /\ up = FALSE
  OBVIOUS
<1>2. TypeOK
  <2>1. 0 \in 0 .. MaxEnds /\ Silent \in Statuses /\ IdleShell \in ShellType
    BY BoundAssumption DEF Silent, Statuses, IdleShell, ShellType
  <2>2. /\ age \in [Request -> Age]
        /\ seen \in [{"snap", "tab"} -> Request \cup {None}]
        /\ calls \in [PhoneTab -> Nat]
        /\ applied \in [Request -> Nat]
        /\ opened \in [NodeTab -> Nat]
        /\ ends \in [{"worker", "shell"} -> 0 .. MaxEnds]
    BY <2>1 DEF Age
  <2> QED BY <1>1, <2>1, <2>2 DEF TypeOK, ShellType
<1>3. Shape
  BY <1>1 DEF Shape
<1>4. \A op : ~At(op)
  BY <1>1 DEF At
<1>5. Once
  BY <1>4, Requests DEF Once
<1>6. Carried
  BY <1>4, Requests DEF Carried, HandoffKept, IdleShell
<1>7. Shells
  BY DEF Shells, IdleShell
<1>8. Ordered
  BY <1>1, <1>4 DEF Ordered, Snaps
<1>9. Mirrored
  BY DEF Mirrored
<1> QED BY <1>2, <1>3, <1>5, <1>6, <1>7, <1>8, <1>9 DEF IInv

LEMMA InvNext == IInv /\ [Next]_vars => IInv'
BY TypeStep, ShapeStep, OnceStep, CarriedStep, ShellsStep, OrderedStep, MirroredStep DEF IInv

LEMMA Invariance == Spec => []IInv
<1>1. Init => IInv
  BY InvInit
<1>2. IInv /\ [Next]_vars => IInv'
  BY InvNext
<1> QED BY <1>1, <1>2, PTL DEF Spec

\* Every variable keeps its type; above all the worker's list stays a list
\* of items, whatever ends the worker and whenever.
THEOREM TypeCorrect == Spec => []TypeOK
<1>1. IInv => TypeOK
  BY DEF IInv
<1> QED BY <1>1, Invariance, PTL

\* No request takes effect twice and no tab opens twice, for any number of
\* restarts of the worker and of the receiving shell (authorize and the
\* consumed tombstones).
THEOREM NothingTwice == Spec => []OnlyOnce
<1>1. IInv => OnlyOnce
  <2> SUFFICES ASSUME IInv PROVE OnlyOnce
    OBVIOUS
  <2>1. applied \in [Request -> Nat] /\ calls \in [PhoneTab -> Nat] /\ opened \in [NodeTab -> Nat]
    BY DEF IInv, TypeOK
  <2>2. AppliedOnce
    BY <2>1 DEF IInv, Once, AppliedOnce
  <2>3. OpensOnce
    BY <2>1 DEF IInv, Shells, OpensOnce
  <2> QED BY <2>2, <2>3 DEF OnlyOnce
<1> QED BY <1>1, Invariance, PTL

\* A stored handoff is in some outbox until the other shell has taken it
\* (mirror_send_tab_outbox, drain_incoming_send_tabs).
THEOREM HandoffsKept == Spec => []HandoffKept
<1>1. IInv => HandoffKept
  BY DEF IInv, Carried
<1> QED BY <1>1, Invariance, PTL

\* The saved session is never replaced by an older one, and a status that
\* says syncing is true of it (apply_snapshot, mirror_pending).
THEOREM SnapshotIsHonest == Spec => SnapshotHonest
<1>1. IInv /\ [Next]_vars => [local' >= local \/ local' \in dropped]_vars
  <2> SUFFICES ASSUME IInv, [Next]_vars PROVE local' >= local \/ local' \in dropped
    OBVIOUS
  <2>1. local \in Nat
    BY Ordinals DEF IInv, TypeOK, None
  <2>2. CASE local' = local
    BY <2>1, <2>2
  <2>3. CASE Save
    <3>1. At("save") /\ local' = Cur /\ Cur \in Batch
      BY <2>3, Front DEF IInv, Save, FrontOps
    <3> QED BY <3>1 DEF IInv, Ordered
  <2> QED BY <2>2, <2>3, SnapSteps
<1>2. IInv /\ [Next]_vars =>
        [status' # status /\ status'.syncing /\ status'.host => share' = local']_vars
  <2> SUFFICES ASSUME IInv, [Next]_vars, status' # status, status'.syncing, status'.host
               PROVE  share' = local'
    OBVIOUS
  <2>1. Tell
    BY DEF Next, Work, Receive, Environment, ReadSnap, ReadTab, Claim, Refuse, ClaimFails,
         Publish, Grow, MountOrUnmount, SyncCopy, SyncDelete, Start, Tick, Shutdown, Exit, Crash,
         ListSnaps, ListTabs, List, Save, Store, WriteFails, Call, Mirror, Scan, Send, Unlink,
         Take, Mark, Drop, Open, ShellRestart, vars
  <2>2. status' = Status /\ UNCHANGED <<share, local>>
    BY <2>1 DEF Tell, files
  <2>3. last /\ ~pending
    BY <2>2 DEF Status
  <2> QED BY <2>2, <2>3 DEF IInv, Mirrored
<1> QED BY <1>1, <1>2, Invariance, PTL
        DEF Spec, SnapshotHonest, SnapshotNeverOlder, HonestWithinLife
=============================================================================
