--------------------------- MODULE TabPanelProofs ---------------------------
(***************************************************************************)
(* Proofs about TabPanel, for any number of tabs, of saved tabs and of     *)
(* polls.                                                                  *)
(***************************************************************************)
EXTENDS TabPanel, SequenceTheorems, FiniteSetTheorems, WellFoundedInduction,
        TLAPS

-----------------------------------------------------------------------------
(* The invariant.                                                          *)

\* A helper is hidden only when it was told so, and remembered as told.
Sane == {t \in Tab : t.engine = "hidden" => t.told = "hidden"}

Leads(ts) == \A i, j \in DOMAIN ts : i < j /\ ts[j].pinned => ts[i].pinned
Differ(ts) == \A i, j \in DOMAIN ts : ts[i].name = ts[j].name => i = j
NamesOf(ts) == {ts[i].name : i \in DOMAIN ts}
FrontOf(s) == IF s.active \in DOMAIN s.tabs THEN s.tabs[s.active].name ELSE 0

Sound(s) ==
    /\ s.tabs \in Seq(Sane)
    /\ s.active \in 1 .. (IF s.tabs = <<>> THEN 1 ELSE Len(s.tabs))
    /\ Leads(s.tabs)
    /\ Differ(s.tabs)

\* r has tabs of s only, and the one in front in s is in front if it is left.
Follows(s, r) ==
    /\ NamesOf(r.tabs) \subseteq NamesOf(s.tabs)
    /\ FrontOf(s) \in NamesOf(r.tabs) => FrontOf(r) = FrontOf(s)

Request == [kind : {"new", "replace"}, name : Names, index : Nat]
Once(s) == \A k, l \in DOMAIN s : s[k] = s[l] => k = l
Kept(body, n) == body.tabs \in Seq(1 .. n) /\ Once(body.tabs)

\* A name is given once: to a tab, or to one that was asked for.
Known ==
    /\ NamesOf(tabs) \subseteq 1 .. names
    /\ \A k \in DOMAIN queue : queue[k].name \in 1 .. names
    /\ Kept(latest, names)
Asked ==
    /\ \A k \in DOMAIN queue :
          queue[k].kind = "new" => queue[k].name \notin NamesOf(tabs)
    /\ \A k, l \in DOMAIN queue :
          /\ queue[k].kind = "new" /\ queue[l].kind = "new"
          /\ queue[k].name = queue[l].name
          => k = l

\* A page that is left is replaced before anything else can move it.
Replacing ==
    \A k \in DOMAIN queue :
        queue[k].kind = "replace" =>
            /\ phase = "drain"
            /\ queue[k].index \in DOMAIN tabs
            /\ tabs[queue[k].index].name = queue[k].name

Kinds ==
    /\ phase \in {"off", "input", "chrome", "drain"}
    /\ onTop \in BOOLEAN /\ respawn \in BOOLEAN
    /\ queue \in Seq(Request)
    /\ names \in 0 .. MaxNames /\ acts \in 0 .. MaxActs
    /\ phase = "off" => tabs = <<>> /\ queue = <<>>

IInv ==
    /\ Kinds
    /\ Sound(Strip)
    /\ Known
    /\ Asked
    /\ Replacing
    /\ ActiveIsShown

-----------------------------------------------------------------------------
(* Numbers in their order.                                                 *)

Places(S) == IsFiniteSet(S) /\ S \subseteq Nat
Rank(S, i) == Cardinality({j \in S : j <= i})

LEMMA RankGrows ==
  ASSUME NEW S, Places(S), NEW i \in S
  PROVE  /\ Rank(S, i) \in 1 .. Cardinality(S)
         /\ \A h \in S : h < i => Rank(S, h) < Rank(S, i)
<1> DEFINE Upto(h) == {j \in S : j <= h}
<1>1. \A h \in S : /\ Upto(h) \in SUBSET S /\ IsFiniteSet(Upto(h))
                   /\ Cardinality(Upto(h)) \in Nat
                   /\ Cardinality(Upto(h)) <= Cardinality(S)
  BY FS_Subset, FS_CardinalityType DEF Places
<1>2. Cardinality(S) \in Nat
  BY FS_CardinalityType DEF Places
<1>3. Cardinality(Upto(i)) # 0
  <2>1. i \in Upto(i)
    BY DEF Places
  <2> HIDE DEF Upto
  <2> QED BY <1>1, <2>1, FS_EmptySet
<1>4. ASSUME NEW h \in S, h < i PROVE Cardinality(Upto(h)) < Cardinality(Upto(i))
  <2>1. Upto(h) \in SUBSET Upto(i) /\ i \in Upto(i) /\ i \notin Upto(h)
    <3>1. S \subseteq Nat /\ h \in Nat /\ i \in Nat
      BY DEF Places
    <3>2. \A j \in S : j <= h => j <= i
      BY <1>4, <3>1
    <3>3. ~(i <= h) /\ i <= i
      BY <1>4, <3>1
    <3> HIDE <1>4
    <3> QED BY <3>2, <3>3
  <2> HIDE DEF Upto
  <2>2. Upto(h) # Upto(i)
    BY <2>1
  <2> QED BY <1>1, <2>1, <2>2, FS_Subset
<1> HIDE DEF Upto
<1>5. Cardinality(Upto(i)) \in 1 .. Cardinality(S)
  BY <1>1, <1>2, <1>3
<1> QED BY <1>4, <1>5 DEF Upto, Rank

LEMMA RanksDiffer ==
  ASSUME NEW S, Places(S), NEW h \in S, NEW i \in S, Rank(S, h) = Rank(S, i)
  PROVE  h = i
<1>1. h \in Nat /\ i \in Nat /\ Rank(S, h) \in Nat
  <2>1. Rank(S, h) \in 1 .. Cardinality(S)
    BY RankGrows
  <2>2. Cardinality(S) \in Nat
    BY FS_CardinalityType DEF Places
  <2>3. Rank(S, h) \in Nat
    BY <2>1, <2>2
  <2> QED BY <2>3 DEF Places
<1>2. ~(h < i) /\ ~(i < h)
  BY <1>1, RankGrows
<1> QED BY <1>1, <1>2

\* As many ranks as elements, and no two alike: each rank is somebody's.
LEMMA RanksAreTaken ==
  ASSUME NEW S, Places(S), NEW k \in 1 .. Cardinality(S)
  PROVE  \E i \in S : Rank(S, i) = k
<1> DEFINE n == Cardinality(S)
           r == [i \in S |-> Rank(S, i)]
<1>1. n \in Nat /\ IsFiniteSet(S)
  BY FS_CardinalityType DEF Places
<1>2. IsFiniteSet(1 .. n) /\ Cardinality(1 .. n) = n
  <2> HIDE DEF n
  <2>1. Cardinality(1 .. n) = IF 1 > n THEN 0 ELSE n - 1 + 1
    BY <1>1, FS_Interval
  <2> QED BY <1>1, <2>1, FS_Interval
<1>3. r \in [S -> 1 .. n] /\ \A h, i \in S : r[h] = r[i] => h = i
  BY RankGrows, RanksDiffer
<1>4. r \in Injection(S, 1 .. n)
  <2> HIDE DEF r, n
  <2> QED BY <1>3 DEF Injection, IsInjective
<1>5. r \in Surjection(S, 1 .. n)
  <2> HIDE DEF r
  <2> QED BY <1>1, <1>2, <1>4, FS_Injection
<1>6. \A m \in 1 .. n : \E i \in S : r[i] = m
  <2> HIDE DEF r, n
  <2> QED BY <1>5 DEF Surjection
<1> QED BY <1>6

\* InOrder lists the set, each number once, from the smallest to the largest.
LEMMA InOrderIs ==
  ASSUME NEW S, Places(S)
  PROVE  /\ InOrder(S) \in [1 .. Cardinality(S) -> S]
         /\ DOMAIN InOrder(S) = 1 .. Cardinality(S)
         /\ \A i \in S : \E k \in 1 .. Cardinality(S) : InOrder(S)[k] = i
         /\ \A k, l \in 1 .. Cardinality(S) :
              k < l => InOrder(S)[k] < InOrder(S)[l]
<1> DEFINE n == Cardinality(S)
           f == InOrder(S)
<1>1. \A k \in 1 .. n : f[k] \in S /\ Rank(S, f[k]) = k
  <2> SUFFICES ASSUME NEW k \in 1 .. n PROVE f[k] \in S /\ Rank(S, f[k]) = k
    OBVIOUS
  <2>1. \E i \in S : Cardinality({j \in S : j <= i}) = k
    BY RanksAreTaken DEF Rank
  <2>2. f[k] = CHOOSE i \in S : Cardinality({j \in S : j <= i}) = k
    BY DEF InOrder
  <2> HIDE DEF f
  <2> QED BY <2>1, <2>2 DEF Rank
<1>2. f \in [1 .. n -> S]
  <2>1. f = [k \in 1 .. n |-> f[k]]
    BY DEF InOrder
  <2> HIDE DEF f, n
  <2> QED BY <1>1, <2>1
<1> HIDE DEF f
<1>3. \A i \in S : \E k \in 1 .. n : f[k] = i
  BY <1>1, RankGrows, RanksDiffer
<1>4. n \in Nat
  BY FS_CardinalityType DEF Places
<1>5. ASSUME NEW k \in 1 .. n, NEW l \in 1 .. n, k < l PROVE f[k] < f[l]
  <2>1. f[k] \in S /\ f[l] \in S /\ f[k] \in Nat /\ f[l] \in Nat
    BY <1>1 DEF Places
  <2>2. f[k] # f[l]
    BY <1>1, <1>4, <1>5
  <2>3. ~(f[l] < f[k])
    <3>1. f[l] < f[k] => Rank(S, f[l]) < Rank(S, f[k])
      BY <2>1, RankGrows
    <3> HIDE DEF n
    <3> QED BY <1>1, <1>4, <1>5, <3>1
  <2> QED BY <2>1, <2>2, <2>3
<1> QED BY <1>2, <1>3, <1>5 DEF f

\* Picked keeps the order of the sequence, and nothing else of it.
LEMMA PickedIs ==
  ASSUME NEW T, NEW s \in Seq(T), NEW S \in SUBSET DOMAIN s
  PROVE  /\ Picked(s, S) \in Seq(T)
         /\ \A k \in DOMAIN Picked(s, S) : \E i \in S : Picked(s, S)[k] = s[i]
         /\ \A i \in S : \E k \in DOMAIN Picked(s, S) : Picked(s, S)[k] = s[i]
         /\ Once(s) => Once(Picked(s, S))
         /\ Len(Picked(s, S)) = Cardinality(S)
<1>1. Places(S) /\ Cardinality(S) \in Nat
  <2>1. IsFiniteSet(DOMAIN s) /\ DOMAIN s \subseteq Nat
    BY FS_Interval
  <2> QED BY <2>1, FS_Subset, FS_CardinalityType DEF Places
<1> DEFINE n == Cardinality(S)
           f == InOrder(S)
<1>2. /\ f \in [1 .. n -> S] /\ DOMAIN f = 1 .. n
      /\ \A i \in S : \E k \in 1 .. n : f[k] = i
      /\ \A k, l \in 1 .. n : k < l => f[k] < f[l]
  BY <1>1, InOrderIs
<1> HIDE DEF f, n
<1>3. Picked(s, S) = [k \in 1 .. n |-> s[f[k]]]
  BY <1>2 DEF Picked, f
<1>4. \A k \in 1 .. n : f[k] \in DOMAIN s /\ s[f[k]] \in T
  BY <1>2
<1>5. n \in Nat
  BY <1>1 DEF n
<1>6. Picked(s, S) \in Seq(T) /\ Len(Picked(s, S)) = n
  <2>1. [k \in 1 .. n |-> s[f[k]]] \in [1 .. n -> T]
    BY <1>4
  <2> QED BY <1>3, <1>5, <2>1
<1>7. DOMAIN Picked(s, S) = 1 .. n /\ \A k \in 1 .. n : Picked(s, S)[k] = s[f[k]]
  BY <1>3
<1>8. /\ \A k \in 1 .. n : \E i \in S : Picked(s, S)[k] = s[i]
      /\ \A i \in S : \E k \in 1 .. n : Picked(s, S)[k] = s[i]
  BY <1>2, <1>7
<1>9. ASSUME Once(s) PROVE Once(Picked(s, S))
  <2>1. \A k, l \in 1 .. n : f[k] = f[l] => k = l
    <3>1. \A k, l \in 1 .. n : k \in Nat /\ l \in Nat /\ f[k] \in Nat /\ f[l] \in Nat
      BY <1>1, <1>2, <1>5 DEF Places
    <3>2. \A k, l \in 1 .. n : f[k] = f[l] => ~(k < l) /\ ~(l < k)
      BY <1>2, <3>1
    <3> QED BY <3>1, <3>2
  <2>2. \A k, l \in 1 .. n : s[f[k]] = s[f[l]] => k = l
    BY <1>4, <1>9, <2>1 DEF Once
  <2> QED BY <1>7, <2>2 DEF Once
<1> QED BY <1>6, <1>7, <1>8, <1>9 DEF n

-----------------------------------------------------------------------------
(* Strips drawn from a strip: closing, dragging and clustering only choose *)
(* which tabs are left and in which order.                                 *)

Hole(i) == [k \in Nat |-> IF k < i THEN k ELSE k + 1]

LEMMA RemovedIs ==
  ASSUME NEW T, NEW s \in Seq(T), NEW i \in DOMAIN s
  PROVE  RemoveAt(s, i) = [k \in 1 .. Len(s) - 1 |-> s[Hole(i)[k]]]
<1> DEFINE l == SubSeq(s, 1, i - 1)
           r == SubSeq(s, i + 1, Len(s))
           u == [k \in 1 .. Len(s) - 1 |-> s[Hole(i)[k]]]
<1>1. Len(s) \in Nat /\ i \in 1 .. Len(s) /\ DOMAIN s = 1 .. Len(s)
  OBVIOUS
<1>2. l \in Seq(T) /\ Len(l) = i - 1 /\ \A k \in 1 .. i - 1 : l[k] = s[k]
  <2>1. i - 1 \in 0 .. Len(s)
    BY <1>1
  <2> QED BY <1>1, <2>1, SubSeqProperties
<1>3. /\ r \in Seq(T) /\ Len(r) = Len(s) - i
      /\ \A k \in 1 .. Len(s) - i : r[k] = s[i + k]
  <2>1. i + 1 \in 1 .. Len(s) + 1 /\ Len(s) \in i .. Len(s)
    BY <1>1
  <2> QED BY <1>1, <2>1, SubSeqProperties
<1> HIDE DEF l, r
<1>4. l \o r \in Seq(T) /\ Len(l \o r) = Len(s) - 1
  <2>1. l \o r \in Seq(T) /\ Len(l \o r) = Len(l) + Len(r)
    BY <1>2, <1>3, ConcatProperties
  <2>2. Len(l) + Len(r) = Len(s) - 1
    BY <1>1, <1>2, <1>3
  <2> QED BY <2>1, <2>2
<1>5. ASSUME NEW k \in 1 .. Len(s) - 1 PROVE (l \o r)[k] = u[k]
  <2>1. CASE k < i
    BY <1>1, <1>2, <1>3, <2>1 DEF Hole
  <2>2. CASE ~(k < i)
    <3>1. (l \o r)[k] = r[k - (i - 1)]
      BY <1>1, <1>2, <1>3, <2>2
    <3>2. k - (i - 1) \in 1 .. Len(s) - i /\ i + (k - (i - 1)) = k + 1
      BY <1>1, <2>2
    <3>3. r[k - (i - 1)] = s[k + 1]
      BY <1>3, <3>2
    <3> QED BY <3>1, <3>3, <2>2, <1>1 DEF Hole
  <2> QED BY <2>1, <2>2
<1>6. u \in Seq(T) /\ Len(u) = Len(s) - 1
  <2>1. \A k \in 1 .. Len(s) - 1 : Hole(i)[k] \in 1 .. Len(s)
    BY <1>1 DEF Hole
  <2> QED BY <1>1, <2>1
<1>7. l \o r = u
  <2> DEFINE v == l \o r
  <2> HIDE DEF v, u
  <2> QED BY <1>4, <1>5, <1>6, SeqEqual DEF v
<1> QED BY <1>7 DEF RemoveAt, l, r

LEMMA InsertedIs ==
  ASSUME NEW T, NEW s \in Seq(T), NEW i \in 1 .. Len(s) + 1, NEW e \in T
  PROVE  InsertAt(s, i, e) =
           [k \in 1 .. Len(s) + 1 |->
              IF k < i THEN s[k] ELSE IF k = i THEN e ELSE s[k - 1]]
<1> DEFINE l == SubSeq(s, 1, i - 1)
           r == SubSeq(s, i, Len(s))
           m == l \o <<e>>
           u == [k \in 1 .. Len(s) + 1 |->
                   IF k < i THEN s[k] ELSE IF k = i THEN e ELSE s[k - 1]]
<1>1. Len(s) \in Nat /\ DOMAIN s = 1 .. Len(s) /\ i \in Nat
  OBVIOUS
<1>2. l \in Seq(T) /\ Len(l) = i - 1 /\ \A k \in 1 .. i - 1 : l[k] = s[k]
  <2>1. \A k \in 1 .. i - 1 : s[k] \in T
    BY <1>1
  <2> QED BY <1>1, <2>1, SubSeqProperties
<1>3. /\ r \in Seq(T) /\ Len(r) = Len(s) + 1 - i
      /\ \A k \in 1 .. Len(s) + 1 - i : r[k] = s[i + k - 1]
  <2>1. \A k \in i .. Len(s) : s[k] \in T
    BY <1>1
  <2> QED BY <1>1, <2>1, SubSeqProperties
<1> HIDE DEF l, r
<1>4. m \in Seq(T) /\ Len(m) = i /\ m[i] = e /\ \A k \in 1 .. i - 1 : m[k] = s[k]
  <2>1. <<e>> \in Seq(T) /\ Len(<<e>>) = 1 /\ <<e>>[1] = e
    OBVIOUS
  <2>2. m \in Seq(T) /\ Len(m) = Len(l) + 1
        /\ \A k \in 1 .. Len(l) + 1 :
             m[k] = IF k <= Len(l) THEN l[k] ELSE <<e>>[k - Len(l)]
    BY <1>2, <2>1, ConcatProperties
  <2> HIDE DEF m
  <2> QED BY <1>1, <1>2, <2>1, <2>2
<1> HIDE DEF m
<1>5. /\ m \o r \in Seq(T) /\ Len(m \o r) = Len(s) + 1
      /\ \A k \in 1 .. Len(s) + 1 :
           (m \o r)[k] = IF k <= i THEN m[k] ELSE r[k - i]
  <2>1. /\ m \o r \in Seq(T) /\ Len(m \o r) = Len(m) + Len(r)
        /\ \A k \in 1 .. Len(m) + Len(r) :
             (m \o r)[k] = IF k <= Len(m) THEN m[k] ELSE r[k - Len(m)]
    BY <1>3, <1>4, ConcatProperties
  <2>2. Len(m) + Len(r) = Len(s) + 1
    BY <1>1, <1>3, <1>4
  <2> QED BY <1>4, <2>1, <2>2
<1>6. ASSUME NEW k \in 1 .. Len(s) + 1 PROVE (m \o r)[k] = u[k]
  <2>1. CASE k < i
    <3>1. k \in 1 .. i - 1 /\ k <= i
      BY <1>1, <2>1
    <3> QED BY <1>4, <1>5, <2>1, <3>1
  <2>2. CASE k = i
    <3>1. k <= i /\ ~(k < i)
      BY <1>1, <2>2
    <3> QED BY <1>4, <1>5, <2>2, <3>1
  <2>3. CASE i < k
    <3>1. k - i \in 1 .. Len(s) + 1 - i /\ i + (k - i) - 1 = k - 1
          /\ ~(k <= i) /\ ~(k < i) /\ k # i
      BY <1>1, <2>3
    <3>2. r[k - i] = s[k - 1]
      BY <1>3, <3>1
    <3> QED BY <1>5, <3>1, <3>2
  <2>4. k < i \/ k = i \/ i < k
    BY <1>1
  <2> QED BY <2>1, <2>2, <2>3, <2>4
<1>7. u \in Seq(T) /\ Len(u) = Len(s) + 1
  <2>1. \A k \in 1 .. Len(s) + 1 :
          /\ k < i => k \in 1 .. Len(s)
          /\ ~(k < i) /\ k # i => k - 1 \in 1 .. Len(s)
    BY <1>1
  <2>2. \A k \in 1 .. Len(s) + 1 : u[k] \in T
    BY <1>1, <2>1
  <2>3. u = [k \in 1 .. Len(s) + 1 |-> u[k]]
    OBVIOUS
  <2> HIDE DEF u
  <2>4. u \in [1 .. Len(s) + 1 -> T]
    BY <2>2, <2>3
  <2> QED BY <1>1, <2>4
<1>8. m \o r = u
  <2> DEFINE v == m \o r
  <2> HIDE DEF v, u
  <2> QED BY <1>5, <1>6, <1>7, SeqEqual DEF v
<1> QED BY <1>8 DEF InsertAt, l, m, r

\* p says where each of the n tabs of the new strip stood in the old one.
Draws(p, n, ts) ==
    /\ n \in Nat
    /\ p \in [1 .. n -> DOMAIN ts]
    /\ \A k, l \in 1 .. n : p[k] = p[l] => k = l
Drawn(ts, p, n) == [k \in 1 .. n |-> ts[p[k]]]

LEMMA DrawnIs ==
  ASSUME NEW ts \in Seq(Sane), Differ(ts), NEW p, NEW n, Draws(p, n, ts)
  PROVE  /\ Drawn(ts, p, n) \in Seq(Sane)
         /\ Len(Drawn(ts, p, n)) = n /\ DOMAIN Drawn(ts, p, n) = 1 .. n
         /\ \A k \in 1 .. n : Drawn(ts, p, n)[k] = ts[p[k]]
         /\ Differ(Drawn(ts, p, n))
         /\ NamesOf(Drawn(ts, p, n)) \subseteq NamesOf(ts)
<1> DEFINE r == Drawn(ts, p, n)
<1>1. n \in Nat /\ \A k \in 1 .. n : p[k] \in DOMAIN ts
  BY DEF Draws
<1>2. DOMAIN r = 1 .. n /\ \A k \in 1 .. n : r[k] = ts[p[k]]
  BY DEF Drawn
<1>3. r \in Seq(Sane) /\ Len(r) = n
  <2>1. \A k \in 1 .. n : ts[p[k]] \in Sane
    BY <1>1
  <2>2. r \in [1 .. n -> Sane]
    BY <2>1 DEF Drawn
  <2> QED BY <1>1, <2>2
<1> HIDE DEF r
<1>4. Differ(r)
  <2> SUFFICES ASSUME NEW k \in 1 .. n, NEW l \in 1 .. n, r[k].name = r[l].name
               PROVE  k = l
    BY <1>2 DEF Differ
  <2>1. ts[p[k]].name = ts[p[l]].name
    BY <1>2
  <2>2. p[k] = p[l]
    BY <1>1, <2>1 DEF Differ
  <2> QED BY <2>2 DEF Draws
<1>5. NamesOf(r) \subseteq NamesOf(ts)
  BY <1>1, <1>2 DEF NamesOf
<1> QED BY <1>2, <1>3, <1>4, <1>5 DEF r

\* The tab in front stays in front when the new index names its new place.
LEMMA DrawnFollows ==
  ASSUME NEW s, s.tabs \in Seq(Sane), Differ(s.tabs), s.active \in DOMAIN s.tabs,
         NEW r, NEW p, NEW n, Draws(p, n, s.tabs), r.tabs = Drawn(s.tabs, p, n),
         \A k \in 1 .. n :
            p[k] = s.active => r.active \in 1 .. n /\ p[r.active] = s.active
  PROVE  Follows(s, r)
<1>1. /\ DOMAIN r.tabs = 1 .. n /\ \A k \in 1 .. n : r.tabs[k] = s.tabs[p[k]]
      /\ NamesOf(r.tabs) \subseteq NamesOf(s.tabs)
      /\ \A k \in 1 .. n : p[k] \in DOMAIN s.tabs
  <2>1. \A k \in 1 .. n : p[k] \in DOMAIN s.tabs
    BY DEF Draws
  <2> QED BY <2>1, DrawnIs
<1>2. ASSUME FrontOf(s) \in NamesOf(r.tabs) PROVE FrontOf(r) = FrontOf(s)
  <2>1. PICK k \in 1 .. n : s.tabs[p[k]].name = s.tabs[s.active].name
    BY <1>1, <1>2 DEF NamesOf, FrontOf
  <2>2. p[k] = s.active
    BY <1>1, <2>1 DEF Differ
  <2>3. r.active \in 1 .. n /\ p[r.active] = s.active
    BY <2>2
  <2> QED BY <1>1, <2>3 DEF FrontOf
<1> QED BY <1>1, <1>2 DEF Follows

LEMMA DrawnLeads ==
  ASSUME NEW ts \in Seq(Sane), Differ(ts), Leads(ts),
         NEW p, NEW n, Draws(p, n, ts),
         \A k, l \in 1 .. n : k < l => p[k] < p[l]
  PROVE  Leads(Drawn(ts, p, n))
<1>1. /\ DOMAIN Drawn(ts, p, n) = 1 .. n
      /\ \A k \in 1 .. n : Drawn(ts, p, n)[k] = ts[p[k]]
  BY DrawnIs
<1>2. \A k \in 1 .. n : p[k] \in DOMAIN ts
  BY DEF Draws
<1>3. \A k, l \in 1 .. n : k < l /\ ts[p[l]].pinned => ts[p[k]].pinned
  BY <1>2 DEF Leads
<1> QED BY <1>1, <1>3 DEF Leads

LEMMA SoundIndex ==
  ASSUME NEW s, Sound(s)
  PROVE  /\ s.tabs \in Seq(Sane) /\ Differ(s.tabs) /\ Leads(s.tabs)
         /\ Len(s.tabs) \in Nat /\ DOMAIN s.tabs = 1 .. Len(s.tabs)
         /\ s.active \in Nat \ {0}
         /\ s.tabs = <<>> => s.active = 1
         /\ s.tabs # <<>> => s.active \in DOMAIN s.tabs
         /\ s.tabs = <<>> <=> Len(s.tabs) = 0
<1>1. s.tabs \in Seq(Sane) /\ Differ(s.tabs) /\ Leads(s.tabs)
  BY DEF Sound
<1>2. /\ Len(s.tabs) \in Nat /\ DOMAIN s.tabs = 1 .. Len(s.tabs)
      /\ s.tabs = <<>> <=> Len(s.tabs) = 0
  BY <1>1, EmptySeq
<1>3. s.active \in 1 .. (IF s.tabs = <<>> THEN 1 ELSE Len(s.tabs))
  BY DEF Sound
<1>4. s.tabs = <<>> => s.active = 1
  BY <1>3
<1>5. s.tabs # <<>> => s.active \in 1 .. Len(s.tabs)
  BY <1>3
<1>6. s.active \in Nat \ {0}
  BY <1>2, <1>4, <1>5
<1> QED BY <1>1, <1>2, <1>4, <1>5, <1>6

\* close_tab: the rest of the strip stays as it was, and so does the front.
LEMMA ClosedIs ==
  ASSUME NEW s, Sound(s), NEW i \in DOMAIN s.tabs
  PROVE  /\ Sound(Closed(s, i)) /\ Follows(s, Closed(s, i))
         /\ Len(Closed(s, i).tabs) = Len(s.tabs) - 1
         /\ \A k \in 1 .. i - 1 : Closed(s, i).tabs[k] = s.tabs[k]
         /\ \A k \in DOMAIN s.tabs \ {i} :
              s.tabs[k].name \in NamesOf(Closed(s, i).tabs)
<1> DEFINE n == Len(s.tabs) - 1
           p == [k \in 1 .. n |-> Hole(i)[k]]
           r == Closed(s, i)
<1>1. /\ s.tabs \in Seq(Sane) /\ Differ(s.tabs) /\ Leads(s.tabs)
      /\ DOMAIN s.tabs = 1 .. n + 1 /\ n \in Nat /\ i \in 1 .. n + 1
      /\ s.active \in 1 .. n + 1
  BY SoundIndex
<1>2. \A k \in 1 .. n : p[k] = IF k < i THEN k ELSE k + 1
  BY DEF Hole
<1>3. r.tabs = Drawn(s.tabs, p, n)
  <2>1. RemoveAt(s.tabs, i) = [k \in 1 .. n |-> s.tabs[Hole(i)[k]]]
    BY <1>1, RemovedIs
  <2>2. [k \in 1 .. n |-> s.tabs[Hole(i)[k]]] = [k \in 1 .. n |-> s.tabs[p[k]]]
    OBVIOUS
  <2> HIDE DEF n, p
  <2> QED BY <2>1, <2>2 DEF Closed, Drawn
<1>4. r.active = IF i <= s.active /\ s.active > 1 THEN s.active - 1 ELSE s.active
  <2>1. r.active = IF n = 0 THEN 1
                   ELSE IF s.active > n THEN n
                   ELSE IF i <= s.active /\ s.active > 1 THEN s.active - 1
                   ELSE s.active
    BY DEF Closed
  <2> HIDE DEF r, n
  <2>2. n = 0 => s.active = 1
    BY <1>1
  <2>3. s.active > n => s.active = n + 1 /\ i <= s.active /\ s.active - 1 = n
    BY <1>1
  <2>4. n # 0 /\ s.active > n => s.active > 1
    BY <1>1
  <2> QED BY <2>1, <2>2, <2>3, <2>4
<1>5. p = [k \in 1 .. n |-> p[k]]
  OBVIOUS
<1> HIDE DEF n, p, r
<1>6. Draws(p, n, s.tabs)
  <2>1. \A k \in 1 .. n : p[k] \in DOMAIN s.tabs
    BY <1>1, <1>2
  <2>2. p \in [1 .. n -> DOMAIN s.tabs]
    BY <1>5, <2>1
  <2>3. \A k, l \in 1 .. n : p[k] = p[l] => k = l
    BY <1>1, <1>2
  <2> QED BY <1>1, <2>2, <2>3 DEF Draws
<1>7. /\ r.tabs \in Seq(Sane) /\ Len(r.tabs) = n /\ DOMAIN r.tabs = 1 .. n
      /\ \A k \in 1 .. n : r.tabs[k] = s.tabs[p[k]]
      /\ Differ(r.tabs)
  BY <1>1, <1>3, <1>6, DrawnIs
<1>8. Leads(r.tabs)
  <2>1. \A k, l \in 1 .. n : k < l => p[k] < p[l]
    BY <1>1, <1>2
  <2> QED BY <1>1, <1>3, <1>6, <2>1, DrawnLeads
<1>9. Follows(s, r)
  <2>1. ASSUME NEW k \in 1 .. n, p[k] = s.active
        PROVE  r.active \in 1 .. n /\ p[r.active] = s.active
    <3>1. r.active = k
      BY <1>1, <1>2, <1>4, <2>1
    <3> QED BY <2>1, <3>1
  <2> QED BY <1>1, <1>3, <1>6, <2>1, DrawnFollows
<1>10. r.active \in 1 .. (IF r.tabs = <<>> THEN 1 ELSE Len(r.tabs))
  <2>1. CASE n = 0
    <3>1. r.tabs = <<>>
      BY <1>7, <2>1, EmptySeq
    <3>2. r.active = 1
      BY <1>1, <1>4, <2>1
    <3> QED BY <3>1, <3>2
  <2>2. CASE n # 0
    <3>1. r.tabs # <<>>
      BY <1>7, <2>2, EmptySeq
    <3>2. r.active \in 1 .. n
      BY <1>1, <1>4, <2>2
    <3> QED BY <1>7, <3>1, <3>2
  <2> QED BY <2>1, <2>2
<1>11. \A k \in 1 .. i - 1 : r.tabs[k] = s.tabs[k]
  <2>1. \A k \in 1 .. i - 1 : k \in 1 .. n /\ p[k] = k
    BY <1>1, <1>2
  <2> QED BY <1>7, <2>1
<1>12. ASSUME NEW k \in DOMAIN s.tabs \ {i} PROVE s.tabs[k].name \in NamesOf(r.tabs)
  <2>1. PICK l \in 1 .. n : p[l] = k
    <3>1. CASE k < i
      BY <1>1, <1>2, <3>1
    <3>2. CASE i < k
      <4>1. k - 1 \in 1 .. n /\ p[k - 1] = k
        BY <1>1, <1>2, <3>2
      <4> QED BY <4>1
    <3> QED BY <1>1, <3>1, <3>2
  <2> QED BY <1>7, <2>1 DEF NamesOf
<1>13. Sound(r)
  BY <1>7, <1>8, <1>10 DEF Sound
<1> QED BY <1>7, <1>9, <1>11, <1>12, <1>13 DEF n, r

\* From right to left: what holds at the end and passes to the left holds.
LEMMA Leftwards ==
  ASSUME NEW lo \in Nat, NEW hi \in Nat, NEW G, hi \in G,
         \A i \in lo .. hi - 1 : i + 1 \in G => i \in G
  PROVE  \A i \in lo .. hi : i \in G
<1> DEFINE R == OpToRel(<, Nat)
           bad == {d \in Nat : d <= hi - lo /\ hi - d \notin G}
<1>1. IsWellFoundedOn(R, Nat)
  BY NatLessThanWellFounded
<1>2. \A i, j \in Nat : <<i, j>> \in R <=> i < j
  BY DEF OpToRel
<1> HIDE DEF R
<1>3. bad = {}
  <2> SUFFICES ASSUME bad # {} PROVE FALSE
    OBVIOUS
  <2>1. PICK d \in bad : \A e \in bad : ~(<<e, d>> \in R)
    <3>1. bad \subseteq Nat
      OBVIOUS
    <3> HIDE DEF bad
    <3> QED BY <1>1, <3>1, WFMin
  <2>2. d \in Nat /\ d <= hi - lo /\ hi - d \notin G
    BY <2>1
  <2>3. d # 0
    BY <2>2
  <2>4. d - 1 \in Nat /\ d - 1 <= hi - lo /\ d - 1 < d
    BY <2>2, <2>3
  <2>5. d - 1 \notin bad
    <3> HIDE DEF bad
    <3> QED BY <1>2, <2>1, <2>2, <2>4
  <2>6. hi - (d - 1) \in G
    BY <2>4, <2>5
  <2>7. hi - d \in lo .. hi - 1 /\ hi - d + 1 = hi - (d - 1)
    BY <2>2, <2>3
  <2> QED BY <2>2, <2>6, <2>7
<1>4. ASSUME NEW i \in lo .. hi PROVE i \in G
  <2>1. hi - i \in Nat /\ hi - i <= hi - lo /\ hi - (hi - i) = i
    OBVIOUS
  <2>2. hi - i \notin bad
    BY <1>3
  <2> QED BY <2>1, <2>2
<1> QED BY <1>4

\* What ClosedAll does with the tab at index i, the strip at its right done.
Shut(s, keep, t, i) ==
    IF i # keep /\ ~s.tabs[i].pinned THEN Closed(t, i) ELSE t
Closing(f, s, from, to, keep) ==
    f = [i \in from .. to + 1 |->
            IF i = to + 1 THEN s ELSE Shut(s, keep, f[i + 1], i)]

LEMMA ClosingExists ==
  ASSUME NEW s, NEW keep, NEW from \in Nat, NEW to \in Nat, from <= to + 1
  PROVE  \E f : Closing(f, s, from, to, keep)
<1> DEFINE G == {j \in from .. to + 1 : \E f : Closing(f, s, j, to, keep)}
<1>1. to + 1 \in G
  <2> DEFINE g == [i \in to + 1 .. to + 1 |-> s]
  <2>1. g = [i \in to + 1 .. to + 1 |->
               IF i = to + 1 THEN s ELSE Shut(s, keep, g[i + 1], i)]
    <3>1. \A i \in to + 1 .. to + 1 : i = to + 1
      OBVIOUS
    <3>2. \A i \in to + 1 .. to + 1 :
            s = IF i = to + 1 THEN s ELSE Shut(s, keep, g[i + 1], i)
      BY <3>1
    <3> QED BY <3>2
  <2>2. Closing(g, s, to + 1, to, keep)
    BY <2>1 DEF Closing
  <2>3. to + 1 \in from .. to + 1
    OBVIOUS
  <2> HIDE DEF g
  <2> QED BY <2>2, <2>3
<1>2. ASSUME NEW j \in from .. to, j + 1 \in G PROVE j \in G
  <2>1. PICK f : Closing(f, s, j + 1, to, keep)
    BY <1>2
  <2> DEFINE dom == j + 1 .. to + 1
             g == [i \in j .. to + 1 |->
                     IF i = j THEN Shut(s, keep, f[j + 1], j) ELSE f[i]]
  <2>2. \A i \in dom :
           f[i] = IF i = to + 1 THEN s ELSE Shut(s, keep, f[i + 1], i)
    <3>1. f = [i \in dom |->
                 IF i = to + 1 THEN s ELSE Shut(s, keep, f[i + 1], i)]
      BY <2>1 DEF Closing
    <3> HIDE DEF dom
    <3> QED BY <3>1
  <2>3. \A i \in dom : g[i] = f[i]
    OBVIOUS
  <2>4. ASSUME NEW i \in j .. to + 1
        PROVE  g[i] = IF i = to + 1 THEN s ELSE Shut(s, keep, g[i + 1], i)
    <3>1. CASE i = j
      <4>1. j + 1 \in dom /\ i # to + 1
        BY <3>1
      <4>2. g[i] = Shut(s, keep, f[j + 1], j)
        BY <3>1
      <4> HIDE DEF g, dom
      <4> QED BY <2>3, <3>1, <4>1, <4>2
    <3>2. CASE i # j
      <4>1. i \in dom /\ (i # to + 1 => i + 1 \in dom)
        BY <3>2
      <4> HIDE DEF g, dom
      <4> QED BY <2>2, <2>3, <4>1
    <3> QED BY <3>1, <3>2
  <2>5. g = [i \in j .. to + 1 |-> g[i]]
    OBVIOUS
  <2>6. Closing(g, s, j, to, keep)
    <3> HIDE DEF g
    <3> QED BY <2>4, <2>5 DEF Closing
  <2>7. j \in from .. to + 1
    OBVIOUS
  <2> HIDE DEF g
  <2> QED BY <2>6, <2>7
<1>3. from \in G
  <2> HIDE DEF G
  <2>1. \A i \in from .. to + 1 : i \in G
    BY <1>1, <1>2, Leftwards
  <2> QED BY <2>1
<1> QED BY <1>3

LEMMA FollowsTwice ==
  ASSUME NEW s, NEW t, NEW r, Follows(s, t), Follows(t, r)
  PROVE  Follows(s, r)
<1>1. NamesOf(r.tabs) \subseteq NamesOf(s.tabs)
  BY DEF Follows
<1>2. ASSUME FrontOf(s) \in NamesOf(r.tabs) PROVE FrontOf(r) = FrontOf(s)
  <2>1. FrontOf(s) \in NamesOf(t.tabs) /\ FrontOf(t) = FrontOf(s)
    BY <1>2 DEF Follows
  <2> QED BY <1>2, <2>1 DEF Follows
<1> QED BY <1>1, <1>2 DEF Follows

LEMMA FollowsItself ==
  ASSUME NEW s
  PROVE  Follows(s, s)
BY DEF Follows

LEMMA ClosedAllIs ==
  ASSUME NEW s, Sound(s), NEW from \in Nat \ {0}, NEW to \in Nat,
         from <= to + 1, to <= Len(s.tabs), NEW keep
  PROVE  LET r == ClosedAll(s, from, to, keep) IN
         /\ Sound(r) /\ Follows(s, r)
         /\ keep \in DOMAIN s.tabs => s.tabs[keep].name \in NamesOf(r.tabs)
<1> DEFINE c == CHOOSE f : Closing(f, s, from, to, keep)
           Good(t, i) ==
               /\ Sound(t) /\ Follows(s, t)
               /\ \A k \in 1 .. i - 1 : k \in DOMAIN t.tabs /\ t.tabs[k] = s.tabs[k]
               /\ keep \in DOMAIN s.tabs => s.tabs[keep].name \in NamesOf(t.tabs)
           G == {i \in from .. to + 1 : Good(c[i], i)}
<1>1. /\ \A i \in from .. to : c[i] = Shut(s, keep, c[i + 1], i)
      /\ c[to + 1] = s
  <2>1. Closing(c, s, from, to, keep)
    BY ClosingExists
  <2> HIDE DEF c
  <2> DEFINE dom == from .. to + 1
  <2>2. c = [i \in dom |-> IF i = to + 1 THEN s ELSE Shut(s, keep, c[i + 1], i)]
    BY <2>1 DEF Closing
  <2>3. to + 1 \in dom /\ \A i \in from .. to : i \in dom /\ i # to + 1
    OBVIOUS
  <2> HIDE DEF dom
  <2> QED BY <2>2, <2>3
<1>2. ClosedAll(s, from, to, keep) = c[from]
  BY DEF ClosedAll, Closing, Shut
<1>3. to + 1 \in G
  <2>1. Len(s.tabs) \in Nat /\ DOMAIN s.tabs = 1 .. Len(s.tabs)
    BY SoundIndex
  <2>2. \A k \in 1 .. to + 1 - 1 : k \in DOMAIN s.tabs
    BY <2>1
  <2>3. keep \in DOMAIN s.tabs => s.tabs[keep].name \in NamesOf(s.tabs)
    BY DEF NamesOf
  <2>4. Good(s, to + 1)
    BY <2>2, <2>3, FollowsItself
  <2>5. to + 1 \in from .. to + 1
    OBVIOUS
  <2> HIDE DEF c, Good
  <2> QED BY <1>1, <2>4, <2>5
<1> HIDE DEF c
<1>4. ASSUME NEW i \in from .. to, i + 1 \in G PROVE i \in G
  <2> DEFINE t == c[i + 1]
  <2>1. Good(t, i + 1)
    BY <1>4
  <2>2. i \in from .. to + 1 /\ i \in Nat /\ i \in 1 .. i + 1 - 1
    OBVIOUS
  <2>3. /\ Sound(t) /\ Follows(s, t)
        /\ \A k \in 1 .. i : k \in DOMAIN t.tabs /\ t.tabs[k] = s.tabs[k]
        /\ keep \in DOMAIN s.tabs => s.tabs[keep].name \in NamesOf(t.tabs)
    BY <2>1
  <2>4. c[i] = Shut(s, keep, t, i)
    BY <1>1
  <2> HIDE DEF t, G
  <2>5. CASE i # keep /\ ~s.tabs[i].pinned
    <3> DEFINE r == Closed(t, i)
    <3>1. i \in DOMAIN t.tabs
      BY <2>2, <2>3
    <3>2. /\ Sound(r) /\ Follows(t, r)
          /\ \A k \in 1 .. i - 1 : r.tabs[k] = t.tabs[k]
          /\ Len(r.tabs) = Len(t.tabs) - 1
          /\ \A k \in DOMAIN t.tabs \ {i} : t.tabs[k].name \in NamesOf(r.tabs)
      BY <2>3, <3>1, ClosedIs
    <3> HIDE DEF r
    <3>3. Follows(s, r)
      BY <2>3, <3>2, FollowsTwice
    <3>4. \A k \in 1 .. i - 1 : k \in DOMAIN r.tabs /\ r.tabs[k] = s.tabs[k]
      <4>1. DOMAIN r.tabs = 1 .. Len(r.tabs) /\ DOMAIN t.tabs = 1 .. Len(t.tabs)
            /\ Len(t.tabs) \in Nat
        BY <2>3, <3>2, SoundIndex
      <4>2. i <= Len(t.tabs)
        BY <3>1, <4>1
      <4>3. \A k \in 1 .. i - 1 : k \in 1 .. i /\ k \in 1 .. Len(r.tabs)
        BY <2>2, <3>2, <4>1, <4>2
      <4> QED BY <2>3, <3>2, <4>1, <4>3
    <3>5. ASSUME keep \in DOMAIN s.tabs PROVE s.tabs[keep].name \in NamesOf(r.tabs)
      <4>1. PICK k \in DOMAIN t.tabs : t.tabs[k].name = s.tabs[keep].name
        BY <2>3, <3>5 DEF NamesOf
      <4>2. k # i
        <5>1. i \in DOMAIN s.tabs
          <6>1. DOMAIN s.tabs = 1 .. Len(s.tabs) /\ Len(s.tabs) \in Nat
            BY SoundIndex
          <6> QED BY <2>2, <6>1
        <5>2. t.tabs[i] = s.tabs[i] /\ Differ(s.tabs)
          BY <2>2, <2>3, SoundIndex
        <5> QED BY <2>5, <3>5, <4>1, <5>1, <5>2 DEF Differ
      <4> QED BY <3>2, <4>1, <4>2
    <3>6. Good(r, i)
      BY <3>2, <3>3, <3>4, <3>5
    <3>7. c[i] = r
      BY <2>4, <2>5 DEF Shut, r
    <3> QED BY <2>2, <3>6, <3>7 DEF G
  <2>6. CASE ~(i # keep /\ ~s.tabs[i].pinned)
    <3>1. c[i] = t
      BY <2>4, <2>6 DEF Shut
    <3>2. \A k \in 1 .. i - 1 : k \in 1 .. i
      BY <2>2
    <3>3. Good(t, i)
      BY <2>3, <3>2
    <3> QED BY <2>2, <3>1, <3>3 DEF G
  <2> QED BY <2>5, <2>6
<1>5. from \in G
  <2> HIDE DEF G
  <2> DEFINE end == to + 1
  <2>1. from \in Nat /\ end \in Nat /\ end - 1 = to
    OBVIOUS
  <2>2. \A i \in from .. end - 1 : i + 1 \in G => i \in G
    BY <1>4, <2>1
  <2>3. end \in G
    BY <1>3
  <2> HIDE DEF end
  <2>4. \A i \in from .. end : i \in G
    BY <2>1, <2>2, <2>3, Leftwards
  <2> QED BY <2>1, <2>4 DEF end
<1>6. Good(c[from], from)
  BY <1>5
<1> QED BY <1>2, <1>6

\* sort_pinned_stable only rearranges the strip, and puts pinned tabs first.
LEMMA ClusteredIs ==
  ASSUME NEW s, s.tabs \in Seq(Sane), Differ(s.tabs), s.active \in DOMAIN s.tabs
  PROVE  Sound(Clustered(s)) /\ Follows(s, Clustered(s))
<1> DEFINE ts == s.tabs
           P == {i \in DOMAIN ts : ts[i].pinned}
           Q == {i \in DOMAIN ts : ~ts[i].pinned}
           a == Cardinality(P)
           b == Cardinality(Q)
           o == InOrder(P) \o InOrder(Q)
           r == Clustered(s)
<1>1. /\ Places(P) /\ Places(Q) /\ P \cup Q = DOMAIN ts /\ P \cap Q = {}
      /\ a \in Nat /\ b \in Nat
      /\ P \subseteq DOMAIN ts /\ Q \subseteq DOMAIN ts
  <2>1. IsFiniteSet(DOMAIN ts) /\ DOMAIN ts \subseteq Nat
    BY FS_Interval
  <2> QED BY <2>1, FS_Subset, FS_CardinalityType DEF Places
<1>2. ts \in Seq(Sane) /\ DOMAIN ts \subseteq Nat
  OBVIOUS
<1> HIDE DEF ts, a, b
<1>3. /\ InOrder(P) \in [1 .. a -> P]
      /\ \A i \in P : \E k \in 1 .. a : InOrder(P)[k] = i
      /\ \A k, l \in 1 .. a : k < l => InOrder(P)[k] < InOrder(P)[l]
  BY <1>1, InOrderIs DEF a
<1>4. /\ InOrder(Q) \in [1 .. b -> Q]
      /\ \A i \in Q : \E k \in 1 .. b : InOrder(Q)[k] = i
      /\ \A k, l \in 1 .. b : k < l => InOrder(Q)[k] < InOrder(Q)[l]
  BY <1>1, InOrderIs DEF b
<1>5. /\ o \in Seq(DOMAIN ts) /\ Len(o) = a + b
      /\ \A k \in 1 .. a + b :
           o[k] = IF k <= a THEN InOrder(P)[k] ELSE InOrder(Q)[k - a]
  <2> HIDE DEF P, Q
  <2>1. InOrder(P) \in Seq(DOMAIN ts) /\ Len(InOrder(P)) = a
    BY <1>1, <1>3
  <2>2. InOrder(Q) \in Seq(DOMAIN ts) /\ Len(InOrder(Q)) = b
    BY <1>1, <1>4
  <2> QED BY <2>1, <2>2, ConcatProperties
<1> HIDE DEF o
<1> DEFINE n == a + b
<1>6. n \in Nat /\ o \in [1 .. n -> DOMAIN ts] /\ DOMAIN o = 1 .. n
  BY <1>1, <1>5
<1>7. \A k \in 1 .. n : /\ k <= a => o[k] = InOrder(P)[k] /\ k \in 1 .. a
                        /\ ~(k <= a) => o[k] = InOrder(Q)[k - a] /\ k - a \in 1 .. b
  <2>1. \A k \in 1 .. n : /\ k <= a => k \in 1 .. a
                          /\ ~(k <= a) => k - a \in 1 .. b
    BY <1>1
  <2> HIDE DEF P, Q
  <2> QED BY <1>5, <2>1
<1>8. \A k \in 1 .. n : /\ k <= a => o[k] \in P
                        /\ ~(k <= a) => o[k] \in Q
  <2> HIDE DEF P, Q, n
  <2> QED BY <1>3, <1>4, <1>7
<1>9. \A k, l \in 1 .. n : o[k] = o[l] => k = l
  <2> SUFFICES ASSUME NEW k \in 1 .. n, NEW l \in 1 .. n, o[k] = o[l], k < l
               PROVE  FALSE
    BY <1>6
  <2>1. o[k] \in Nat /\ o[l] \in Nat /\ ~(o[k] < o[l])
    BY <1>2, <1>6
  <2> HIDE DEF P, Q
  <2>2. CASE l <= a
    <3>1. k <= a
      BY <1>1, <2>2
    <3>2. InOrder(P)[k] < InOrder(P)[l]
      BY <1>3, <1>7, <2>2, <3>1
    <3> QED BY <1>7, <2>1, <2>2, <3>1, <3>2
  <2>3. CASE k <= a /\ ~(l <= a)
    <3>1. o[k] \in P /\ o[l] \in Q
      BY <1>8, <2>3
    <3> QED BY <1>1, <3>1
  <2>4. CASE ~(k <= a) /\ ~(l <= a)
    <3>1. k - a < l - a /\ k - a \in 1 .. b /\ l - a \in 1 .. b
      BY <1>1, <1>7, <2>4
    <3>2. InOrder(Q)[k - a] < InOrder(Q)[l - a]
      BY <1>4, <3>1
    <3> QED BY <1>7, <2>1, <2>4, <3>2
  <2>5. ~(k <= a) => ~(l <= a)
    BY <1>1
  <2> QED BY <2>2, <2>3, <2>4, <2>5
<1>10. ASSUME NEW i \in DOMAIN ts PROVE \E k \in 1 .. n : o[k] = i
  <2>1. CASE i \in P
    <3>1. PICK k \in 1 .. a : InOrder(P)[k] = i
      BY <1>3, <2>1
    <3>2. k \in 1 .. n /\ k <= a
      BY <1>1
    <3> HIDE DEF n, P
    <3> QED BY <1>7, <3>1, <3>2
  <2>2. CASE i \in Q
    <3>1. PICK k \in 1 .. b : InOrder(Q)[k] = i
      BY <1>4, <2>2
    <3>2. k + a \in 1 .. n /\ ~(k + a <= a) /\ (k + a) - a = k
      BY <1>1
    <3> HIDE DEF n, Q
    <3>3. o[k + a] = InOrder(Q)[(k + a) - a]
      BY <1>7, <3>2
    <3> QED BY <3>1, <3>2, <3>3
  <2> QED BY <1>1, <2>1, <2>2
<1> HIDE DEF n
<1>11. Draws(o, n, ts) /\ Differ(ts)
  BY <1>6, <1>9 DEF Draws, ts
<1>12. r.tabs = Drawn(ts, o, n)
       /\ r.active = CHOOSE k \in DOMAIN o : o[k] = s.active
  BY <1>6 DEF Clustered, Drawn, o, P, Q, ts
<1> HIDE DEF r, P, Q
<1>13. r.active \in 1 .. n /\ o[r.active] = s.active
  BY <1>6, <1>10, <1>12 DEF ts
<1>14. /\ r.tabs \in Seq(Sane) /\ Len(r.tabs) = n /\ DOMAIN r.tabs = 1 .. n
       /\ \A k \in 1 .. n : r.tabs[k] = ts[o[k]]
       /\ Differ(r.tabs)
  BY <1>2, <1>11, <1>12, DrawnIs
<1>15. Leads(r.tabs)
  <2>1. ASSUME NEW k \in 1 .. n, NEW l \in 1 .. n, k < l, r.tabs[l].pinned
        PROVE  r.tabs[k].pinned
    <3>1. ts[o[l]].pinned
      BY <1>14, <2>1
    <3>2. o[l] \notin Q
      BY <3>1 DEF Q
    <3>3. l <= a
      BY <1>8, <3>2
    <3>4. k <= a
      BY <1>1, <1>6, <2>1, <3>3
    <3>5. o[k] \in P
      BY <1>8, <3>4
    <3>6. ts[o[k]].pinned
      BY <3>5 DEF P
    <3> QED BY <1>14, <3>6
  <2> QED BY <1>14, <2>1 DEF Leads
<1>16. r.tabs # <<>>
  BY <1>6, <1>13, <1>14
<1>17. Sound(r)
  BY <1>13, <1>14, <1>15, <1>16 DEF Sound
<1>18. Follows(s, r)
  BY <1>2, <1>11, <1>12, <1>13, DrawnFollows DEF ts
<1> QED BY <1>17, <1>18 DEF r

\* move_tab
Shift(from, to) ==
    [k \in Nat |-> IF k < to THEN Hole(from)[k]
                   ELSE IF k = to THEN from ELSE Hole(from)[k - 1]]

LEMMA MovedIs ==
  ASSUME NEW s, Sound(s), NEW i \in DOMAIN s.tabs, NEW j \in DOMAIN s.tabs
  PROVE  Sound(Moved(s, i, j)) /\ Follows(s, Moved(s, i, j))
<1> DEFINE ts == s.tabs
           n == Len(ts)
           p == [k \in 1 .. n |-> Shift(i, j)[k]]
           u == [tabs |-> InsertAt(RemoveAt(s.tabs, i), j, s.tabs[i]),
                 active |-> IF s.active = i THEN j
                            ELSE IF i < s.active /\ j >= s.active THEN s.active - 1
                            ELSE IF i > s.active /\ j <= s.active THEN s.active + 1
                            ELSE s.active]
<1>1. /\ ts \in Seq(Sane) /\ Differ(ts)
      /\ DOMAIN ts = 1 .. n /\ n \in Nat /\ i \in 1 .. n /\ j \in 1 .. n
      /\ s.active \in 1 .. n
  BY SoundIndex
<1>2. \A k \in 1 .. n :
        p[k] = IF k < j THEN IF k < i THEN k ELSE k + 1
               ELSE IF k = j THEN i
               ELSE IF k - 1 < i THEN k - 1 ELSE k
  <2>1. \A k \in 1 .. n : k \in Nat /\ (k - 1 \in Nat) /\ k - 1 + 1 = k
    BY <1>1
  <2> QED BY <2>1 DEF Shift, Hole
<1>3. u.tabs = Drawn(ts, p, n)
  <2> DEFINE v == RemoveAt(ts, i)
             w == InsertAt(v, j, ts[i])
  <2>1. v = [k \in 1 .. n - 1 |-> ts[Hole(i)[k]]]
    BY <1>1, RemovedIs
  <2>2. \A k \in 1 .. n - 1 : Hole(i)[k] \in 1 .. n /\ ts[Hole(i)[k]] \in Sane
    <3> HIDE DEF ts, n
    <3>1. \A k \in 1 .. n - 1 : k \in Nat /\ k \in 1 .. n /\ k + 1 \in 1 .. n
      BY <1>1
    <3>2. \A k \in 1 .. n - 1 : Hole(i)[k] \in 1 .. n
      BY <3>1 DEF Hole
    <3> QED BY <1>1, <3>2
  <2> HIDE DEF v, n, ts
  <2>3. v \in Seq(Sane) /\ Len(v) = n - 1
    <3>1. v \in [1 .. n - 1 -> Sane] /\ n - 1 \in Nat
      BY <1>1, <2>1, <2>2
    <3> QED BY <3>1
  <2>4. w = [k \in 1 .. n |->
               IF k < j THEN v[k] ELSE IF k = j THEN ts[i] ELSE v[k - 1]]
    <3>1. Len(v) + 1 = n /\ ts[i] \in Sane
      BY <1>1, <2>3
    <3>2. j \in 1 .. Len(v) + 1
      BY <1>1, <3>1
    <3> DEFINE e == ts[i]
    <3>3. e \in Sane
      BY <3>1
    <3> HIDE DEF e
    <3>4. InsertAt(v, j, e) =
            [k \in 1 .. Len(v) + 1 |->
               IF k < j THEN v[k] ELSE IF k = j THEN e ELSE v[k - 1]]
      BY <2>3, <3>2, <3>3, InsertedIs
    <3> QED BY <3>1, <3>4 DEF e
  <2>5. \A k \in 1 .. n :
          (IF k < j THEN v[k] ELSE IF k = j THEN ts[i] ELSE v[k - 1]) = ts[p[k]]
    <3> SUFFICES ASSUME NEW k \in 1 .. n
                 PROVE  (IF k < j THEN v[k] ELSE IF k = j THEN ts[i]
                         ELSE v[k - 1]) = ts[p[k]]
      OBVIOUS
    <3>1. CASE k < j
      <4>1. k \in 1 .. n - 1 /\ k \in Nat
        BY <1>1, <3>1
      <4>2. v[k] = ts[Hole(i)[k]]
        BY <2>1, <4>1
      <4>3. p[k] = Hole(i)[k]
        BY <3>1, <4>1 DEF Shift
      <4> QED BY <3>1, <4>2, <4>3
    <3>2. CASE k = j
      BY <1>1, <1>2, <3>2
    <3>3. CASE j < k
      <4>1. k - 1 \in 1 .. n - 1 /\ k \in Nat /\ ~(k < j) /\ k # j
        BY <1>1, <3>3
      <4>2. v[k - 1] = ts[Hole(i)[k - 1]]
        BY <2>1, <4>1
      <4>3. p[k] = Hole(i)[k - 1]
        BY <4>1 DEF Shift
      <4> QED BY <4>1, <4>2, <4>3
    <3>4. k < j \/ k = j \/ j < k
      BY <1>1
    <3> QED BY <3>1, <3>2, <3>3, <3>4
  <2> HIDE DEF w, p
  <2>6. w = Drawn(ts, p, n)
    BY <2>4, <2>5 DEF Drawn
  <2> QED BY <2>6 DEF v, w, ts
<1>4. u.active = IF s.active = i THEN j
                 ELSE IF i < s.active /\ j >= s.active THEN s.active - 1
                 ELSE IF i > s.active /\ j <= s.active THEN s.active + 1
                 ELSE s.active
  OBVIOUS
<1>5. p = [k \in 1 .. n |-> p[k]]
  OBVIOUS
<1>6. Moved(s, i, j) = Clustered(u)
  BY DEF Moved
<1> HIDE DEF p, u, n
<1>7. Draws(p, n, ts)
  <2>1. \A k \in 1 .. n : p[k] \in 1 .. n
    BY <1>1, <1>2
  <2>2. \A k, l \in 1 .. n : p[k] = p[l] => k = l
    BY <1>1, <1>2
  <2>3. p \in [1 .. n -> DOMAIN ts]
    BY <1>1, <1>5, <2>1
  <2> QED BY <1>1, <2>2, <2>3 DEF Draws
<1>8. u.active \in 1 .. n /\ p[u.active] = s.active
  <2>1. u.active \in 1 .. n
    BY <1>1, <1>4
  <2> QED BY <1>1, <1>2, <1>4, <2>1
<1>9. u.tabs \in Seq(Sane) /\ DOMAIN u.tabs = 1 .. n /\ Differ(u.tabs)
  BY <1>1, <1>3, <1>7, DrawnIs
<1>10. Follows(s, u)
  BY <1>1, <1>3, <1>7, <1>8, DrawnFollows DEF ts
<1>11. Sound(Clustered(u)) /\ Follows(u, Clustered(u))
  BY <1>8, <1>9, ClusteredIs
<1> QED BY <1>6, <1>10, <1>11, FollowsTwice

-----------------------------------------------------------------------------
(* The snapshot.                                                           *)

LEMMA BodyIsKept ==
  ASSUME NEW ts \in Seq(Sane), Differ(ts), NEW n \in Nat,
         NamesOf(ts) \subseteq 1 .. n, NEW a
  PROVE  Kept(Body(ts, a), n)
<1> DEFINE S == {i \in DOMAIN ts : ts[i].named /\ ts[i].engine # "page"}
           seen == Picked(ts, S)
           b == Body(ts, a).tabs
<1>1. Once(ts)
  BY DEF Differ, Once
<1>2. /\ seen \in Seq(Sane)
      /\ \A k \in DOMAIN seen : \E i \in S : seen[k] = ts[i]
      /\ Once(seen)
  <2>1. S \in SUBSET DOMAIN ts
    OBVIOUS
  <2> HIDE DEF S
  <2> QED BY <1>1, <2>1, PickedIs
<1>3. b = [i \in DOMAIN seen |-> seen[i].name]
  BY DEF Body
<1>4. \A k \in DOMAIN seen : \E i \in DOMAIN ts : seen[k] = ts[i]
  BY <1>2
<1> HIDE DEF S, seen, b
<1>5. \A k \in DOMAIN seen : seen[k].name \in 1 .. n
  BY <1>4 DEF NamesOf
<1>6. b \in Seq(1 .. n) /\ DOMAIN b = DOMAIN seen
  <2>1. Len(seen) \in Nat /\ DOMAIN seen = 1 .. Len(seen)
    BY <1>2
  <2>2. b \in [1 .. Len(seen) -> 1 .. n]
    BY <1>3, <1>5, <2>1
  <2> QED BY <1>3, <2>1, <2>2
<1>7. Once(b)
  <2> SUFFICES ASSUME NEW k \in DOMAIN seen, NEW l \in DOMAIN seen,
                      seen[k].name = seen[l].name
               PROVE  k = l
    BY <1>3, <1>6 DEF Once
  <2>1. PICK i \in DOMAIN ts : seen[k] = ts[i]
    BY <1>4
  <2>2. PICK j \in DOMAIN ts : seen[l] = ts[j]
    BY <1>4
  <2>3. i = j
    BY <2>1, <2>2 DEF Differ
  <2>4. seen[k] = seen[l]
    BY <2>1, <2>2, <2>3
  <2> QED BY <1>2, <2>4 DEF Once
<1> QED BY <1>6, <1>7 DEF Kept, b

LEMMA KeptGrows ==
  ASSUME NEW body, NEW n \in Nat, NEW m \in Nat, n <= m, Kept(body, n)
  PROVE  Kept(body, m)
<1>1. body.tabs \in Seq(1 .. n)
  BY DEF Kept
<1>2. \A k \in DOMAIN body.tabs : body.tabs[k] \in 1 .. m
  <2>1. \A k \in DOMAIN body.tabs : body.tabs[k] \in 1 .. n
    BY <1>1
  <2> QED BY <2>1
<1>3. body.tabs \in Seq(1 .. m)
  <2>1. DOMAIN body.tabs = 1 .. Len(body.tabs) /\ Len(body.tabs) \in Nat
        /\ body.tabs = [k \in DOMAIN body.tabs |-> body.tabs[k]]
    BY <1>1
  <2> DEFINE b == body.tabs
  <2> HIDE DEF b
  <2>2. b \in [1 .. Len(b) -> 1 .. m]
    BY <1>2, <2>1 DEF b
  <2>3. Len(b) \in Nat
    BY <2>1 DEF b
  <2>4. b \in Seq(1 .. m)
    BY <2>2, <2>3
  <2> QED BY <2>4 DEF b
<1> QED BY <1>3 DEF Kept

\* The tabs to restore are some of those kept, each once.
LEMMA ToRestoreIs ==
  ASSUME PanelAssumption, NEW body, NEW n \in Nat, Kept(body, n)
  PROVE  ToRestore(body) \in Seq(1 .. n) /\ Once(ToRestore(body))
<1> DEFINE ts == body.tabs
           A == {i \in DOMAIN ts : ts[i] # body.front}
           F == {i \in DOMAIN ts : ts[i] = body.front}
           rest == Picked(ts, A)
           front == Picked(ts, F)
           room == MaxEager - Len(front)
           cut == IF Len(rest) < room THEN Len(rest) ELSE room
           sub == SubSeq(rest, 1, cut)
<1>1. ts \in Seq(1 .. n) /\ Once(ts)
  BY DEF Kept
<1> HIDE DEF ts
<1>2. /\ rest \in Seq(1 .. n) /\ Once(rest)
      /\ \A k \in DOMAIN rest : \E i \in A : rest[k] = ts[i]
  <2>1. A \in SUBSET DOMAIN ts
    OBVIOUS
  <2> HIDE DEF A
  <2> QED BY <1>1, <2>1, PickedIs
<1>3. /\ front \in Seq(1 .. n) /\ Once(front)
      /\ \A k \in DOMAIN front : \E i \in F : front[k] = ts[i]
  <2>1. F \in SUBSET DOMAIN ts
    OBVIOUS
  <2> HIDE DEF F
  <2> QED BY <1>1, <2>1, PickedIs
<1>4. /\ \A k \in DOMAIN rest : rest[k] # body.front
      /\ \A k \in DOMAIN front : front[k] = body.front
  BY <1>2, <1>3
<1>5. ToRestore(body) = sub \o front
  BY DEF ToRestore, ts
<1> HIDE DEF rest, front
<1>6. Len(front) \in {0, 1}
  <2>1. Len(front) \in Nat /\ DOMAIN front = 1 .. Len(front)
    BY <1>3
  <2>2. ASSUME Len(front) > 1 PROVE FALSE
    <3>1. 1 \in DOMAIN front /\ 2 \in DOMAIN front
      BY <2>1, <2>2
    <3>2. front[1] = front[2]
      BY <1>4, <3>1
    <3>3. 1 = 2
      BY <1>3, <3>1, <3>2 DEF Once
    <3> QED BY <3>3
  <2> QED BY <2>1, <2>2
<1>7. Len(rest) \in Nat /\ DOMAIN rest = 1 .. Len(rest)
  BY <1>2
<1>8. cut \in 0 .. Len(rest)
  <2>1. MaxEager \in Nat /\ MaxEager > 0
    BY DEF PanelAssumption
  <2>2. room \in Nat
    BY <1>6, <2>1
  <2> HIDE DEF room
  <2> QED BY <1>7, <2>2
<1> HIDE DEF cut
<1>9. /\ sub \in Seq(1 .. n) /\ Len(sub) = cut
      /\ \A k \in 1 .. cut : sub[k] = rest[k] /\ k \in DOMAIN rest
  <2>1. \A k \in 1 .. cut : k \in DOMAIN rest /\ rest[k] \in 1 .. n
    BY <1>2, <1>7, <1>8
  <2>2. cut \in Int /\ cut - 1 + 1 = cut /\ (1 <= cut \/ cut = 0)
    BY <1>7, <1>8
  <2>3. /\ sub \in Seq(1 .. n)
        /\ Len(sub) = IF 1 <= cut THEN cut - 1 + 1 ELSE 0
        /\ \A k \in 1 .. cut - 1 + 1 : sub[k] = rest[1 + k - 1]
    BY <2>1, <2>2, SubSeqProperties
  <2>4. \A k \in 1 .. cut : 1 + k - 1 = k
    BY <2>2
  <2> HIDE DEF sub
  <2> QED BY <2>1, <2>2, <2>3, <2>4
<1> HIDE DEF sub
<1> DEFINE all == sub \o front
<1>10. /\ all \in Seq(1 .. n) /\ DOMAIN all = 1 .. cut + Len(front)
       /\ \A k \in 1 .. cut + Len(front) :
            all[k] = IF k <= cut THEN sub[k] ELSE front[k - cut]
  <2>1. /\ all \in Seq(1 .. n) /\ Len(all) = cut + Len(front)
        /\ \A k \in 1 .. cut + Len(front) :
             all[k] = IF k <= cut THEN sub[k] ELSE front[k - cut]
    <3> DEFINE T == 1 .. n
    <3>1. sub \in Seq(T) /\ front \in Seq(T) /\ Len(sub) = cut
      BY <1>3, <1>9
    <3> HIDE DEF T
    <3>2. /\ sub \o front \in Seq(T)
          /\ Len(sub \o front) = Len(sub) + Len(front)
          /\ \A k \in 1 .. Len(sub) + Len(front) :
               (sub \o front)[k] =
                 IF k <= Len(sub) THEN sub[k] ELSE front[k - Len(sub)]
      BY <3>1, ConcatProperties
    <3> QED BY <3>1, <3>2 DEF T
  <2> HIDE DEF all
  <2> QED BY <2>1
<1> HIDE DEF all
<1>11. Once(all)
  <2> SUFFICES ASSUME NEW k \in 1 .. cut + Len(front), NEW l \in 1 .. cut + Len(front),
                      all[k] = all[l], k < l
               PROVE  FALSE
    <3>1. cut + Len(front) \in Nat
      BY <1>6, <1>7, <1>8
    <3>2. \A k, l \in 1 .. cut + Len(front) : k < l \/ l < k \/ k = l
      BY <3>1
    <3> QED BY <1>10, <3>2 DEF Once
  <2>1. cut \in Nat /\ k \in Nat /\ l \in Nat
    BY <1>6, <1>7, <1>8
  <2>2. CASE l <= cut
    <3>1. k \in 1 .. cut /\ l \in 1 .. cut /\ k <= cut /\ k # l
      BY <2>1, <2>2
    <3>2. rest[k] = rest[l] /\ k \in DOMAIN rest /\ l \in DOMAIN rest
      BY <1>9, <1>10, <3>1, <2>2
    <3> QED BY <1>2, <3>1, <3>2 DEF Once
  <2>3. CASE k <= cut /\ ~(l <= cut)
    <3>1. k \in 1 .. cut /\ l - cut \in 1 .. Len(front)
      BY <1>6, <2>1, <2>3
    <3>2. all[k] = rest[k] /\ k \in DOMAIN rest
      BY <1>9, <1>10, <2>3, <3>1
    <3>3. all[l] = front[l - cut] /\ l - cut \in DOMAIN front
      BY <1>3, <1>10, <2>3, <3>1
    <3> QED BY <1>4, <3>2, <3>3
  <2>4. CASE ~(k <= cut)
    <3>1. Len(front) = 1 => k = cut + 1 /\ l = cut + 1
      BY <2>1, <2>4
    <3>2. Len(front) = 0 => FALSE
      BY <2>1, <2>4
    <3> QED BY <1>6, <2>1, <3>1, <3>2
  <2> QED BY <2>1, <2>2, <2>3, <2>4
<1> QED BY <1>5, <1>10, <1>11 DEF all

-----------------------------------------------------------------------------
(* What every step of the panel does to the strip and to the snapshot.     *)

LEMMA SaneTab ==
  ASSUME PanelAssumption, NEW t \in Sane
  PROVE  /\ t \in Tab
         /\ t.engine = "hidden" => t.told = "hidden"
         /\ Used(t) \in Sane
         /\ Used(t).name = t.name /\ Used(t).pinned = t.pinned
         /\ Used(t).engine = t.engine
<1> DEFINE u == Used(t)
<1>1. /\ t \in Tab
      /\ t.engine = "hidden" => t.told = "hidden"
  BY DEF Sane
<1>2. u = [t EXCEPT !.idle = FALSE, !.asleep = FALSE, !.wait = 0]
  BY DEF Used
<1>3. 0 \in 0 .. PollEvery
  BY DEF PanelAssumption
<1> HIDE DEF u
<1>4. u \in Tab
  BY <1>1, <1>2, <1>3 DEF Tab
<1>5. /\ u.name = t.name /\ u.pinned = t.pinned /\ u.engine = t.engine
      /\ u.told = t.told
  BY <1>1, <1>2 DEF Tab
<1>6. u \in Sane
  BY <1>1, <1>4, <1>5 DEF Sane
<1> QED BY <1>1, <1>5, <1>6 DEF u

LEMMA FreshIs ==
  ASSUME PanelAssumption, NEW n \in Names
  PROVE  /\ Fresh(n) \in Sane /\ Fresh(n).name = n /\ ~Fresh(n).pinned
         /\ [Fresh(n) EXCEPT !.engine = "page"] \in Sane
         /\ [Fresh(n) EXCEPT !.engine = "page"].name = n
         /\ ~[Fresh(n) EXCEPT !.engine = "page"].pinned
<1> DEFINE t == Fresh(n)
           u == [t EXCEPT !.engine = "page"]
<1>1. 0 \in 0 .. PollEvery
  BY DEF PanelAssumption
<1>2. t \in Tab /\ t.engine = "shown" /\ t.name = n /\ ~t.pinned
  BY <1>1 DEF Tab, Fresh
<1> HIDE DEF t
<1>3. u \in Tab /\ u.engine = "page" /\ u.name = n /\ ~u.pinned
  BY <1>2 DEF Tab
<1>4. t \in Sane /\ u \in Sane
  BY <1>2, <1>3 DEF Sane
<1> QED BY <1>2, <1>3, <1>4 DEF t

\* Tabs may change what they do as long as they stay who and where they are.
LEMMA AlikeIs ==
  ASSUME NEW s, Sound(s), NEW r, r.tabs \in Seq(Sane),
         DOMAIN r.tabs = DOMAIN s.tabs,
         \A k \in DOMAIN s.tabs : /\ r.tabs[k].name = s.tabs[k].name
                                  /\ r.tabs[k].pinned = s.tabs[k].pinned,
         r.active = s.active \/ r.active \in DOMAIN s.tabs
  PROVE  /\ Sound(r) /\ NamesOf(r.tabs) = NamesOf(s.tabs)
         /\ r.active = s.active => Follows(s, r)
<1>1. Leads(r.tabs) /\ Differ(r.tabs)
  <2>1. Leads(s.tabs) /\ Differ(s.tabs)
    BY DEF Sound
  <2> QED BY <2>1 DEF Leads, Differ
<1>2. NamesOf(r.tabs) = NamesOf(s.tabs)
  BY DEF NamesOf
<1>3. r.active = s.active => FrontOf(r) = FrontOf(s)
  BY DEF FrontOf
<1>4. r.active \in 1 .. (IF r.tabs = <<>> THEN 1 ELSE Len(r.tabs))
  <2>1. /\ Len(s.tabs) \in Nat /\ DOMAIN s.tabs = 1 .. Len(s.tabs)
        /\ s.tabs = <<>> => s.active = 1
        /\ s.tabs # <<>> => s.active \in DOMAIN s.tabs
        /\ s.tabs = <<>> <=> Len(s.tabs) = 0
    BY SoundIndex
  <2>2. DOMAIN r.tabs = 1 .. Len(r.tabs) /\ Len(r.tabs) \in Nat
        /\ (r.tabs = <<>> <=> Len(r.tabs) = 0)
    BY EmptySeq
  <2>3. Len(r.tabs) = Len(s.tabs)
    BY <2>1, <2>2
  <2>4. CASE Len(s.tabs) = 0
    <3>1. r.active \notin DOMAIN s.tabs
      BY <2>1, <2>4
    <3>2. r.active = 1 /\ r.tabs = <<>>
      BY <2>1, <2>2, <2>3, <2>4, <3>1
    <3> QED BY <3>2
  <2>5. CASE Len(s.tabs) # 0
    <3>1. r.active \in 1 .. Len(r.tabs) /\ r.tabs # <<>>
      BY <2>1, <2>2, <2>3, <2>5
    <3> QED BY <3>1
  <2> QED BY <2>4, <2>5
<1> QED BY <1>1, <1>2, <1>3, <1>4 DEF Sound, Follows

\* The tab at index i becomes t.
LEMMA ChangedIs ==
  ASSUME NEW s, Sound(s), NEW i \in DOMAIN s.tabs, NEW t \in Sane,
         t.name = s.tabs[i].name, t.pinned = s.tabs[i].pinned,
         NEW r, r.tabs = [s.tabs EXCEPT ![i] = t],
         r.active = s.active \/ r.active \in DOMAIN s.tabs
  PROVE  /\ Sound(r) /\ NamesOf(r.tabs) = NamesOf(s.tabs)
         /\ DOMAIN r.tabs = DOMAIN s.tabs
         /\ r.active = s.active => Follows(s, r)
<1>1. s.tabs \in Seq(Sane)
  BY DEF Sound
<1>2. r.tabs \in Seq(Sane) /\ DOMAIN r.tabs = DOMAIN s.tabs
  BY <1>1
<1>3. \A k \in DOMAIN s.tabs : r.tabs[k] = IF k = i THEN t ELSE s.tabs[k]
  BY <1>1
<1>4. \A k \in DOMAIN s.tabs : /\ r.tabs[k].name = s.tabs[k].name
                               /\ r.tabs[k].pinned = s.tabs[k].pinned
  BY <1>3
<1> QED BY <1>2, <1>4, AlikeIs

LEMMA PushIs ==
  ASSUME NEW s, Sound(s), NEW t \in Sane, ~t.pinned, t.name \notin NamesOf(s.tabs)
  PROVE  /\ Sound(Push(s, t))
         /\ NamesOf(Push(s, t).tabs) = NamesOf(s.tabs) \cup {t.name}
         /\ DOMAIN s.tabs \subseteq DOMAIN Push(s, t).tabs
         /\ \A k \in DOMAIN s.tabs : Push(s, t).tabs[k] = s.tabs[k]
<1> DEFINE r == Push(s, t)
           n == Len(s.tabs)
<1>1. /\ s.tabs \in Seq(Sane) /\ Differ(s.tabs) /\ Leads(s.tabs)
      /\ n \in Nat /\ DOMAIN s.tabs = 1 .. n
  BY SoundIndex
<1>2. r.tabs = Append(s.tabs, t) /\ r.active = n + 1
  BY DEF Push
<1> HIDE DEF r
<1>3. /\ r.tabs \in Seq(Sane) /\ r.tabs # <<>> /\ Len(r.tabs) = n + 1
      /\ \A k \in 1 .. n : r.tabs[k] = s.tabs[k]
      /\ r.tabs[n + 1] = t
  BY <1>1, <1>2, AppendProperties
<1>4. DOMAIN r.tabs = 1 .. n + 1
  BY <1>3
<1> HIDE DEF n
<1>5. \A k \in 1 .. n + 1 : k \in 1 .. n \/ k = n + 1
  BY <1>1
<1>6. Leads(r.tabs)
  <2> SUFFICES ASSUME NEW k \in 1 .. n + 1, NEW l \in 1 .. n + 1, k < l,
                      r.tabs[l].pinned
               PROVE  r.tabs[k].pinned
    BY <1>4 DEF Leads
  <2>1. l \in 1 .. n
    BY <1>3, <1>5
  <2>2. k \in 1 .. n
    BY <1>1, <2>1
  <2> QED BY <1>1, <1>3, <2>1, <2>2 DEF Leads
<1>7. Differ(r.tabs)
  <2>1. \A k \in 1 .. n : s.tabs[k].name # t.name
    BY <1>1 DEF NamesOf
  <2> SUFFICES ASSUME NEW k \in 1 .. n + 1, NEW l \in 1 .. n + 1,
                      r.tabs[k].name = r.tabs[l].name
               PROVE  k = l
    BY <1>4 DEF Differ
  <2> QED BY <1>1, <1>3, <1>5, <2>1 DEF Differ
<1>8. NamesOf(r.tabs) = NamesOf(s.tabs) \cup {t.name}
  <2>1. 1 .. n \subseteq 1 .. n + 1 /\ n + 1 \in 1 .. n + 1
    BY <1>1
  <2>2. NamesOf(r.tabs) \subseteq NamesOf(s.tabs) \cup {t.name}
    BY <1>1, <1>3, <1>4, <1>5 DEF NamesOf
  <2>3. NamesOf(s.tabs) \cup {t.name} \subseteq NamesOf(r.tabs)
    BY <1>1, <1>3, <1>4, <2>1 DEF NamesOf
  <2> QED BY <2>2, <2>3
<1>9. Sound(r)
  <2>1. r.active \in 1 .. Len(r.tabs)
    BY <1>1, <1>2, <1>3
  <2> QED BY <1>3, <1>6, <1>7, <2>1 DEF Sound
<1>10. DOMAIN s.tabs \subseteq DOMAIN r.tabs
  BY <1>1, <1>4
<1> QED BY <1>1, <1>3, <1>8, <1>9, <1>10 DEF r

LEMMA PublishKeeps ==
  ASSUME NEW body, NEW ok, Publish(body, ok), NEW n, Kept(body, n), Kept(latest, n)
  PROVE  Kept(latest', n)
BY DEF Publish, Kept

LEMMA BecomesIs ==
  ASSUME NEW r, Becomes(r), Sound(r), NEW n \in Nat, NamesOf(r.tabs) \subseteq 1 .. n,
         Kept(latest, n)
  PROVE  /\ tabs' = r.tabs /\ active' = r.active
         /\ Sound(Strip')
         /\ Kept(latest', n)
         /\ Follows(Strip, r) => Follows(Strip, Strip')
<1>1. tabs' = r.tabs /\ active' = r.active
  BY DEF Becomes
<1>2. Kept(Body(r.tabs, r.active), n)
  BY BodyIsKept DEF Sound
<1>3. PICK ok \in BOOLEAN : Publish(Body(r.tabs, r.active), ok)
  BY DEF Becomes
<1>4. Kept(latest', n)
  BY <1>2, <1>3, PublishKeeps
<1>5. Strip'.tabs = r.tabs /\ Strip'.active = r.active
  BY <1>1 DEF Strip
<1>6. Sound(Strip')
  BY <1>5 DEF Sound
<1>7. Follows(Strip, r) => Follows(Strip, Strip')
  BY <1>5 DEF Follows, FrontOf
<1> QED BY <1>1, <1>4, <1>6, <1>7

-----------------------------------------------------------------------------
(* The steps.                                                              *)

LEMMA InvParts ==
  ASSUME PanelAssumption, IInv
  PROVE  /\ Kinds /\ Known /\ Asked /\ Replacing /\ ActiveIsShown
         /\ Sound(Strip)
         /\ tabs \in Seq(Sane) /\ Differ(tabs) /\ DOMAIN tabs = 1 .. Len(tabs)
         /\ Len(tabs) \in Nat
         /\ active \in Nat \ {0}
         /\ tabs # <<>> => active \in DOMAIN tabs
         /\ tabs = <<>> => active = 1
         /\ names \in Nat /\ MaxNames \in Nat /\ names <= MaxNames
         /\ 1 .. names \subseteq Names
         /\ \A k \in DOMAIN queue : /\ queue[k] \in Request
                                    /\ queue[k].kind \in {"new", "replace"}
                                    /\ phase # "drain" => queue[k].kind = "new"
<1>1. Kinds /\ Known /\ Asked /\ Replacing /\ ActiveIsShown /\ Sound(Strip)
  BY DEF IInv
<1>2. Strip.tabs = tabs /\ Strip.active = active
  BY DEF Strip
<1>3. /\ tabs \in Seq(Sane) /\ Differ(tabs) /\ DOMAIN tabs = 1 .. Len(tabs)
      /\ Len(tabs) \in Nat
      /\ active \in Nat \ {0}
      /\ tabs # <<>> => active \in DOMAIN tabs
      /\ tabs = <<>> => active = 1
  <2> DEFINE s == Strip
  <2>1. Sound(s) /\ s.tabs = tabs /\ s.active = active
    BY <1>1, <1>2
  <2> HIDE DEF s
  <2> QED BY <2>1, SoundIndex
<1>4. names \in Nat /\ MaxNames \in Nat /\ names <= MaxNames
  BY <1>1 DEF Kinds, PanelAssumption
<1>5. 1 .. names \subseteq Names
  BY <1>4 DEF Names
<1>6. \A k \in DOMAIN queue : queue[k] \in Request
  BY <1>1 DEF Kinds
<1>7. \A k \in DOMAIN queue : /\ queue[k].kind \in {"new", "replace"}
                              /\ phase # "drain" => queue[k].kind = "new"
  BY <1>1, <1>6 DEF Request, Replacing
<1> QED BY <1>1, <1>3, <1>4, <1>5, <1>6, <1>7

LEMMA ActIs ==
  ASSUME PanelAssumption, IInv, Act, Continues
  PROVE  /\ phase \in {"input", "chrome"} /\ phase' \in {"input", "drain"}
         /\ acts' \in 0 .. MaxActs /\ onTop' \in BOOLEAN
         /\ phase = "chrome" /\ queue' # <<>> => phase' = "drain"
<1>1. acts \in 0 .. MaxActs /\ onTop \in BOOLEAN /\ MaxActs \in Nat
  BY DEF IInv, Kinds, PanelAssumption
<1>2. phase \in {"input", "chrome"} /\ acts' = acts + 1 /\ acts < MaxActs
      /\ onTop' = onTop
  BY DEF Act
<1>3. acts' \in 0 .. MaxActs
  BY <1>1, <1>2
<1>4. /\ phase = "chrome" => phase' = IF queue' = <<>> /\ ~respawn' THEN "input" ELSE "drain"
      /\ phase # "chrome" => phase' = phase
  BY DEF Continues, EndsFrame
<1> QED BY <1>1, <1>2, <1>3, <1>4

\* A step that asks for nothing and gives the strip no tab it did not have.
LEMMA QuietStep ==
  ASSUME PanelAssumption, IInv,
         NEW r, Becomes(r), Sound(r), NamesOf(r.tabs) \subseteq NamesOf(tabs),
         queue' = queue, names' = names, respawn' \in BOOLEAN,
         onTop' \in BOOLEAN, acts' \in 0 .. MaxActs,
         phase \in {"input", "chrome"}, phase' \in {"input", "drain"}
  PROVE  IInv' /\ (Follows(Strip, r) => Follows(Strip, Strip'))
<1>1. /\ Kinds /\ Known /\ Asked /\ Replacing /\ Sound(Strip)
      /\ names \in Nat
      /\ \A k \in DOMAIN queue : phase # "drain" => queue[k].kind = "new"
  BY InvParts
<1>2. NamesOf(tabs) \subseteq 1 .. names /\ Kept(latest, names)
  BY <1>1 DEF Known
<1>3. NamesOf(r.tabs) \subseteq 1 .. names
  BY <1>2
<1>4. /\ tabs' = r.tabs /\ Sound(Strip') /\ Kept(latest', names)
      /\ Follows(Strip, r) => Follows(Strip, Strip')
  BY <1>1, <1>2, <1>3, BecomesIs
<1>5. Kinds'
  BY <1>1 DEF Kinds
<1>6. Known'
  BY <1>1, <1>3, <1>4 DEF Known
<1>7. Asked'
  <2>1. NamesOf(tabs') \subseteq NamesOf(tabs)
    BY <1>4
  <2> QED BY <1>1, <2>1 DEF Asked
<1>8. Replacing'
  <2>1. \A k \in DOMAIN queue' : queue'[k].kind = "new"
    BY <1>1
  <2>2. "new" # "replace"
    OBVIOUS
  <2> QED BY <2>1, <2>2 DEF Replacing
<1>9. ActiveIsShown'
  BY DEF ActiveIsShown
<1> QED BY <1>4, <1>5, <1>6, <1>7, <1>8, <1>9 DEF IInv

LEMMA QuietAct ==
  ASSUME PanelAssumption, IInv, Act, Continues,
         NEW r, Becomes(r), Sound(r), NamesOf(r.tabs) \subseteq NamesOf(tabs),
         UNCHANGED <<queue, respawn, names>>
  PROVE  IInv' /\ (Follows(Strip, r) => Follows(Strip, Strip'))
<1>1. queue' = queue /\ names' = names /\ respawn' = respawn
  OBVIOUS
<1>2. respawn \in BOOLEAN
  BY DEF IInv, Kinds
<1> QED BY <1>1, <1>2, ActIs, QuietStep

LEMMA SelectTabKeeps ==
  ASSUME PanelAssumption, IInv, NEW i \in DOMAIN tabs, SelectTab(i)
  PROVE  IInv'
<1> DEFINE r == Selected(Strip, i)
<1>1. Sound(Strip) /\ Strip.tabs = tabs /\ tabs[i] \in Sane
  BY InvParts DEF Strip
<1>2. r.tabs = [tabs EXCEPT ![i] = Used(tabs[i])] /\ r.active = i
  BY <1>1 DEF Selected
<1>3. /\ Used(tabs[i]) \in Sane
      /\ Used(tabs[i]).name = tabs[i].name /\ Used(tabs[i]).pinned = tabs[i].pinned
  BY <1>1, SaneTab
<1> DEFINE t == Used(tabs[i])
<1> HIDE DEF r, t
<1>4. Sound(r) /\ NamesOf(r.tabs) = NamesOf(tabs)
  BY <1>1, <1>2, <1>3, ChangedIs DEF t
<1>5. Act /\ Continues /\ Becomes(r) /\ UNCHANGED <<queue, respawn, names>>
  BY DEF SelectTab, r
<1> QED BY <1>4, <1>5, QuietAct

LEMMA CloseTabKeeps ==
  ASSUME PanelAssumption, IInv, NEW i \in DOMAIN tabs, CloseTab(i)
  PROVE  IInv' /\ Follows(Strip, Strip')
<1> DEFINE r == Closed(Strip, i)
<1>1. Sound(Strip) /\ Strip.tabs = tabs
  BY InvParts DEF Strip
<1>2. Sound(r) /\ Follows(Strip, r)
  BY <1>1, ClosedIs
<1>3. Act /\ Continues /\ Becomes(r) /\ UNCHANGED <<queue, respawn, names>>
  BY DEF CloseTab
<1> HIDE DEF r
<1>4. NamesOf(r.tabs) \subseteq NamesOf(tabs)
  BY <1>1, <1>2 DEF Follows
<1> QED BY <1>2, <1>3, <1>4, QuietAct

LEMMA MoveTabKeeps ==
  ASSUME PanelAssumption, IInv, NEW i \in DOMAIN tabs, NEW j \in DOMAIN tabs,
         MoveTab(i, j)
  PROVE  IInv' /\ Follows(Strip, Strip')
<1> DEFINE r == Moved(Strip, i, j)
<1>1. Sound(Strip) /\ Strip.tabs = tabs
  BY InvParts DEF Strip
<1>2. Sound(r) /\ Follows(Strip, r)
  BY <1>1, MovedIs
<1>3. Act /\ Continues /\ Becomes(r) /\ UNCHANGED <<queue, respawn, names>>
  BY DEF MoveTab, Click
<1> HIDE DEF r
<1>4. NamesOf(r.tabs) \subseteq NamesOf(tabs)
  BY <1>1, <1>2 DEF Follows
<1> QED BY <1>2, <1>3, <1>4, QuietAct

LEMMA PinTabKeeps ==
  ASSUME PanelAssumption, IInv, NEW i \in DOMAIN tabs, PinTab(i)
  PROVE  IInv' /\ Follows(Strip, Strip')
<1> DEFINE u == [Strip EXCEPT !.tabs[i].pinned = ~@]
           r == Clustered(u)
<1>1. /\ Sound(Strip) /\ Strip.tabs = tabs /\ Strip.active = active
      /\ tabs \in Seq(Sane) /\ Differ(tabs) /\ tabs # <<>>
      /\ active \in DOMAIN tabs
  BY InvParts DEF Strip
<1> DEFINE t == [tabs[i] EXCEPT !.pinned = ~@]
<1>2. u.tabs = [tabs EXCEPT ![i] = t] /\ u.active = active
  BY DEF Strip
<1>3. t \in Sane /\ t.name = tabs[i].name
  <2>1. tabs[i] \in Sane
    BY <1>1
  <2> DEFINE v == tabs[i]
  <2>2. v \in Tab /\ (v.engine = "hidden" => v.told = "hidden")
    BY <2>1 DEF Sane
  <2> HIDE DEF v
  <2> DEFINE w == [v EXCEPT !.pinned = ~@]
  <2>3. (~v.pinned) \in BOOLEAN
    OBVIOUS
  <2>4. w \in Tab /\ w.name = v.name /\ w.engine = v.engine /\ w.told = v.told
    BY <2>2, <2>3 DEF Tab
  <2> HIDE DEF w
  <2>5. w \in Sane /\ w.name = v.name
    BY <2>2, <2>4 DEF Sane
  <2> QED BY <2>5 DEF v, w
<1> HIDE DEF u, t
<1>4. u.tabs \in Seq(Sane) /\ DOMAIN u.tabs = DOMAIN tabs
  BY <1>1, <1>2, <1>3
<1>5. \A k \in DOMAIN tabs : u.tabs[k].name = tabs[k].name
  BY <1>1, <1>2, <1>3
<1>6. Differ(u.tabs) /\ NamesOf(u.tabs) = NamesOf(tabs) /\ FrontOf(u) = FrontOf(Strip)
  BY <1>1, <1>2, <1>4, <1>5 DEF Differ, NamesOf, FrontOf
<1>7. Sound(r) /\ Follows(u, r)
  BY <1>1, <1>2, <1>4, <1>6, ClusteredIs
<1> HIDE DEF r
<1>8. Follows(Strip, r) /\ NamesOf(r.tabs) \subseteq NamesOf(tabs)
  BY <1>1, <1>6, <1>7 DEF Follows
<1>9. Act /\ Continues /\ Becomes(r) /\ UNCHANGED <<queue, respawn, names>>
  BY DEF PinTab, Click, r, u
<1> QED BY <1>7, <1>8, <1>9, QuietAct

LEMMA CloseOthersKeeps ==
  ASSUME PanelAssumption, IInv, NEW i \in DOMAIN tabs, CloseOthers(i)
  PROVE  IInv'
<1> DEFINE rest == ClosedAll(Strip, 1, Len(tabs), i)
           at == CHOOSE k \in DOMAIN rest.tabs : rest.tabs[k].name = tabs[i].name
           r == Selected(rest, at)
           n == Len(tabs)
<1>1. Sound(Strip) /\ Strip.tabs = tabs /\ n \in Nat
  BY InvParts DEF Strip
<1>2. Sound(rest) /\ Follows(Strip, rest) /\ tabs[i].name \in NamesOf(rest.tabs)
  <2> DEFINE s == Strip
             one == 1
  <2>1. Sound(s) /\ s.tabs = tabs /\ n <= Len(s.tabs) /\ one \in Nat \ {0}
        /\ one <= n + 1 /\ i \in DOMAIN s.tabs
    BY <1>1
  <2>2. rest = ClosedAll(s, one, n, i)
    OBVIOUS
  <2> HIDE DEF s, one, n, rest
  <2>3. Sound(rest) /\ Follows(s, rest) /\ s.tabs[i].name \in NamesOf(rest.tabs)
    BY <1>1, <2>1, <2>2, ClosedAllIs
  <2> QED BY <2>1, <2>3 DEF s
<1> HIDE DEF rest
<1>3. at \in DOMAIN rest.tabs
  BY <1>2 DEF NamesOf
<1>4. Act /\ Continues /\ Becomes(r) /\ UNCHANGED <<queue, respawn, names>>
  BY DEF CloseOthers, Click, rest
<1> HIDE DEF at
<1> DEFINE t == rest.tabs[at]
           u == Used(t)
<1>5. t \in Sane
  BY <1>2, <1>3, SoundIndex
<1>6. r.tabs = [rest.tabs EXCEPT ![at] = u] /\ r.active = at
  BY DEF Selected
<1>7. u \in Sane /\ u.name = rest.tabs[at].name /\ u.pinned = rest.tabs[at].pinned
  <2> HIDE DEF t
  <2>1. u \in Sane /\ u.name = t.name /\ u.pinned = t.pinned
    BY <1>5, SaneTab
  <2> QED BY <2>1 DEF t
<1> HIDE DEF u, r
<1>8. Sound(r) /\ NamesOf(r.tabs) = NamesOf(rest.tabs)
  BY <1>2, <1>3, <1>6, <1>7, ChangedIs
<1>9. NamesOf(r.tabs) \subseteq NamesOf(tabs)
  BY <1>1, <1>2, <1>8 DEF Follows
<1> QED BY <1>4, <1>8, <1>9, QuietAct

LEMMA CloseToTheRightKeeps ==
  ASSUME PanelAssumption, IInv, NEW i \in DOMAIN tabs, CloseToTheRight(i)
  PROVE  IInv' /\ Follows(Strip, Strip')
<1> DEFINE r == ClosedAll(Strip, i + 1, Len(tabs), i)
           n == Len(tabs)
<1>1. Sound(Strip) /\ Strip.tabs = tabs /\ n \in Nat /\ i \in 1 .. n
  BY InvParts DEF Strip
<1>2. Sound(r) /\ Follows(Strip, r)
  <2> DEFINE s == Strip
             one == i + 1
  <2>1. Sound(s) /\ s.tabs = tabs /\ n <= Len(s.tabs) /\ one \in Nat \ {0}
        /\ one <= n + 1
    BY <1>1
  <2>2. r = ClosedAll(s, one, n, i)
    OBVIOUS
  <2> HIDE DEF s, one, n, r
  <2>3. Sound(r) /\ Follows(s, r)
    BY <1>1, <2>1, <2>2, ClosedAllIs
  <2> QED BY <2>3 DEF s
<1> HIDE DEF r
<1>3. Act /\ Continues /\ Becomes(r) /\ UNCHANGED <<queue, respawn, names>>
  BY DEF CloseToTheRight, Click, r
<1>4. NamesOf(r.tabs) \subseteq NamesOf(tabs)
  BY <1>1, <1>2 DEF Follows
<1> QED BY <1>2, <1>3, <1>4, QuietAct

\* A tab that is asked for gets a name nobody has.
LEMMA AsksIs ==
  ASSUME PanelAssumption, IInv, AsksForTab, NamesOf(tabs') = NamesOf(tabs),
         Kept(latest', names)
  PROVE  /\ Known' /\ Asked' /\ queue' \in Seq(Request)
         /\ names' \in 0 .. MaxNames
         /\ \A k \in DOMAIN queue' : \/ queue'[k].kind = "new"
                                     \/ k \in DOMAIN queue /\ queue'[k] = queue[k]
<1> DEFINE q == [kind |-> "new", name |-> names + 1, index |-> 0]
           n == Len(queue)
<1>1. /\ Known /\ Asked /\ queue \in Seq(Request)
      /\ names \in Nat /\ MaxNames \in Nat
  BY InvParts DEF Kinds
<1>2. names' = names + 1 /\ names < MaxNames /\ queue' = Append(queue, q)
  BY DEF AsksForTab
<1>3. names + 1 \in Names /\ names' \in 0 .. MaxNames
  BY <1>1, <1>2 DEF Names
<1>4. q \in Request /\ q.kind = "new" /\ q.name = names + 1
  BY <1>3 DEF Request
<1> HIDE DEF q
<1>5. /\ queue' \in Seq(Request) /\ Len(queue') = n + 1
      /\ \A k \in 1 .. n : queue'[k] = queue[k]
      /\ queue'[n + 1] = q
  BY <1>1, <1>2, <1>4, AppendProperties
<1>6. n \in Nat /\ DOMAIN queue = 1 .. n /\ DOMAIN queue' = 1 .. n + 1
  BY <1>1, <1>5
<1> HIDE DEF n
<1>7. \A k \in DOMAIN queue' : \/ k \in DOMAIN queue /\ queue'[k] = queue[k]
                               \/ k = n + 1 /\ queue'[k] = q
  <2>1. \A k \in 1 .. n + 1 : k \in 1 .. n \/ k = n + 1
    BY <1>6
  <2> QED BY <1>5, <1>6, <2>1
<1>8. /\ NamesOf(tabs) \subseteq 1 .. names
      /\ \A k \in DOMAIN queue : queue[k].name \in 1 .. names
  BY <1>1 DEF Known
<1>9. 1 .. names \subseteq 1 .. names' /\ names' \in 1 .. names'
      /\ names' \notin 1 .. names
  BY <1>1, <1>2
<1>10. Known'
  <2>1. Kept(latest', names')
    <3>1. names' \in Nat /\ names <= names'
      BY <1>1, <1>2
    <3> QED BY <1>1, <3>1, KeptGrows
  <2>2. \A k \in DOMAIN queue' : queue'[k].name \in 1 .. names'
    BY <1>2, <1>4, <1>7, <1>8, <1>9
  <2> QED BY <1>8, <1>9, <2>1, <2>2 DEF Known
<1>11. Asked'
  <2>1. \A k \in DOMAIN queue' :
           queue'[k].kind = "new" => queue'[k].name \notin NamesOf(tabs')
    BY <1>1, <1>2, <1>4, <1>7, <1>8, <1>9 DEF Asked
  <2>2. ASSUME NEW k \in DOMAIN queue', NEW l \in DOMAIN queue',
               queue'[k].kind = "new", queue'[l].kind = "new",
               queue'[k].name = queue'[l].name
        PROVE  k = l
    <3>1. CASE k \in DOMAIN queue /\ l \in DOMAIN queue
      <4>1. queue'[k] = queue[k] /\ queue'[l] = queue[l]
        BY <1>5, <1>6, <3>1
      <4> QED BY <1>1, <2>2, <3>1, <4>1 DEF Asked
    <3>2. CASE k \notin DOMAIN queue /\ l \in DOMAIN queue
      <4>1. queue'[k].name = names' /\ queue'[l] = queue[l]
        BY <1>2, <1>4, <1>5, <1>6, <1>7, <3>2
      <4> QED BY <1>8, <1>9, <2>2, <3>2, <4>1
    <3>3. CASE k \in DOMAIN queue /\ l \notin DOMAIN queue
      <4>1. queue'[l].name = names' /\ queue'[k] = queue[k]
        BY <1>2, <1>4, <1>5, <1>6, <1>7, <3>3
      <4> QED BY <1>8, <1>9, <2>2, <3>3, <4>1
    <3>4. CASE k \notin DOMAIN queue /\ l \notin DOMAIN queue
      BY <1>7, <3>4
    <3> QED BY <3>1, <3>2, <3>3, <3>4
  <2> QED BY <2>1, <2>2 DEF Asked
<1>12. \A k \in DOMAIN queue' : \/ queue'[k].kind = "new"
                                \/ k \in DOMAIN queue /\ queue'[k] = queue[k]
  BY <1>4, <1>7
<1> QED BY <1>3, <1>5, <1>10, <1>11, <1>12

LEMMA NewTabKeeps ==
  ASSUME PanelAssumption, IInv, NewTab
  PROVE  IInv' /\ Follows(Strip, Strip')
<1>1. /\ Kinds /\ Known /\ Sound(Strip)
      /\ \A k \in DOMAIN queue : phase # "drain" => queue[k].kind = "new"
  BY InvParts
<1>2. /\ Act /\ Continues /\ AsksForTab
      /\ tabs' = tabs /\ active' = active /\ respawn' = respawn /\ latest' = latest
  BY DEF NewTab, strip, synced
<1>3. /\ phase \in {"input", "chrome"} /\ phase' \in {"input", "drain"}
      /\ acts' \in 0 .. MaxActs /\ onTop' \in BOOLEAN
  BY <1>2, ActIs
<1>4. /\ Known' /\ Asked' /\ queue' \in Seq(Request) /\ names' \in 0 .. MaxNames
      /\ \A k \in DOMAIN queue' : \/ queue'[k].kind = "new"
                                  \/ k \in DOMAIN queue /\ queue'[k] = queue[k]
  BY <1>1, <1>2, AsksIs DEF Known
<1>5. Kinds'
  BY <1>1, <1>2, <1>3, <1>4 DEF Kinds
<1>6. Replacing'
  <2>1. \A k \in DOMAIN queue' : queue'[k].kind = "new"
    BY <1>1, <1>3, <1>4
  <2>2. "new" # "replace"
    OBVIOUS
  <2> QED BY <2>1, <2>2 DEF Replacing
<1>7. ActiveIsShown'
  BY <1>3 DEF ActiveIsShown
<1>8. Strip' = Strip
  BY <1>2 DEF Strip
<1>9. Sound(Strip') /\ Follows(Strip, Strip')
  BY <1>1, <1>8, FollowsItself
<1> QED BY <1>4, <1>5, <1>6, <1>7, <1>9 DEF IInv

LEMMA OpenPageKeeps ==
  ASSUME PanelAssumption, IInv, OpenPage
  PROVE  IInv'
<1>1. /\ Kinds /\ Known /\ Asked /\ Sound(Strip) /\ Strip.tabs = tabs
      /\ names \in Nat /\ MaxNames \in Nat
      /\ \A k \in DOMAIN queue : phase # "drain" => queue[k].kind = "new"
  BY InvParts DEF Strip
<1>2. Act /\ Continues /\ queue' = queue /\ respawn' = respawn
  BY DEF OpenPage, Click
<1>3. CASE \E i \in DOMAIN tabs : Becomes(Selected(Strip, i)) /\ UNCHANGED names
  <2>1. PICK i \in DOMAIN tabs : Becomes(Selected(Strip, i)) /\ UNCHANGED names
    BY <1>3
  <2> DEFINE r == Selected(Strip, i)
             t == Used(tabs[i])
  <2>2. r.tabs = [tabs EXCEPT ![i] = t] /\ r.active = i
    BY <1>1 DEF Selected
  <2>3. t \in Sane /\ t.name = tabs[i].name /\ t.pinned = tabs[i].pinned
    <3>1. tabs[i] \in Sane
      BY InvParts
    <3> QED BY <3>1, SaneTab
  <2> HIDE DEF r, t
  <2>4. Sound(r) /\ NamesOf(r.tabs) = NamesOf(tabs)
    BY <1>1, <2>2, <2>3, ChangedIs
  <2>5. Becomes(r) /\ UNCHANGED <<queue, respawn, names>>
    BY <1>2, <2>1 DEF r
  <2> QED BY <1>2, <2>4, <2>5, QuietAct
<1>4. CASE /\ names < MaxNames
           /\ names' = names + 1
           /\ Becomes(Push(Strip, [Fresh(names + 1) EXCEPT !.engine = "page"]))
  <2> DEFINE t == [Fresh(names + 1) EXCEPT !.engine = "page"]
             r == Push(Strip, t)
  <2>1. names + 1 \in Names /\ names' \in 0 .. MaxNames /\ names' \in Nat
        /\ names <= names'
    BY <1>1, <1>4 DEF Names
  <2>2. t \in Sane /\ t.name = names' /\ ~t.pinned
    BY <1>4, <2>1, FreshIs
  <2>3. /\ NamesOf(tabs) \subseteq 1 .. names
        /\ \A k \in DOMAIN queue : queue[k].name \in 1 .. names
        /\ Kept(latest, names)
    BY <1>1 DEF Known
  <2>4. 1 .. names \subseteq 1 .. names' /\ names' \in 1 .. names'
        /\ names' \notin 1 .. names
    BY <1>1, <1>4
  <2>5. Becomes(r)
    BY <1>4
  <2> HIDE DEF r, t
  <2>6. Sound(r) /\ NamesOf(r.tabs) = NamesOf(tabs) \cup {names'}
    <3>1. t.name \notin NamesOf(tabs)
      BY <2>2, <2>3, <2>4
    <3> QED BY <1>1, <2>2, <3>1, PushIs DEF r
  <2>7. NamesOf(r.tabs) \subseteq 1 .. names'
    BY <2>3, <2>4, <2>6
  <2>8. Kept(latest, names')
    BY <1>1, <2>1, <2>3, KeptGrows
  <2>9. tabs' = r.tabs /\ Sound(Strip') /\ Kept(latest', names')
    BY <2>1, <2>5, <2>6, <2>7, <2>8, BecomesIs
  <2>10. Known'
    BY <1>2, <2>3, <2>4, <2>7, <2>9 DEF Known
  <2>11. Asked'
    <3>1. \A k \in DOMAIN queue : queue[k].kind = "new" =>
            queue[k].name \notin NamesOf(tabs')
      BY <1>1, <2>3, <2>4, <2>6, <2>9 DEF Asked
    <3> QED BY <1>1, <1>2, <3>1 DEF Asked
  <2>12. /\ phase \in {"input", "chrome"} /\ phase' \in {"input", "drain"}
         /\ acts' \in 0 .. MaxActs /\ onTop' \in BOOLEAN
    BY <1>2, ActIs
  <2>13. Kinds'
    BY <1>1, <1>2, <2>1, <2>12 DEF Kinds
  <2>14. Replacing'
    <3>1. \A k \in DOMAIN queue' : queue'[k].kind = "new"
      BY <1>1, <1>2, <2>12
    <3>2. "new" # "replace"
      OBVIOUS
    <3> QED BY <3>1, <3>2 DEF Replacing
  <2>15. ActiveIsShown'
    BY <2>12 DEF ActiveIsShown
  <2> QED BY <2>9, <2>10, <2>11, <2>13, <2>14, <2>15 DEF IInv
<1> QED BY <1>3, <1>4 DEF OpenPage

LEMMA LoadUrlKeeps ==
  ASSUME PanelAssumption, IInv, LoadUrl
  PROVE  IInv' /\ Follows(Strip, Strip')
<1>1. /\ Kinds /\ Known /\ Asked /\ Sound(Strip)
      /\ Strip.tabs = tabs /\ Strip.active = active
      /\ names \in Nat /\ MaxNames \in Nat
      /\ tabs \in Seq(Sane)
      /\ \A k \in DOMAIN queue : phase # "drain" => queue[k].kind = "new"
  BY InvParts DEF Strip
<1>2. /\ Act /\ Continues /\ phase = "chrome" /\ respawn' = respawn
      /\ active \in DOMAIN tabs /\ names' = names
  BY DEF LoadUrl, Click
<1>3. /\ phase' \in {"input", "drain"}
      /\ acts' \in 0 .. MaxActs /\ onTop' \in BOOLEAN
      /\ queue' # <<>> => phase' = "drain"
  BY <1>2, ActIs
<1>4. ActiveIsShown'
  BY <1>3 DEF ActiveIsShown
<1>5. NamesOf(tabs) \subseteq 1 .. names /\ Kept(latest, names)
      /\ \A k \in DOMAIN queue : queue[k].name \in 1 .. names
  BY <1>1 DEF Known
<1> DEFINE t == tabs[active]
<1>6. t \in Sane /\ t.name \in 1 .. names /\ t.name \in Names
  <2>1. t.name \in NamesOf(tabs)
    BY <1>2 DEF NamesOf
  <2> QED BY <1>1, <1>2, <1>5, <2>1, InvParts
<1>7. /\ Used(t) \in Sane /\ Used(t) \in Tab
      /\ Used(t).name = t.name /\ Used(t).pinned = t.pinned
  <2> HIDE DEF t
  <2>1. /\ Used(t) \in Sane
        /\ Used(t).name = t.name /\ Used(t).pinned = t.pinned
    BY <1>6, SaneTab
  <2>2. Used(t) \in Tab
    BY <2>1 DEF Sane
  <2> QED BY <2>1, <2>2
<1>8. CASE t.engine = "page"
  <2> DEFINE u == [Used(t) EXCEPT !.engine = "gone"]
             r == [Strip EXCEPT !.tabs[active] = [Used(@) EXCEPT !.engine = "gone"]]
             q == [kind |-> "replace", index |-> active, name |-> t.name]
             n == Len(queue)
  <2>1. Becomes(r) /\ queue' = Append(queue, q)
    BY <1>8 DEF LoadUrl
  <2>2. r.tabs = [tabs EXCEPT ![active] = u] /\ r.active = active
    BY DEF Strip
  <2>3. u \in Sane /\ u.name = t.name /\ u.pinned = t.pinned
    <3> DEFINE v == Used(t)
    <3> HIDE DEF v, t
    <3>1. u = [v EXCEPT !.engine = "gone"]
      BY DEF v
    <3> HIDE DEF u
    <3>2. v \in Tab /\ v.name = t.name /\ v.pinned = t.pinned
      BY <1>7 DEF v
    <3>3. u \in Tab /\ u.engine = "gone" /\ u.name = v.name /\ u.pinned = v.pinned
      BY <3>1, <3>2 DEF Tab
    <3> QED BY <3>2, <3>3 DEF Sane
  <2> HIDE DEF u, r
  <2>4. Sound(r) /\ NamesOf(r.tabs) = NamesOf(tabs) /\ Follows(Strip, r)
        /\ DOMAIN r.tabs = DOMAIN tabs
    BY <1>1, <1>2, <2>2, <2>3, ChangedIs
  <2>5. /\ tabs' = r.tabs /\ Sound(Strip') /\ Kept(latest', names)
        /\ Follows(Strip, Strip')
    BY <1>1, <1>5, <2>1, <2>4, BecomesIs
  <2>6. q \in Request
    BY <1>6, InvParts DEF Request
  <2>7. q.kind = "replace" /\ q.index = active /\ q.name = t.name
    OBVIOUS
  <2> HIDE DEF q
  <2>8. /\ queue' \in Seq(Request) /\ queue' # <<>> /\ Len(queue') = n + 1
        /\ \A k \in 1 .. n : queue'[k] = queue[k]
        /\ queue'[n + 1] = q
    BY <1>1, <2>1, <2>6, AppendProperties DEF Kinds
  <2>9. n \in Nat /\ DOMAIN queue = 1 .. n /\ DOMAIN queue' = 1 .. n + 1
    BY <1>1, <2>8 DEF Kinds
  <2> HIDE DEF n
  <2>10. \A k \in DOMAIN queue' :
            \/ k \in DOMAIN queue /\ queue'[k] = queue[k] /\ queue'[k].kind = "new"
            \/ queue'[k] = q
    <3>1. \A k \in 1 .. n + 1 : k \in 1 .. n \/ k = n + 1
      BY <2>9
    <3> QED BY <1>1, <1>2, <2>8, <2>9, <3>1
  <2>11. Kinds'
    BY <1>1, <1>2, <1>3, <2>8 DEF Kinds
  <2>12. Known'
    BY <1>2, <1>5, <1>6, <2>4, <2>5, <2>7, <2>10 DEF Known
  <2>13. Asked'
    <3>1. "new" # "replace"
      OBVIOUS
    <3> QED BY <1>1, <2>4, <2>5, <2>7, <2>10, <3>1 DEF Asked
  <2>14. Replacing'
    <3>1. "new" # "replace"
      OBVIOUS
    <3>2. active \in DOMAIN tabs' /\ tabs'[active].name = t.name
      BY <1>1, <1>2, <2>2, <2>3, <2>5
    <3> QED BY <1>3, <2>7, <2>8, <2>10, <3>1, <3>2 DEF Replacing
  <2> QED BY <1>4, <2>5, <2>11, <2>12, <2>13, <2>14 DEF IInv
<1>9. CASE t.engine # "page"
  <2>1. tabs' = [tabs EXCEPT ![active] = Used(@)]
        /\ active' = active /\ queue' = queue /\ latest' = latest
    BY <1>9 DEF LoadUrl, synced
  <2> DEFINE u == Used(t)
             s == Strip
             r == Strip'
  <2>2. r.tabs = tabs' /\ r.active = active
    BY <2>1 DEF Strip
  <2>3. r.tabs = [s.tabs EXCEPT ![active] = u]
    BY <1>1, <2>1, <2>2
  <2>4. u \in Sane /\ u.name = s.tabs[active].name /\ u.pinned = s.tabs[active].pinned
    BY <1>1, <1>7
  <2>5. Sound(s) /\ active \in DOMAIN s.tabs /\ r.active = s.active
    BY <1>1, <1>2, <2>2
  <2> HIDE DEF u, s, r
  <2>6. Sound(r) /\ NamesOf(r.tabs) = NamesOf(s.tabs) /\ Follows(s, r)
    BY <2>3, <2>4, <2>5, ChangedIs
  <2>7. Sound(Strip') /\ NamesOf(tabs') = NamesOf(tabs) /\ Follows(Strip, Strip')
    BY <1>1, <2>2, <2>6 DEF s, r
  <2>8. Kinds'
    BY <1>1, <1>2, <1>3, <2>1 DEF Kinds
  <2>9. Known' /\ Asked'
    BY <1>1, <1>2, <1>5, <2>1, <2>7 DEF Known, Asked
  <2>10. Replacing'
    <3>1. \A k \in DOMAIN queue' : queue'[k].kind = "new"
      BY <1>1, <1>2, <2>1
    <3>2. "new" # "replace"
      OBVIOUS
    <3> QED BY <3>1, <3>2 DEF Replacing
  <2> QED BY <1>4, <2>7, <2>8, <2>9, <2>10 DEF IInv
<1> QED BY <1>8, <1>9

LEMMA ToldIs ==
  ASSUME PanelAssumption, NEW t \in Sane, NEW hide \in BOOLEAN
  PROVE  /\ Told(t, hide) \in Sane
         /\ Told(t, hide).name = t.name /\ Told(t, hide).pinned = t.pinned
         /\ ~hide /\ Live(Told(t, hide)) => Told(t, hide).engine = "shown"
<1> DEFINE word == IF hide THEN "hidden" ELSE "shown"
           u == [t EXCEPT !.told = word, !.engine = IF Live(t) THEN word ELSE @]
<1>1. /\ t \in Tab
      /\ t.engine = "hidden" => t.told = "hidden"
  BY DEF Sane
<1>2. CASE t.engine = "page" \/ ~MustTell(t, hide)
  <2>1. Told(t, hide) = t
    BY <1>2 DEF Told
  <2>2. ~hide /\ Live(t) => t.engine = "shown"
    BY <1>1, <1>2 DEF MustTell, Live, Tab
  <2> QED BY <2>1, <2>2
<1>3. CASE ~(t.engine = "page" \/ ~MustTell(t, hide))
  <2>1. Told(t, hide) = u
    BY <1>3 DEF Told
  <2>2. word \in {"hidden", "shown"} /\ (~hide => word = "shown")
    OBVIOUS
  <2> HIDE DEF word
  <2>3. u \in Tab /\ u.name = t.name /\ u.pinned = t.pinned /\ u.told = word
        /\ u.engine = IF Live(t) THEN word ELSE t.engine
    BY <1>1, <2>2 DEF Tab
  <2> HIDE DEF u
  <2>4. u.engine = "hidden" => u.told = "hidden"
    BY <2>2, <2>3 DEF Live
  <2>5. ~hide /\ Live(u) => u.engine = "shown"
    BY <2>2, <2>3 DEF Live
  <2> QED BY <2>1, <2>3, <2>4, <2>5 DEF Sane
<1> QED BY <1>2, <1>3

LEMMA PolledTabIs ==
  ASSUME PanelAssumption, NEW t \in Sane, NEW i
  PROVE  LET u == PolledTab(t, i) IN
         u \in Sane /\ u.name = t.name /\ u.pinned = t.pinned
<1> DEFINE e == IF t.engine = "gone" THEN "dead" ELSE t.engine
           b == t.named \/ Live(t)
           w == IF i = active THEN t.wait ELSE PollEvery
           u == [t EXCEPT !.engine = e, !.named = b, !.wait = w]
<1>1. t \in Tab /\ (t.engine = "hidden" => t.told = "hidden")
  BY DEF Sane
<1>2. PolledTab(t, i) = u
  BY DEF PolledTab
<1>3. e \in {"page", "shown", "hidden", "gone", "dead"} /\ (e = "hidden" => t.engine = "hidden")
  BY <1>1 DEF Tab
<1>4. b \in BOOLEAN
  OBVIOUS
<1>5. w \in 0 .. PollEvery
  <2>1. t.wait \in 0 .. PollEvery
    BY <1>1 DEF Tab
  <2>2. PollEvery \in 0 .. PollEvery
    BY DEF PanelAssumption
  <2> QED BY <2>1, <2>2
<1> HIDE DEF e, b, w
<1>6. u \in Tab /\ u.name = t.name /\ u.pinned = t.pinned
      /\ u.engine = e /\ u.told = t.told
  BY <1>1, <1>3, <1>4, <1>5 DEF Tab
<1> HIDE DEF u
<1>7. u \in Sane
  BY <1>1, <1>3, <1>6 DEF Sane
<1> QED BY <1>2, <1>6, <1>7

\* A step that leaves every tab who and where it is, and asks for nothing.
LEMMA StillStep ==
  ASSUME PanelAssumption, IInv,
         tabs' \in Seq(Sane), DOMAIN tabs' = DOMAIN tabs, active' = active,
         \A k \in DOMAIN tabs : /\ tabs'[k].name = tabs[k].name
                                /\ tabs'[k].pinned = tabs[k].pinned
  PROVE  /\ Sound(Strip') /\ NamesOf(tabs') = NamesOf(tabs)
         /\ Follows(Strip, Strip')
         /\ names' = names /\ queue' = queue /\ Kept(latest', names) =>
              Known' /\ Asked' /\ (phase' = phase => Replacing')
<1> DEFINE s == Strip
           r == Strip'
<1>1. /\ Sound(s) /\ s.tabs = tabs /\ s.active = active
      /\ r.tabs = tabs' /\ r.active = active
  BY InvParts DEF Strip
<1> HIDE DEF s, r
<1>2. Sound(r) /\ NamesOf(r.tabs) = NamesOf(s.tabs) /\ Follows(s, r)
  BY <1>1, AlikeIs
<1>3. Sound(Strip') /\ NamesOf(tabs') = NamesOf(tabs) /\ Follows(Strip, Strip')
  BY <1>1, <1>2 DEF s, r
<1>4. ASSUME names' = names, queue' = queue, Kept(latest', names)
      PROVE  Known' /\ Asked' /\ (phase' = phase => Replacing')
  <2>1. Known /\ Asked /\ Replacing
    BY InvParts
  <2>2. Known'
    BY <1>3, <1>4, <2>1 DEF Known
  <2>3. Asked'
    BY <1>3, <1>4, <2>1 DEF Asked
  <2>4. phase' = phase => Replacing'
    BY <1>4, <2>1 DEF Replacing
  <2> QED BY <2>2, <2>3, <2>4
<1> QED BY <1>3, <1>4

LEMMA FrameKeeps ==
  ASSUME PanelAssumption, IInv, NEW ok \in BOOLEAN, Frame(ok)
  PROVE  IInv' /\ Follows(Strip, Strip')
<1> DEFINE aged == [i \in DOMAIN tabs |->
                      [tabs[i] EXCEPT !.asleep = @ \/ Dozes(i),
                                      !.wait = IF @ > 0 THEN @ - 1 ELSE 0]]
           read == [i \in DOMAIN tabs |->
                      IF i \in Polled THEN PolledTab(aged[i], i) ELSE aged[i]]
<1>1. /\ phase = "input" /\ phase' = "chrome"
      /\ tabs' = [i \in DOMAIN tabs |-> Told(read[i], i # active)]
      /\ Publish(Body(tabs, active), ok)
      /\ active' = active /\ onTop' = onTop /\ respawn' = respawn /\ acts' = acts
      /\ \/ queue' = queue /\ names' = names
         \/ AsksForTab
  BY DEF Frame
<1>2. /\ Kinds /\ Known /\ Sound(Strip) /\ tabs \in Seq(Sane) /\ Differ(tabs)
      /\ DOMAIN tabs = 1 .. Len(tabs) /\ Len(tabs) \in Nat /\ names \in Nat
      /\ \A k \in DOMAIN queue : phase # "drain" => queue[k].kind = "new"
  BY InvParts
<1>3. ASSUME NEW i \in DOMAIN tabs
      PROVE  aged[i] \in Sane /\ aged[i].name = tabs[i].name
             /\ aged[i].pinned = tabs[i].pinned
  <2> DEFINE t == tabs[i]
             z == t.asleep \/ Dozes(i)
             w == IF t.wait > 0 THEN t.wait - 1 ELSE 0
  <2>1. t \in Sane
    BY <1>2
  <2>2. aged[i] = [t EXCEPT !.asleep = z, !.wait = w]
    OBVIOUS
  <2>3. z \in BOOLEAN
    OBVIOUS
  <2>4. w \in 0 .. PollEvery
    <3>1. t.wait \in 0 .. PollEvery
      BY <2>1 DEF Sane, Tab
    <3>2. PollEvery \in Nat
      BY DEF PanelAssumption
    <3> HIDE DEF t
    <3> QED BY <3>1, <3>2
  <2> HIDE DEF t, z, w, aged
  <2> DEFINE u == aged[i]
  <2>5. u = [t EXCEPT !.asleep = z, !.wait = w]
    BY <2>2
  <2> HIDE DEF u
  <2>6. t \in Tab /\ (t.engine = "hidden" => t.told = "hidden")
    BY <2>1 DEF Sane
  <2>7. u \in Tab /\ u.name = t.name /\ u.pinned = t.pinned
        /\ u.engine = t.engine /\ u.told = t.told
    BY <2>3, <2>4, <2>5, <2>6 DEF Tab
  <2>8. u \in Sane /\ u.name = t.name /\ u.pinned = t.pinned
    BY <2>6, <2>7 DEF Sane
  <2> QED BY <2>8 DEF t, u
<1> HIDE DEF aged
<1>4. ASSUME NEW i \in DOMAIN tabs
      PROVE  read[i] \in Sane /\ read[i].name = tabs[i].name
             /\ read[i].pinned = tabs[i].pinned
  <2> DEFINE t == aged[i]
  <2>1. t \in Sane /\ t.name = tabs[i].name /\ t.pinned = tabs[i].pinned
    BY <1>3
  <2>2. read[i] = IF i \in Polled THEN PolledTab(t, i) ELSE t
    OBVIOUS
  <2> HIDE DEF t, read
  <2> QED BY <2>1, <2>2, PolledTabIs
<1> HIDE DEF read
<1>5. ASSUME NEW i \in DOMAIN tabs
      PROVE  /\ tabs'[i] \in Sane /\ tabs'[i].name = tabs[i].name
             /\ tabs'[i].pinned = tabs[i].pinned
             /\ i = active /\ Live(tabs'[i]) => tabs'[i].engine = "shown"
  <2> DEFINE h == i # active
  <2>1. h \in BOOLEAN /\ tabs'[i] = Told(read[i], h)
    BY <1>1
  <2> HIDE DEF h
  <2>2. /\ tabs'[i] \in Sane /\ tabs'[i].name = read[i].name
        /\ tabs'[i].pinned = read[i].pinned
        /\ ~h /\ Live(tabs'[i]) => tabs'[i].engine = "shown"
    BY <1>4, <2>1, ToldIs
  <2> QED BY <1>4, <2>2 DEF h
<1>6. tabs' \in Seq(Sane) /\ DOMAIN tabs' = DOMAIN tabs
  <2>1. DOMAIN tabs' = 1 .. Len(tabs)
        /\ tabs' = [i \in 1 .. Len(tabs) |-> tabs'[i]]
    BY <1>1, <1>2
  <2>2. tabs' \in [1 .. Len(tabs) -> Sane]
    BY <1>2, <1>5, <2>1
  <2> QED BY <1>2, <2>1, <2>2
<1>7. NamesOf(tabs) \subseteq 1 .. names /\ Kept(latest, names)
  BY <1>2 DEF Known
<1>8. Kept(latest', names)
  <2>1. Kept(Body(tabs, active), names)
    BY <1>2, <1>7, BodyIsKept
  <2> QED BY <1>1, <1>7, <2>1, PublishKeeps
<1>9. Sound(Strip') /\ NamesOf(tabs') = NamesOf(tabs) /\ Follows(Strip, Strip')
      /\ (names' = names /\ queue' = queue => Known' /\ Asked')
  BY <1>1, <1>5, <1>6, <1>8, StillStep
<1>10. ActiveIsShown'
  BY <1>1, <1>5, <1>6 DEF ActiveIsShown
<1>11. CASE queue' = queue /\ names' = names
  <2>1. Kinds'
    BY <1>1, <1>2, <1>11 DEF Kinds
  <2>2. Replacing'
    <3>1. \A k \in DOMAIN queue' : queue'[k].kind = "new"
      BY <1>1, <1>2, <1>11
    <3>2. "new" # "replace"
      OBVIOUS
    <3> QED BY <3>1, <3>2 DEF Replacing
  <2> QED BY <1>9, <1>10, <1>11, <2>1, <2>2 DEF IInv
<1>12. CASE AsksForTab
  <2>1. /\ Known' /\ Asked' /\ queue' \in Seq(Request) /\ names' \in 0 .. MaxNames
        /\ \A k \in DOMAIN queue' : \/ queue'[k].kind = "new"
                                    \/ k \in DOMAIN queue /\ queue'[k] = queue[k]
    BY <1>8, <1>9, <1>12, AsksIs
  <2>2. Kinds'
    BY <1>1, <1>2, <2>1 DEF Kinds
  <2>3. Replacing'
    <3>1. \A k \in DOMAIN queue' : queue'[k].kind = "new"
      BY <1>1, <1>2, <2>1
    <3>2. "new" # "replace"
      OBVIOUS
    <3> QED BY <3>1, <3>2 DEF Replacing
  <2> QED BY <1>9, <1>10, <2>1, <2>2, <2>3 DEF IInv
<1> QED BY <1>1, <1>11, <1>12

\* A step that leaves the strip alone, or only what its tabs do.
LEMMA IdleStep ==
  ASSUME PanelAssumption, IInv,
         tabs' \in Seq(Sane), DOMAIN tabs' = DOMAIN tabs, active' = active,
         \A k \in DOMAIN tabs : /\ tabs'[k].name = tabs[k].name
                                /\ tabs'[k].pinned = tabs[k].pinned,
         queue' = queue, names' = names, Kept(latest', names),
         acts' \in 0 .. MaxActs, onTop' \in BOOLEAN, respawn' \in BOOLEAN,
         \/ phase' = phase /\ (phase # "chrome" \/ tabs' = tabs)
         \/ phase' \in {"input", "drain"} /\ phase \in {"input", "chrome"}
         \/ phase' \in {"input", "drain"} /\ (queue' = <<>> \/ phase' = phase)
  PROVE  IInv' /\ Follows(Strip, Strip')
<1>1. Kinds /\ Replacing /\ ActiveIsShown
      /\ \A k \in DOMAIN queue : phase # "drain" => queue[k].kind = "new"
  BY InvParts
<1>2. Sound(Strip') /\ NamesOf(tabs') = NamesOf(tabs) /\ Follows(Strip, Strip')
      /\ Known' /\ Asked' /\ (phase' = phase => Replacing')
  BY StillStep
<1>3. Kinds'
  <2>1. phase' = "off" => phase = "off"
    OBVIOUS
  <2>2. tabs = <<>> => tabs' = <<>>
    <3>1. tabs = <<>> => DOMAIN tabs' = 1 .. 0
      OBVIOUS
    <3> QED BY <3>1
  <2>3. phase' \in {"off", "input", "chrome", "drain"}
    BY <1>1 DEF Kinds
  <2> QED BY <1>1, <2>1, <2>2, <2>3 DEF Kinds
<1>4. Replacing'
  <2>1. CASE phase' = phase
    BY <1>2, <2>1
  <2>2. CASE phase \in {"input", "chrome"}
    <3>1. \A k \in DOMAIN queue' : queue'[k].kind = "new"
      BY <1>1, <2>2
    <3>2. "new" # "replace"
      OBVIOUS
    <3> QED BY <3>1, <3>2 DEF Replacing
  <2>3. CASE queue' = <<>>
    BY <2>3 DEF Replacing
  <2> QED BY <2>1, <2>2, <2>3
<1>5. ActiveIsShown'
  <2>1. CASE phase' # "chrome"
    BY <2>1 DEF ActiveIsShown
  <2>2. CASE phase' = "chrome"
    <3>1. phase = "chrome" /\ tabs' = tabs
      BY <2>2
    <3> QED BY <1>1, <3>1 DEF ActiveIsShown
  <2> QED BY <2>1, <2>2
<1> QED BY <1>2, <1>3, <1>4, <1>5 DEF IInv

LEMMA SameStripKeeps ==
  ASSUME PanelAssumption, IInv, Reload \/ NoClick \/ Show
  PROVE  IInv' /\ Follows(Strip, Strip')
<1>1. /\ tabs \in Seq(Sane) /\ Kept(latest, names)
      /\ acts \in 0 .. MaxActs /\ onTop \in BOOLEAN /\ respawn \in BOOLEAN
      /\ phase \in {"off", "input", "chrome", "drain"}
  BY InvParts DEF Kinds, Known
<1>2. /\ tabs' = tabs /\ active' = active /\ queue' = queue
      /\ names' = names /\ latest' = latest
  BY DEF Reload, NoClick, Show, strip, synced
<1>3. CASE Reload
  <2>1. Act /\ Continues /\ respawn' = TRUE
    BY <1>3 DEF Reload
  <2>2. /\ phase \in {"input", "chrome"} /\ phase' \in {"input", "drain"}
        /\ acts' \in 0 .. MaxActs /\ onTop' \in BOOLEAN
    BY <2>1, ActIs
  <2> QED BY <1>1, <1>2, <2>1, <2>2, IdleStep
<1>4. CASE NoClick
  <2>1. /\ phase = "chrome" /\ onTop' = onTop /\ respawn' = respawn /\ acts' = acts
        /\ phase' \in {"input", "drain"}
    BY <1>4 DEF NoClick, EndsFrame
  <2> QED BY <1>1, <1>2, <2>1, IdleStep
<1>5. CASE Show
  <2>1. onTop' \in BOOLEAN /\ respawn' = respawn /\ acts' = acts /\ phase' = phase
    BY <1>5 DEF Show
  <2> QED BY <1>1, <1>2, <2>1, IdleStep
<1> QED BY <1>3, <1>4, <1>5

LEMMA PumpDownloadsKeeps ==
  ASSUME PanelAssumption, IInv, PumpDownloads
  PROVE  IInv' /\ Follows(Strip, Strip')
<1>1. /\ tabs \in Seq(Sane) /\ Differ(tabs) /\ Kept(latest, names)
      /\ NamesOf(tabs) \subseteq 1 .. names /\ names \in Nat
      /\ acts \in 0 .. MaxActs /\ onTop \in BOOLEAN /\ respawn \in BOOLEAN
  BY InvParts DEF Kinds, Known
<1>2. /\ tabs' = tabs /\ active' = active /\ queue' = queue
      /\ names' = names /\ phase' = phase /\ phase \in {"off", "input"}
      /\ onTop' = onTop /\ respawn' = respawn /\ acts' = acts
      /\ Publish(Body(tabs, active), TRUE)
  BY DEF PumpDownloads, strip
<1>3. Kept(latest', names)
  <2>1. Kept(Body(tabs, active), names)
    BY <1>1, BodyIsKept
  <2> QED BY <1>1, <1>2, <2>1, PublishKeeps
<1> QED BY <1>1, <1>2, <1>3, IdleStep

LEMMA HideKeeps ==
  ASSUME PanelAssumption, IInv, Hide
  PROVE  IInv' /\ Follows(Strip, Strip')
<1>1. /\ tabs \in Seq(Sane) /\ Kept(latest, names)
      /\ DOMAIN tabs = 1 .. Len(tabs) /\ Len(tabs) \in Nat
      /\ acts \in 0 .. MaxActs /\ respawn \in BOOLEAN
  BY InvParts DEF Kinds, Known
<1>2. /\ tabs' = [i \in DOMAIN tabs |-> Told(tabs[i], TRUE)]
      /\ active' = active /\ queue' = queue
      /\ names' = names /\ latest' = latest /\ phase' = phase
      /\ phase \in {"off", "input"}
      /\ onTop' = FALSE /\ respawn' = respawn /\ acts' = acts
  BY DEF Hide, synced
<1>3. \A i \in DOMAIN tabs : /\ tabs'[i] \in Sane /\ tabs'[i].name = tabs[i].name
                             /\ tabs'[i].pinned = tabs[i].pinned
  <2> DEFINE h == TRUE
  <2>1. h \in BOOLEAN /\ \A i \in DOMAIN tabs : tabs'[i] = Told(tabs[i], h)
    BY <1>2
  <2> HIDE DEF h
  <2>2. \A i \in DOMAIN tabs : tabs[i] \in Sane
    BY <1>1
  <2> QED BY <2>1, <2>2, ToldIs
<1>4. tabs' \in Seq(Sane) /\ DOMAIN tabs' = DOMAIN tabs
  <2>1. tabs' = [i \in 1 .. Len(tabs) |-> tabs'[i]] /\ DOMAIN tabs' = 1 .. Len(tabs)
    BY <1>1, <1>2
  <2>2. tabs' \in [1 .. Len(tabs) -> Sane]
    BY <1>1, <1>3, <2>1
  <2> QED BY <1>1, <2>1, <2>2
<1>5. onTop' \in BOOLEAN /\ phase # "chrome"
  BY <1>2
<1> QED BY <1>1, <1>2, <1>3, <1>4, <1>5, IdleStep

LEMMA HappensKeeps ==
  ASSUME PanelAssumption, IInv, NEW i \in DOMAIN tabs, Dies(i) \/ Ages(i)
  PROVE  IInv' /\ Follows(Strip, Strip')
<1>1. /\ tabs \in Seq(Sane) /\ Kept(latest, names)
      /\ acts \in 0 .. MaxActs /\ onTop \in BOOLEAN /\ respawn \in BOOLEAN
      /\ MaxActs \in Nat
  BY InvParts DEF Kinds, Known, PanelAssumption
<1> DEFINE t == tabs[i]
           d == [t EXCEPT !.engine = "gone"]
           a == [t EXCEPT !.idle = TRUE]
<1>2. Happens(i, d) \/ Happens(i, a)
  BY DEF Dies, Ages
<1>3. t \in Tab /\ t \in Sane /\ (t.engine = "hidden" => t.told = "hidden")
  <2>1. t \in Sane
    BY <1>1
  <2> QED BY <2>1 DEF Sane
<1>4. d \in Sane /\ d.name = t.name /\ d.pinned = t.pinned
  <2> HIDE DEF t
  <2>1. d \in Tab /\ d.engine = "gone" /\ d.name = t.name /\ d.pinned = t.pinned
    BY <1>3 DEF Tab
  <2> QED BY <2>1 DEF Sane
<1>5. a \in Sane /\ a.name = t.name /\ a.pinned = t.pinned
  <2> HIDE DEF t
  <2>1. a \in Tab /\ a.name = t.name /\ a.pinned = t.pinned
        /\ a.engine = t.engine /\ a.told = t.told
    BY <1>3 DEF Tab
  <2> QED BY <1>3, <2>1 DEF Sane
<1> HIDE DEF d, a
<1>6. PICK u \in Sane : Happens(i, u) /\ u.name = t.name /\ u.pinned = t.pinned
  BY <1>2, <1>4, <1>5
<1>7. /\ tabs' = [tabs EXCEPT ![i] = u]
      /\ active' = active /\ queue' = queue
      /\ names' = names /\ latest' = latest /\ phase' = phase /\ phase = "input"
      /\ onTop' = onTop /\ respawn' = respawn /\ acts' = acts + 1 /\ acts < MaxActs
  BY <1>6 DEF Happens, synced
<1>8. tabs' \in Seq(Sane) /\ DOMAIN tabs' = DOMAIN tabs
  BY <1>1, <1>7
<1>9. \A k \in DOMAIN tabs : /\ tabs'[k].name = tabs[k].name
                             /\ tabs'[k].pinned = tabs[k].pinned
  BY <1>1, <1>6, <1>7
<1>10. acts' \in 0 .. MaxActs
  BY <1>1, <1>7
<1> HIDE DEF t
<1> QED BY <1>1, <1>7, <1>8, <1>9, <1>10, IdleStep

LEMMA RespawnActiveKeeps ==
  ASSUME PanelAssumption, IInv, RespawnActive
  PROVE  IInv' /\ Follows(Strip, Strip')
<1>1. /\ tabs \in Seq(Sane) /\ Kept(latest, names)
      /\ NamesOf(tabs) \subseteq 1 .. names /\ names \in Nat
      /\ acts \in 0 .. MaxActs /\ onTop \in BOOLEAN
      /\ Sound(Strip) /\ Strip.tabs = tabs /\ Strip.active = active
      /\ DOMAIN tabs = 1 .. Len(tabs) /\ Len(tabs) \in Nat
  BY InvParts DEF Kinds, Known, Strip
<1> DEFINE made(t) == [t EXCEPT !.engine = IF @ = "page" THEN @ ELSE "shown",
                                !.named = FALSE,
                                !.asleep = FALSE, !.idle = FALSE]
           ts == [i \in DOMAIN tabs |-> IF i # active THEN tabs[i] ELSE made(tabs[i])]
           r == [Strip EXCEPT !.tabs = ts]
<1>2. /\ phase = "drain" /\ respawn' = FALSE
      /\ (tabs' = tabs /\ active' = active /\ latest' = latest) \/ Becomes(r)
      /\ onTop' = onTop /\ queue' = queue /\ names' = names /\ acts' = acts
      /\ phase' \in {"input", "drain"} /\ (queue' = <<>> \/ phase' = phase)
  BY DEF RespawnActive, EndsFrame, strip, synced
<1>3. ASSUME NEW t \in Sane
      PROVE  made(t) \in Sane /\ made(t).name = t.name /\ made(t).pinned = t.pinned
  <2> DEFINE e == IF t.engine = "page" THEN t.engine ELSE "shown"
             u == [t EXCEPT !.engine = e, !.named = FALSE,
                            !.asleep = FALSE, !.idle = FALSE]
  <2>1. t \in Tab
    BY DEF Sane
  <2>2. e \in {"page", "shown"}
    OBVIOUS
  <2>3. made(t) = u
    OBVIOUS
  <2> HIDE DEF e, made
  <2>4. u \in Tab /\ u.name = t.name /\ u.pinned = t.pinned /\ u.engine = e
    BY <2>1, <2>2 DEF Tab
  <2> HIDE DEF u
  <2> QED BY <2>2, <2>3, <2>4 DEF Sane
<1> HIDE DEF made
<1>4. \A i \in DOMAIN tabs : /\ ts[i] \in Sane /\ ts[i].name = tabs[i].name
                             /\ ts[i].pinned = tabs[i].pinned
  BY <1>1, <1>3
<1>5. ts \in Seq(Sane) /\ DOMAIN ts = DOMAIN tabs
  <2>1. ts = [i \in 1 .. Len(tabs) |-> ts[i]] /\ DOMAIN ts = 1 .. Len(tabs)
    BY <1>1
  <2> HIDE DEF ts
  <2>2. ts \in [1 .. Len(tabs) -> Sane]
    BY <1>1, <1>4, <2>1
  <2> QED BY <1>1, <2>1, <2>2
<1> HIDE DEF ts
<1>6. r.tabs = ts /\ r.active = active
  BY DEF Strip
<1> HIDE DEF r
<1>7. Sound(r) /\ NamesOf(r.tabs) = NamesOf(tabs)
  BY <1>1, <1>4, <1>5, <1>6, AlikeIs
<1>8. /\ tabs' \in Seq(Sane) /\ DOMAIN tabs' = DOMAIN tabs
      /\ active' = active /\ Kept(latest', names)
      /\ \A k \in DOMAIN tabs : /\ tabs'[k].name = tabs[k].name
                                /\ tabs'[k].pinned = tabs[k].pinned
  <2>1. CASE tabs' = tabs /\ active' = active /\ latest' = latest
    BY <1>1, <2>1
  <2>2. CASE Becomes(r)
    <3>1. tabs' = r.tabs /\ active' = r.active /\ Kept(latest', names)
      BY <1>1, <1>7, <2>2, BecomesIs
    <3> QED BY <1>4, <1>5, <1>6, <3>1
  <2> QED BY <1>2, <2>1, <2>2
<1> QED BY <1>1, <1>2, <1>8, IdleStep

\* What is left of the queue was in it.
LEMMA TailIs ==
  ASSUME NEW T, NEW s \in Seq(T), s # <<>>
  PROVE  /\ Tail(s) \in Seq(T) /\ Head(s) \in T /\ Head(s) = s[1]
         /\ 1 \in DOMAIN s
         /\ \A k \in DOMAIN Tail(s) :
              k + 1 \in DOMAIN s /\ k + 1 # 1 /\ Tail(s)[k] = s[k + 1]
         /\ \A k, l \in DOMAIN Tail(s) : k + 1 = l + 1 => k = l
<1>1. /\ Tail(s) \in Seq(T) /\ Head(s) \in T /\ Len(Tail(s)) = Len(s) - 1
      /\ \A k \in 1 .. Len(Tail(s)) : Tail(s)[k] = s[k + 1]
  BY HeadTailProperties
<1>2. Len(s) \in Nat /\ Len(s) # 0 /\ DOMAIN s = 1 .. Len(s)
  BY EmptySeq
<1>3. DOMAIN Tail(s) = 1 .. Len(s) - 1
  BY <1>1
<1>4. Head(s) = s[1]
  OBVIOUS
<1> QED BY <1>1, <1>2, <1>3, <1>4

\* The request at the head is refused, opens a tab or replaces a page; the
\* tab in front changes to the one it opened or replaced, or not at all.
LEMMA DrainRequestKeeps ==
  ASSUME PanelAssumption, IInv, DrainRequest
  PROVE  /\ IInv'
         /\ \/ Follows(Strip, Strip')
            \/ Head(queue).kind = "new" /\ ~(NamesOf(tabs') \subseteq NamesOf(tabs))
            \/ /\ Head(queue).kind = "replace"
               /\ FrontOf(Strip') = Head(queue).name
<1> DEFINE q == Head(queue)
           new == Fresh(q.name)
           rest == Tail(queue)
           born == Push(Strip, new)
           heir == [new EXCEPT !.told = tabs[q.index].told,
                               !.pinned = tabs[q.index].pinned,
                               !.wait = tabs[q.index].wait]
           r == [tabs |-> [tabs EXCEPT ![q.index] = heir], active |-> q.index]
<1>1. /\ Kinds /\ Known /\ Asked /\ Replacing /\ Sound(Strip)
      /\ Strip.tabs = tabs /\ Strip.active = active
      /\ tabs \in Seq(Sane) /\ Differ(tabs)
      /\ names \in Nat /\ 1 .. names \subseteq Names
  BY InvParts DEF Strip
<1>2. /\ phase = "drain" /\ queue # <<>> /\ queue' = rest
      /\ onTop' = onTop /\ respawn' = respawn /\ names' = names /\ acts' = acts
      /\ phase' \in {"input", "drain"}
      /\ queue' # <<>> => phase' = "drain"
  BY DEF DrainRequest, EndsFrame
<1>3. \/ tabs' = tabs /\ active' = active /\ latest' = latest
      \/ (q.kind = "new" \/ q.index \notin DOMAIN tabs) /\ Becomes(born)
      \/ q.kind = "replace" /\ q.index \in DOMAIN tabs /\ Becomes(r)
  BY DEF DrainRequest, strip, synced
<1>4. /\ rest \in Seq(Request) /\ q \in Request /\ q = queue[1] /\ 1 \in DOMAIN queue
      /\ \A k \in DOMAIN rest :
           k + 1 \in DOMAIN queue /\ k + 1 # 1 /\ rest[k] = queue[k + 1]
      /\ \A k, l \in DOMAIN rest : k + 1 = l + 1 => k = l
  BY <1>1, <1>2, TailIs DEF Kinds
<1> HIDE DEF rest, q
<1>5. /\ NamesOf(tabs) \subseteq 1 .. names /\ Kept(latest, names)
      /\ \A k \in DOMAIN queue : queue[k].name \in 1 .. names
      /\ q.name \in 1 .. names
  BY <1>1, <1>4 DEF Known
<1>6. /\ q.kind \in {"new", "replace"}
      /\ q.kind = "replace" =>
           q.index \in DOMAIN tabs /\ tabs[q.index].name = q.name
      /\ q.kind = "new" => q.name \notin NamesOf(tabs)
  BY <1>1, <1>4 DEF Request, Replacing, Asked
<1>7. ActiveIsShown'
  BY <1>2 DEF ActiveIsShown
<1>8. Kinds'
  BY <1>1, <1>2, <1>4 DEF Kinds
\* What is asked for still holds of the rest of the queue, whoever has come.
<1>9. ASSUME NEW N, NamesOf(tabs') \subseteq NamesOf(tabs) \cup N,
             N \subseteq {q.name}, N # {} => q.kind = "new",
             Sound(Strip'), Kept(latest', names),
             DOMAIN tabs \subseteq DOMAIN tabs',
             \A k \in DOMAIN tabs : tabs'[k].name = tabs[k].name
      PROVE  IInv'
  <2>1. Known'
    <3>1. NamesOf(tabs') \subseteq 1 .. names
      BY <1>5, <1>9
    <3> QED BY <1>2, <1>4, <1>5, <1>9, <3>1 DEF Known
  <2>2. Asked'
    <3>1. ASSUME NEW k \in DOMAIN rest, rest[k].kind = "new"
          PROVE  rest[k].name \notin NamesOf(tabs')
      <4>1. queue[k + 1].kind = "new" /\ rest[k].name = queue[k + 1].name
            /\ k + 1 \in DOMAIN queue /\ k + 1 # 1
        BY <1>4, <3>1
      <4>2. queue[k + 1].name \notin NamesOf(tabs)
        BY <1>1, <4>1 DEF Asked
      <4>3. q.kind = "new" => queue[k + 1].name # q.name
        BY <1>1, <1>4, <4>1 DEF Asked
      <4> QED BY <1>9, <4>1, <4>2, <4>3
    <3>2. ASSUME NEW k \in DOMAIN rest, NEW l \in DOMAIN rest,
                 rest[k].kind = "new", rest[l].kind = "new",
                 rest[k].name = rest[l].name
          PROVE  k = l
      <4>1. k + 1 = l + 1
        BY <1>1, <1>4, <3>2 DEF Asked
      <4> QED BY <1>4, <4>1
    <3> QED BY <1>2, <3>1, <3>2 DEF Asked
  <2>3. Replacing'
    <3> SUFFICES ASSUME NEW k \in DOMAIN queue', queue'[k].kind = "replace"
                 PROVE  /\ phase' = "drain"
                        /\ queue'[k].index \in DOMAIN tabs'
                        /\ tabs'[queue'[k].index].name = queue'[k].name
      BY DEF Replacing
    <3>1. queue' # <<>> /\ queue'[k] = queue[k + 1] /\ k + 1 \in DOMAIN queue
      BY <1>2, <1>4
    <3>2. queue[k + 1].index \in DOMAIN tabs
          /\ tabs[queue[k + 1].index].name = queue[k + 1].name
      BY <1>1, <3>1 DEF Replacing
    <3> QED BY <1>2, <1>9, <3>1, <3>2
  <2> QED BY <1>7, <1>8, <1>9, <2>1, <2>2, <2>3 DEF IInv
<1>10. CASE tabs' = tabs /\ active' = active /\ latest' = latest
  <2>1. Strip' = Strip
    BY <1>10 DEF Strip
  <2>2. Sound(Strip') /\ Follows(Strip, Strip')
    BY <1>1, <2>1, FollowsItself
  <2>3. IInv'
    <3> DEFINE N == {}
    <3>1. /\ NamesOf(tabs') \subseteq NamesOf(tabs) \cup N /\ N \subseteq {q.name}
          /\ DOMAIN tabs \subseteq DOMAIN tabs' /\ Kept(latest', names)
          /\ \A k \in DOMAIN tabs : tabs'[k].name = tabs[k].name
          /\ ~(N # {})
      BY <1>5, <1>10
    <3> HIDE DEF N
    <3> QED BY <1>9, <2>2, <3>1
  <2> QED BY <2>2, <2>3
<1>11. CASE (q.kind = "new" \/ q.index \notin DOMAIN tabs) /\ Becomes(born)
  <2>1. q.kind = "new" /\ q.name \notin NamesOf(tabs)
    BY <1>6, <1>11
  <2>2. new \in Sane /\ new.name = q.name /\ ~new.pinned
    <3>1. q.name \in Names
      BY <1>1, <1>5
    <3> QED BY <3>1, FreshIs
  <2> HIDE DEF new
  <2>3. /\ Sound(born) /\ NamesOf(born.tabs) = NamesOf(tabs) \cup {q.name}
        /\ DOMAIN tabs \subseteq DOMAIN born.tabs
        /\ \A k \in DOMAIN tabs : born.tabs[k] = tabs[k]
    BY <1>1, <2>1, <2>2, PushIs
  <2> HIDE DEF born
  <2>4. NamesOf(born.tabs) \subseteq 1 .. names
    BY <1>5, <2>3
  <2>5. tabs' = born.tabs /\ Sound(Strip') /\ Kept(latest', names)
    BY <1>1, <1>5, <1>11, <2>3, <2>4, BecomesIs
  <2>6. IInv'
    <3> DEFINE N == {q.name}
    <3>1. /\ NamesOf(tabs') \subseteq NamesOf(tabs) \cup N /\ N \subseteq {q.name}
          /\ DOMAIN tabs \subseteq DOMAIN tabs'
          /\ \A k \in DOMAIN tabs : tabs'[k].name = tabs[k].name
      BY <2>3, <2>5
    <3> HIDE DEF N
    <3> QED BY <1>9, <2>1, <2>5, <3>1
  <2>7. ~(NamesOf(tabs') \subseteq NamesOf(tabs))
    BY <2>1, <2>3, <2>5
  <2> QED BY <2>1, <2>6, <2>7 DEF q
<1>12. CASE q.kind = "replace" /\ q.index \in DOMAIN tabs /\ Becomes(r)
  <2> DEFINE i == q.index
             t == tabs[i]
  <2>1. i \in DOMAIN tabs /\ t.name = q.name /\ t \in Sane /\ t \in Tab
    <3>1. t \in Sane
      BY <1>1, <1>12
    <3> QED BY <1>6, <1>12, <3>1 DEF Sane
  <2>2. new \in Sane /\ new \in Tab /\ new.name = q.name /\ new.engine = "shown"
    <3>1. q.name \in Names
      BY <1>1, <1>5
    <3>2. new \in Sane /\ new.name = q.name
      BY <3>1, FreshIs
    <3>3. new.engine = "shown"
      BY DEF Fresh
    <3> QED BY <3>2, <3>3 DEF Sane
  <2> HIDE DEF new
  <2>3. heir = [new EXCEPT !.told = t.told, !.pinned = t.pinned, !.wait = t.wait]
    OBVIOUS
  <2>4. r.tabs = [tabs EXCEPT ![i] = heir] /\ r.active = i
    OBVIOUS
  <2> HIDE DEF t, heir
  <2>5. heir \in Sane /\ heir.name = q.name /\ heir.pinned = t.pinned
    <3> DEFINE h == heir
    <3>1. /\ h \in Tab /\ h.name = new.name /\ h.pinned = t.pinned
          /\ h.engine = new.engine
      BY <2>1, <2>2, <2>3 DEF Tab
    <3> HIDE DEF h
    <3>2. h \in Sane /\ h.name = q.name /\ h.pinned = t.pinned
      BY <2>2, <3>1 DEF Sane
    <3> QED BY <3>2 DEF h
  <2> HIDE DEF r
  <2>6. Sound(r) /\ NamesOf(r.tabs) = NamesOf(tabs) /\ DOMAIN r.tabs = DOMAIN tabs
    BY <1>1, <2>1, <2>4, <2>5, ChangedIs DEF t
  <2>7. tabs' = r.tabs /\ active' = r.active /\ Sound(Strip') /\ Kept(latest', names)
    BY <1>1, <1>5, <1>12, <2>6, BecomesIs
  <2>8. \A k \in DOMAIN tabs : tabs'[k].name = tabs[k].name
    <3>1. \A k \in DOMAIN tabs : tabs'[k] = IF k = i THEN heir ELSE tabs[k]
      BY <1>1, <2>4, <2>7
    <3> QED BY <2>1, <2>5, <3>1 DEF t
  <2>9. IInv'
    <3> DEFINE N == {}
    <3>1. /\ NamesOf(tabs') \subseteq NamesOf(tabs) \cup N /\ N \subseteq {q.name}
          /\ DOMAIN tabs \subseteq DOMAIN tabs'
          /\ ~(N # {})
      BY <2>6, <2>7
    <3> HIDE DEF N
    <3> QED BY <1>9, <2>7, <2>8, <3>1
  <2>10. FrontOf(Strip') = q.name
    <3>1. Strip'.tabs = tabs' /\ Strip'.active = active'
      BY DEF Strip
    <3>2. active' = i /\ i \in DOMAIN tabs' /\ tabs'[i].name = q.name
      BY <2>1, <2>4, <2>6, <2>7, <2>8 DEF t
    <3> QED BY <3>1, <3>2 DEF FrontOf
  <2> QED BY <1>12, <2>9, <2>10 DEF q
<1> QED BY <1>3, <1>10, <1>11, <1>12

\* The strip is empty, or about to be: nothing is in front.
LEMMA EmptyStrip ==
  ASSUME NEW s, s.tabs = <<>>, s.active = 1
  PROVE  Sound(s) /\ NamesOf(s.tabs) = {} /\ FrontOf(s) = 0
<1>1. s.tabs \in Seq(Sane) /\ DOMAIN s.tabs = {}
  OBVIOUS
<1>2. Leads(s.tabs) /\ Differ(s.tabs)
  BY <1>1 DEF Leads, Differ
<1>3. NamesOf(s.tabs) = {} /\ FrontOf(s) = 0
  BY <1>1 DEF NamesOf, FrontOf
<1>4. s.active \in 1 .. (IF s.tabs = <<>> THEN 1 ELSE Len(s.tabs))
  OBVIOUS
<1> QED BY <1>1, <1>2, <1>3, <1>4 DEF Sound

LEMMA EnsureLiveTabKeeps ==
  ASSUME PanelAssumption, IInv, EnsureLiveTab
  PROVE  IInv' /\ Follows(Strip, Strip')
<1> DEFINE old == ToRestore(latest)
           ask(n) == [kind |-> "new", name |-> n, index |-> 0]
<1>1. /\ Kinds /\ Known /\ Sound(Strip) /\ names \in Nat /\ MaxNames \in Nat
      /\ names <= MaxNames /\ 1 .. names \subseteq Names
      /\ MaxNames > 0 /\ Kept(latest, names)
  BY InvParts DEF Known, PanelAssumption
<1>2. /\ phase = "off" /\ phase' = "drain"
      /\ tabs' = tabs /\ active' = active /\ onTop' = onTop /\ respawn' = respawn
      /\ acts' = acts /\ latest' = latest
      /\ \/ /\ old # <<>>
            /\ queue' = [i \in DOMAIN old |-> ask(old[i])]
            /\ names' = names
         \/ /\ queue' = <<ask(names')>>
            /\ names' = IF names < MaxNames THEN names + 1 ELSE names
  BY DEF EnsureLiveTab, strip
<1>3. tabs = <<>>
  BY <1>1, <1>2 DEF Kinds
<1>4. NamesOf(tabs') = {}
  BY <1>2, <1>3 DEF NamesOf
<1>5. \A n \in Names : /\ ask(n) \in Request /\ ask(n).kind = "new"
                       /\ ask(n).name = n
  BY DEF Request
<1>6. /\ queue' \in Seq(Request) /\ names' \in Nat
      /\ names <= names' /\ names' <= MaxNames
      /\ \A k \in DOMAIN queue' : /\ queue'[k].kind = "new"
                                  /\ queue'[k].name \in 1 .. names'
      /\ \A k, l \in DOMAIN queue' : queue'[k].name = queue'[l].name => k = l
  <2>1. CASE /\ queue' = [i \in DOMAIN old |-> ask(old[i])]
             /\ names' = names
    <3>1. old \in Seq(1 .. names) /\ Once(old)
      BY <1>1, ToRestoreIs
    <3> HIDE DEF old, ask
    <3> DEFINE N == 1 .. names
    <3>2. DOMAIN old = 1 .. Len(old) /\ Len(old) \in Nat
          /\ \A k \in DOMAIN old : old[k] \in N
      <4>1. old \in Seq(N)
        BY <3>1
      <4> HIDE DEF N
      <4> QED BY <4>1
    <3>3. \A k \in DOMAIN old : old[k] \in Names
      BY <1>1, <3>2
    <3>4. DOMAIN queue' = DOMAIN old /\ \A k \in DOMAIN old : queue'[k] = ask(old[k])
      BY <2>1
    <3>5. queue' \in Seq(Request)
      <4>1. queue' = [k \in 1 .. Len(old) |-> queue'[k]]
        BY <2>1, <3>2
      <4>2. \A k \in 1 .. Len(old) : queue'[k] \in Request
        BY <1>5, <3>2, <3>3, <3>4
      <4>3. queue' \in [1 .. Len(old) -> Request]
        BY <4>1, <4>2
      <4> QED BY <3>2, <4>3
    <3>6. \A k \in DOMAIN old : queue'[k].kind = "new" /\ queue'[k].name = old[k]
      BY <1>5, <3>3, <3>4
    <3>7. \A k, l \in DOMAIN queue' : queue'[k].name = queue'[l].name => k = l
      BY <3>1, <3>4, <3>6 DEF Once
    <3>8. names' \in Nat /\ names <= names' /\ names' <= MaxNames
      BY <1>1, <2>1
    <3> QED BY <2>1, <3>2, <3>4, <3>5, <3>6, <3>7, <3>8
  <2>2. CASE /\ queue' = <<ask(names')>>
             /\ names' = IF names < MaxNames THEN names + 1 ELSE names
    <3>1. names' \in Nat /\ names <= names' /\ names' <= MaxNames
          /\ names' \in 1 .. names'
      BY <1>1, <2>2
    <3>2. names' \in Names
      BY <1>1, <3>1 DEF Names
    <3>3. /\ ask(names') \in Request /\ ask(names').kind = "new"
          /\ ask(names').name = names'
      BY <1>5, <3>2
    <3> HIDE DEF ask
    <3>4. queue' \in Seq(Request) /\ DOMAIN queue' = {1} /\ queue'[1] = ask(names')
      BY <2>2, <3>3
    <3> QED BY <3>1, <3>3, <3>4
  <2> QED BY <1>2, <2>1, <2>2
<1>7. Kinds'
  BY <1>1, <1>2, <1>6 DEF Kinds
<1>8. Known'
  <2>1. Kept(latest', names')
    BY <1>1, <1>2, <1>6, KeptGrows
  <2> QED BY <1>4, <1>6, <2>1 DEF Known
<1>9. Asked'
  BY <1>4, <1>6 DEF Asked
<1>10. Replacing'
  <2>1. "new" # "replace"
    OBVIOUS
  <2> QED BY <1>6, <2>1 DEF Replacing
<1>11. ActiveIsShown'
  BY <1>2 DEF ActiveIsShown
<1>12. Strip' = Strip
  BY <1>2 DEF Strip
<1>13. Sound(Strip') /\ Follows(Strip, Strip')
  BY <1>1, <1>12, FollowsItself
<1> QED BY <1>7, <1>8, <1>9, <1>10, <1>11, <1>13 DEF IInv

LEMMA RestartKeeps ==
  ASSUME PanelAssumption, IInv, Restart
  PROVE  IInv' /\ Follows(Strip, Strip')
<1>1. Kinds /\ Known /\ MaxActs \in Nat
  BY InvParts DEF PanelAssumption
<1>2. /\ phase' = "off" /\ tabs' = <<>> /\ active' = 1 /\ queue' = <<>>
      /\ respawn' = FALSE /\ onTop' = TRUE /\ latest' = latest /\ names' = names
      /\ acts' = acts + 1 /\ acts < MaxActs
  BY DEF Restart
<1>3. Strip'.tabs = <<>> /\ Strip'.active = 1
  BY <1>2 DEF Strip
<1>4. Sound(Strip') /\ NamesOf(Strip'.tabs) = {} /\ FrontOf(Strip') = 0
  BY <1>3, EmptyStrip
<1>5. Follows(Strip, Strip')
  BY <1>4 DEF Follows
<1>6. NamesOf(tabs') = {}
  BY <1>2, <1>3, <1>4
<1>7. Kinds'
  <2>1. acts' \in 0 .. MaxActs /\ <<>> \in Seq(Request)
    BY <1>1, <1>2 DEF Kinds
  <2> QED BY <1>1, <1>2, <2>1 DEF Kinds
<1>8. Known' /\ Asked' /\ Replacing'
  BY <1>1, <1>2, <1>6 DEF Known, Asked, Replacing
<1>9. ActiveIsShown'
  BY <1>2 DEF ActiveIsShown
<1> QED BY <1>4, <1>5, <1>7, <1>8, <1>9 DEF IInv

LEMMA InitHolds ==
  ASSUME PanelAssumption, Init
  PROVE  IInv
<1>1. /\ phase = "off" /\ tabs = <<>> /\ active = 1 /\ queue = <<>>
      /\ onTop = TRUE /\ respawn = FALSE /\ names = Saved /\ acts = 0
      /\ latest.tabs = [i \in 1 .. Saved |-> i]
  BY DEF Init
<1>2. Saved \in Nat /\ MaxNames \in Nat /\ Saved <= MaxNames /\ MaxActs \in Nat
  BY DEF PanelAssumption
<1>3. Strip.tabs = <<>> /\ Strip.active = 1
  BY <1>1 DEF Strip
<1>4. Sound(Strip) /\ NamesOf(Strip.tabs) = {}
  BY <1>3, EmptyStrip
<1>5. Kinds
  <2>1. queue \in Seq(Request)
    <3>1. <<>> \in Seq(Request)
      OBVIOUS
    <3> QED BY <1>1, <3>1
  <2>2. names \in 0 .. MaxNames /\ acts \in 0 .. MaxActs
    BY <1>1, <1>2
  <2>3. /\ phase \in {"off", "input", "chrome", "drain"}
        /\ onTop \in BOOLEAN /\ respawn \in BOOLEAN
    BY <1>1
  <2>4. phase = "off" => tabs = <<>> /\ queue = <<>>
    BY <1>1
  <2> QED BY <2>1, <2>2, <2>3, <2>4 DEF Kinds
<1>6. Kept(latest, names)
  <2> DEFINE b == [i \in 1 .. Saved |-> i]
  <2>1. b \in [1 .. Saved -> 1 .. Saved]
    OBVIOUS
  <2>2. b \in Seq(1 .. Saved)
    BY <1>2, <2>1
  <2>3. Once(b)
    BY DEF Once
  <2> QED BY <1>1, <2>2, <2>3 DEF Kept
<1>7. Known /\ Asked /\ Replacing
  <2>1. NamesOf(tabs) = {}
    BY <1>1, <1>3, <1>4
  <2> QED BY <1>1, <1>6, <2>1 DEF Known, Asked, Replacing
<1>8. ActiveIsShown
  BY <1>1 DEF ActiveIsShown
<1> QED BY <1>4, <1>5, <1>7, <1>8 DEF IInv

LEMMA StutterKeeps ==
  ASSUME IInv, UNCHANGED vars
  PROVE  IInv' /\ Strip' = Strip
<1>1. /\ phase' = phase /\ tabs' = tabs /\ active' = active /\ onTop' = onTop
      /\ queue' = queue /\ respawn' = respawn /\ latest' = latest
      /\ names' = names /\ acts' = acts
  BY DEF vars
<1>2. Strip' = Strip
  BY <1>1 DEF Strip
<1>3. Kinds' /\ Known' /\ Asked' /\ Replacing' /\ ActiveIsShown'
  BY <1>1 DEF IInv, Kinds, Known, Asked, Replacing, ActiveIsShown, Live
<1> QED BY <1>2, <1>3 DEF IInv

-----------------------------------------------------------------------------
(* The theorems.                                                           *)

\* In every step but those ActiveStays names the strip keeps its front.
Chosen == \/ \E i \in DOMAIN tabs : SelectTab(i) \/ CloseOthers(i)
          \/ OpenPage
StripSteps ==
    \/ Chosen
    \/ Follows(Strip, Strip')
    \/ ~(NamesOf(tabs') \subseteq NamesOf(tabs))
    \/ ComesBack

LEMMA EveryStep ==
  ASSUME PanelAssumption, IInv, [Next]_vars
  PROVE  IInv' /\ StripSteps
<1>1. CASE UNCHANGED vars
  BY <1>1, StutterKeeps, FollowsItself DEF StripSteps
<1>2. CASE NewTab
  BY <1>2, NewTabKeeps DEF StripSteps
<1>3. CASE OpenPage
  BY <1>3, OpenPageKeeps DEF StripSteps, Chosen
<1>4. CASE LoadUrl
  BY <1>4, LoadUrlKeeps DEF StripSteps
<1>5. CASE Reload \/ NoClick \/ Show
  BY <1>5, SameStripKeeps DEF StripSteps
<1>6. ASSUME NEW i \in DOMAIN tabs,
             \/ SelectTab(i) \/ CloseTab(i) \/ PinTab(i)
             \/ CloseOthers(i) \/ CloseToTheRight(i)
             \/ \E j \in DOMAIN tabs : MoveTab(i, j)
      PROVE  IInv' /\ StripSteps
  <2>1. CASE SelectTab(i)
    BY <2>1, SelectTabKeeps DEF StripSteps, Chosen
  <2>2. CASE CloseTab(i)
    BY <2>2, CloseTabKeeps DEF StripSteps
  <2>3. CASE PinTab(i)
    BY <2>3, PinTabKeeps DEF StripSteps
  <2>4. CASE CloseOthers(i)
    BY <2>4, CloseOthersKeeps DEF StripSteps, Chosen
  <2>5. CASE CloseToTheRight(i)
    BY <2>5, CloseToTheRightKeeps DEF StripSteps
  <2>6. CASE \E j \in DOMAIN tabs : MoveTab(i, j)
    BY <2>6, MoveTabKeeps DEF StripSteps
  <2> QED BY <1>6, <2>1, <2>2, <2>3, <2>4, <2>5, <2>6
<1>7. CASE \E ok \in BOOLEAN : Frame(ok)
  <2>1. PICK ok \in BOOLEAN : Frame(ok)
    BY <1>7
  <2>2. IInv' /\ Follows(Strip, Strip')
    BY <2>1, FrameKeeps
  <2> QED BY <2>2 DEF StripSteps
<1>8. CASE DrainRequest
  <2>1. /\ IInv'
        /\ \/ Follows(Strip, Strip')
           \/ Head(queue).kind = "new" /\ ~(NamesOf(tabs') \subseteq NamesOf(tabs))
           \/ /\ Head(queue).kind = "replace"
              /\ FrontOf(Strip') = Head(queue).name
    BY <1>8, DrainRequestKeeps
  <2>2. phase = "drain" /\ queue # <<>>
    BY <1>8 DEF DrainRequest
  <2>3. FrontOf(Strip') = InFront'
    BY DEF FrontOf, InFront, Strip
  <2> QED BY <2>1, <2>2, <2>3 DEF StripSteps, ComesBack
<1>9. CASE RespawnActive
  BY <1>9, RespawnActiveKeeps DEF StripSteps
<1>10. CASE Hide
  BY <1>10, HideKeeps DEF StripSteps
<1>11. CASE PumpDownloads
  BY <1>11, PumpDownloadsKeeps DEF StripSteps
<1>12. CASE EnsureLiveTab
  BY <1>12, EnsureLiveTabKeeps DEF StripSteps
<1>13. CASE Restart
  BY <1>13, RestartKeeps DEF StripSteps
<1>14. CASE \E i \in DOMAIN tabs : Dies(i) \/ Ages(i)
  <2>1. PICK i \in DOMAIN tabs : Dies(i) \/ Ages(i)
    BY <1>14
  <2>2. IInv' /\ Follows(Strip, Strip')
    BY <2>1, HappensKeeps
  <2> QED BY <2>2 DEF StripSteps
<1> QED
  BY <1>1, <1>2, <1>3, <1>4, <1>5, <1>6, <1>7, <1>8, <1>9, <1>10, <1>11,
     <1>12, <1>13, <1>14 DEF Next, UserActs, Drain

THEOREM InvHolds ==
  Spec => []IInv
<1>1. Init => IInv
  BY PanelAssumption, InitHolds
<1>2. IInv /\ [Next]_vars => IInv'
  BY PanelAssumption, EveryStep
<1> QED BY <1>1, <1>2, PTL DEF Spec

\* The strip is well formed after every sequence of opens, closes, drags,
\* pins, replacements and restarts: the index of the tab in front points into
\* it, and pinned tabs lead.
THEOREM StripStaysSound ==
  Spec => []StripSound
<1>1. IInv => StripSound
  <2> SUFFICES ASSUME IInv PROVE StripSound
    OBVIOUS
  <2>1. Kinds /\ Sound(Strip) /\ tabs \in Seq(Sane)
    BY PanelAssumption, InvParts
  <2>2. Strip.tabs = tabs /\ Strip.active = active
    BY DEF Strip
  <2>3. active \in 1 .. (IF tabs = <<>> THEN 1 ELSE Len(tabs)) /\ Leads(tabs)
    BY <2>1, <2>2 DEF Sound
  <2>4. tabs \in Seq(Tab)
    <3>1. Sane \subseteq Tab
      BY DEF Sane
    <3>2. tabs \in [1 .. Len(tabs) -> Tab] /\ Len(tabs) \in Nat
      BY <2>1, <3>1
    <3> QED BY <3>2
  <2>5. \A k \in DOMAIN queue :
           queue[k] \in [kind : {"new", "replace"}, name : Names, index : Nat]
    BY PanelAssumption, InvParts DEF Request
  <2>6. TypeOK
    BY <2>1, <2>3, <2>4, <2>5 DEF Kinds, TypeOK
  <2>7. PinnedInFront
    BY <2>3 DEF Leads, PinnedInFront
  <2> QED BY <2>6, <2>7 DEF StripSound
<1> QED BY <1>1, InvHolds, PTL

\* Once the poll has reconciled visibility, the helper of the tab in front
\* paints, whatever was hidden, selected, closed or replaced before.
THEOREM ActiveTabIsShown ==
  Spec => []ActiveIsShown
<1>1. IInv => ActiveIsShown
  BY DEF IInv
<1> QED BY <1>1, InvHolds, PTL

\* No close, drag, pin, poll or respawn changes the tab in front while it is
\* in the strip.
THEOREM FrontStays ==
  Spec => ActiveStays
<1> DEFINE A == \/ \E i \in DOMAIN tabs : SelectTab(i) \/ CloseOthers(i)
                \/ ~(Shown' \subseteq Shown)
                \/ OpenPage \/ ComesBack
                \/ InFront \in Shown' => InFront' = InFront
<1>1. IInv /\ [Next]_vars => [A]_vars
  <2> SUFFICES ASSUME IInv, [Next]_vars PROVE A
    OBVIOUS
  <2>1. StripSteps
    BY PanelAssumption, EveryStep
  <2>2. NamesOf(tabs) = Shown /\ NamesOf(tabs') = Shown'
    BY DEF NamesOf, Shown
  <2>3. FrontOf(Strip) = InFront /\ FrontOf(Strip') = InFront'
    BY DEF FrontOf, InFront, Strip
  <2>4. Follows(Strip, Strip') => (InFront \in Shown' => InFront' = InFront)
    BY <2>2, <2>3 DEF Follows, Strip
  <2> QED BY <2>1, <2>2, <2>4 DEF StripSteps, Chosen
<1> HIDE DEF A
<1>2. Spec => [][A]_vars
  BY <1>1, InvHolds, PTL DEF Spec
<1> QED BY <1>2 DEF A, ActiveStays

\* A request to replace a page, asked for by a click on it, still points at that
\* page when the shell's drain gets to it, whatever was pushed before it; and a
\* request for a new tab is for a tab the strip does not have.
THEOREM RequestsStayTrue ==
  Spec => [](Replacing /\ Asked)
<1>1. IInv => Replacing /\ Asked
  BY DEF IInv
<1> QED BY <1>1, InvHolds, PTL
=============================================================================
