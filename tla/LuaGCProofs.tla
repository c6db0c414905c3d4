----------------------------- MODULE LuaGCProofs -----------------------------
(***************************************************************************)
(* Proofs about LuaGC, for any finite or infinite set of objects of any    *)
(* kinds and any writes: up to a finalizer that takes sweepgc out of its   *)
(* list, nothing accessible is freed, no black object points to a white    *)
(* one while marking, a full collection frees what it should, and only     *)
(* what is unreachable is finalized.                                       *)
(*                                                                         *)
(* In this order: lists and what Cut and Keep leave of them; what the      *)
(* traversals reach; the heap, step by step; sweeping; marking; the atomic *)
(* phase; the invariant; one lemma for each action; the theorems.          *)
(***************************************************************************)
EXTENDS LuaGC, SequenceTheorems, FiniteSetTheorems, WellFoundedInduction, TLAPS

ListNames == {"allgc", "finobj", "tobefnz"}
Lists == [ListNames -> Seq(Objects)]
Colors == {"white", "dead", "gray", "black"}
Entries == [key : Values, val : Values]

(* The parts of the invariant about a heap s, given as a record with the fields of *)
(* Sweeper.                                                                        *)

AllocatedIn(s) == UNION {ToSet(s.lists[n]) : n \in DOMAIN s.lists}
LiveIn(s) == {o \in AllocatedIn(s) : s.color[o] # "dead"}

Once(q) == \A i, j \in DOMAIN q : q[i] = q[j] => i = j

\* No object is twice in the lists.
OnePlace(l) ==
  /\ \A n \in ListNames : Once(l[n])
  /\ \A m, n \in ListNames : m # n => ToSet(l[m]) \cap ToSet(l[n]) = {}

SweeperOK(s) ==
  /\ s.lists \in Lists /\ OnePlace(s.lists)
  /\ s.color \in [Things -> Colors]
  /\ s.entry \in [Objects -> Entries]
  /\ s.sweepgc \in Values \cup {Header}

\* A free address refers to nothing.
FreeOK(s) == \A o \in Objects \ AllocatedIn(s) : s.entry[o] = Nothing /\ s.color[o] = "white"

\* An open upvalue is one of a thread that is in twups or dead.
UpvaluesOK(s) ==
  /\ s.touched \subseteq s.openupval
  /\ \A t \in s.openupval \cup s.twups : t \in AllocatedIn(s) /\ kind[t] = "thread"
  /\ \A t \in s.openupval \ s.twups : s.color[t] = "dead"
  /\ \A t \in s.twups : s.color[t] # "dead"
  /\ \A f \in Objects : kind[f] = "lclosure" => s.entry[f].key \in s.openupval \cup {None}
  /\ \A o \in Objects : kind[o] \in {"udata", "thread"} => s.entry[o].key = None

HoldsIn(e, o) == IF kind[o] = "lclosure" THEN {UpvalValue(e, o)} ELSE {e[o].key, e[o].val}

\* What is not dead refers only to what is not dead.
PointersOK(s) == \A o \in LiveIn(s) : HoldsIn(s.entry, o) \subseteq LiveIn(s) \cup {None}

ColorsOK(s) ==
  /\ s.color[Main] # "dead"
  /\ \A o \in Things : StaysGray(o) => s.color[o] # "black"

HeapOK(s) == SweeperOK(s) /\ FreeOK(s) /\ UpvaluesOK(s) /\ PointersOK(s) /\ ColorsOK(s)

\* The values of the program and the objects with finalizers are not dead.
RootsOK(s, st, fin) ==
  /\ st \cup fin \subseteq LiveIn(s)
  /\ fin = ToSet(s.lists.finobj) \cup ToSet(s.lists.tobefnz)
  /\ \A o \in fin : kind[o] = "udata"
-----------------------------------------------------------------------------
(* Lists *)

\* An object is allocated if it is in one of the three lists.
LEMMA AllocatedMember ==
  ASSUME NEW s, s.lists \in Lists, NEW o
  PROVE  o \in AllocatedIn(s) <=> \E n \in ListNames : o \in ToSet(s.lists[n])
BY DEF AllocatedIn, Lists

\* A sequence and the set of what is in it.
LEMMA SetOfSeq ==
  ASSUME NEW T, NEW l \in Seq(T)
  PROVE  /\ ToSet(l) \subseteq T /\ Len(l) \in Nat /\ DOMAIN l = 1 .. Len(l)
         /\ \A i \in DOMAIN l : l[i] \in ToSet(l)
         /\ \A o \in ToSet(l) : \E i \in DOMAIN l : l[i] = o
BY DEF ToSet

\* Only objects are in the lists.
LEMMA AllocatedType ==
  ASSUME NEW s, s.lists \in Lists
  PROVE  AllocatedIn(s) \subseteq Objects
<1>1. \A n \in ListNames : s.lists[n] \in Seq(Objects) BY DEF Lists
<1>2. \A n \in ListNames : ToSet(s.lists[n]) \subseteq Objects BY <1>1, SetOfSeq
<1> QED BY <1>2, AllocatedMember

\* An object put in front of a list.
LEMMA SetOfCons ==
  ASSUME NEW T, NEW l \in Seq(T), NEW o \in T
  PROVE  /\ <<o>> \o l \in Seq(T) /\ Len(<<o>> \o l) = Len(l) + 1 /\ (<<o>> \o l)[1] = o
         /\ DOMAIN (<<o>> \o l) = 1 .. Len(l) + 1
         /\ \A i \in 2 .. Len(l) + 1 : i - 1 \in DOMAIN l /\ (<<o>> \o l)[i] = l[i - 1]
         /\ ToSet(<<o>> \o l) = {o} \cup ToSet(l)
<1> DEFINE c == <<o>> \o l
<1>1. /\ c \in Seq(T) /\ Len(c) = Len(l) + 1 /\ c[1] = o /\ DOMAIN c = 1 .. Len(l) + 1
      /\ Len(l) \in Nat /\ DOMAIN l = 1 .. Len(l)
  OBVIOUS
<1>2. \A i \in 2 .. Len(l) + 1 : i - 1 \in DOMAIN l /\ c[i] = l[i - 1] OBVIOUS
<1> HIDE DEF c
<1>3. ASSUME NEW x \in ToSet(c) PROVE x \in {o} \cup ToSet(l)
  <2>1. PICK i \in DOMAIN c : c[i] = x BY DEF ToSet
  <2>2. CASE i = 1 BY <1>1, <2>1, <2>2
  <2>3. CASE i # 1
    <3>1. i \in 2 .. Len(l) + 1 BY <1>1, <2>1, <2>3
    <3> QED BY <1>2, <2>1, <3>1 DEF ToSet
  <2> QED BY <2>2, <2>3
<1>4. ASSUME NEW x \in ToSet(l) PROVE x \in ToSet(c)
  <2>1. PICK i \in DOMAIN l : l[i] = x BY DEF ToSet
  <2>2. i + 1 \in 2 .. Len(l) + 1 /\ i + 1 \in DOMAIN c /\ (i + 1) - 1 = i BY <1>1, <2>1
  <2>3. c[i + 1] = x BY <1>2, <2>1, <2>2
  <2> QED BY <2>2, <2>3 DEF ToSet
<1>5. 1 \in DOMAIN c BY <1>1
<1>6. o \in ToSet(c) BY <1>1, <1>5 DEF ToSet
<1>7. ToSet(c) = {o} \cup ToSet(l) BY <1>3, <1>4, <1>6
<1> QED BY <1>1, <1>2, <1>7 DEF c

\* A list without its first object.
LEMMA SetOfTail ==
  ASSUME NEW T, NEW l \in Seq(T), l # << >>
  PROVE  /\ Tail(l) \in Seq(T) /\ Len(Tail(l)) = Len(l) - 1 /\ Head(l) = l[1] /\ Head(l) \in T
         /\ \A i \in DOMAIN Tail(l) : i + 1 \in DOMAIN l /\ Tail(l)[i] = l[i + 1]
         /\ DOMAIN Tail(l) = 1 .. Len(l) - 1
         /\ ToSet(l) = {Head(l)} \cup ToSet(Tail(l))
<1> DEFINE c == Tail(l)
<1>1. /\ c \in Seq(T) /\ Len(c) = Len(l) - 1 /\ Head(l) = l[1] /\ Head(l) \in T
      /\ \A i \in 1 .. Len(c) : c[i] = l[i + 1]
  BY HeadTailProperties
<1>2. Len(l) \in Nat \ {0} /\ DOMAIN l = 1 .. Len(l) /\ DOMAIN c = 1 .. Len(l) - 1
  BY <1>1, EmptySeq
<1>3. \A i \in DOMAIN c : i + 1 \in DOMAIN l /\ c[i] = l[i + 1] BY <1>1, <1>2
<1> HIDE DEF c
<1>4. ASSUME NEW x \in ToSet(l) PROVE x \in {Head(l)} \cup ToSet(c)
  <2>1. PICK i \in DOMAIN l : l[i] = x BY DEF ToSet
  <2>2. CASE i = 1 BY <1>1, <2>1, <2>2
  <2>3. CASE i # 1
    <3>1. i - 1 \in DOMAIN c /\ (i - 1) + 1 = i BY <1>2, <2>1, <2>3
    <3>2. c[i - 1] = x BY <1>3, <2>1, <3>1
    <3> QED BY <3>1, <3>2 DEF ToSet
  <2> QED BY <2>2, <2>3
<1>5. ToSet(c) \subseteq ToSet(l) BY <1>3 DEF ToSet
<1>6. 1 \in DOMAIN l BY <1>2
<1>7. Head(l) \in ToSet(l) BY <1>1, <1>6 DEF ToSet
<1>8. ToSet(l) = {Head(l)} \cup ToSet(c) BY <1>4, <1>5, <1>7
<1> QED BY <1>1, <1>2, <1>3, <1>8 DEF c

\* An object that a list does not have may be put in front of it.
LEMMA OnceCons ==
  ASSUME NEW T, NEW l \in Seq(T), NEW o \in T, Once(l), o \notin ToSet(l)
  PROVE  Once(<<o>> \o l)
<1> DEFINE c == <<o>> \o l
<1>1. /\ DOMAIN c = 1 .. Len(l) + 1 /\ Len(l) \in Nat /\ c[1] = o
      /\ \A i \in 2 .. Len(l) + 1 : i - 1 \in DOMAIN l /\ c[i] = l[i - 1]
  BY SetOfCons
<1> HIDE DEF c
<1>2. \A i \in DOMAIN c : i = 1 \/ i \in 2 .. Len(l) + 1 BY <1>1
<1>3. \A i \in 2 .. Len(l) + 1 : c[i] # o BY <1>1 DEF ToSet
<1>4. ASSUME NEW i \in DOMAIN c, NEW j \in DOMAIN c, c[i] = c[j] PROVE i = j
  <2>1. CASE i = 1 \/ j = 1 BY <1>1, <1>2, <1>3, <1>4, <2>1
  <2>2. CASE i # 1 /\ j # 1
    <3>1. i \in 2 .. Len(l) + 1 /\ j \in 2 .. Len(l) + 1 BY <1>2, <2>2
    <3>2. l[i - 1] = l[j - 1] /\ i - 1 \in DOMAIN l /\ j - 1 \in DOMAIN l BY <1>1, <1>4, <3>1
    <3>3. i - 1 = j - 1 BY <3>2 DEF Once
    <3> QED BY <3>1, <3>3
  <2> QED BY <2>1, <2>2
<1>5. Once(c) BY <1>4 DEF Once
<1> QED BY <1>5 DEF c

\* The first object of a list is not in what follows.
LEMMA OnceTail ==
  ASSUME NEW T, NEW l \in Seq(T), l # << >>, Once(l)
  PROVE  Once(Tail(l)) /\ Head(l) \notin ToSet(Tail(l))
<1>1. /\ DOMAIN Tail(l) = 1 .. Len(l) - 1 /\ Head(l) = l[1] /\ Len(l) \in Nat
      /\ \A i \in DOMAIN Tail(l) : i + 1 \in DOMAIN l /\ Tail(l)[i] = l[i + 1]
  BY SetOfTail
<1>2. 1 \in DOMAIN l BY EmptySeq
<1>3. ASSUME NEW i \in DOMAIN Tail(l), NEW j \in DOMAIN Tail(l), Tail(l)[i] = Tail(l)[j]
      PROVE  i = j
  <2>1. i + 1 = j + 1 BY <1>1, <1>3 DEF Once
  <2> QED BY <1>1, <2>1
<1>4. ASSUME NEW i \in DOMAIN Tail(l), Tail(l)[i] = Head(l) PROVE FALSE
  <2>1. i + 1 = 1 BY <1>1, <1>2, <1>4 DEF Once
  <2> QED BY <1>1, <2>1
<1> QED BY <1>3, <1>4 DEF Once, ToSet

\* The objects of l between the places i and j.
Between(l, i, j) == {l[k] : k \in i + 1 .. j - 1}

\* Each place of c is the place of l before i, or from j on.
PlacesKept(c, l, i, j) ==
  \A k \in DOMAIN c : c[k] = l[IF k <= i THEN k ELSE k + ((j - i) - 1)]

\* What Cut leaves.
LEMMA CutIs ==
  ASSUME NEW T, NEW l \in Seq(T), NEW i \in 0 .. Len(l), NEW j \in i + 1 .. Len(l) + 1,
         Once(l)
  PROVE  /\ Cut(l, i, j) \in Seq(T) /\ Once(Cut(l, i, j))
         /\ Len(Cut(l, i, j)) = Len(l) - ((j - i) - 1)
         /\ PlacesKept(Cut(l, i, j), l, i, j)
         /\ ToSet(Cut(l, i, j)) = ToSet(l) \ Between(l, i, j)
<1> DEFINE c == Cut(l, i, j)
           p == SubSeq(l, 1, i)
           q == SubSeq(l, j, Len(l))
           d == (j - i) - 1
           at(k) == IF k <= i THEN k ELSE k + d
<1>1. /\ Len(l) \in Nat /\ DOMAIN l = 1 .. Len(l) /\ i \in Nat /\ j \in Nat /\ i <= Len(l)
      /\ i + 1 <= j /\ j <= Len(l) + 1 /\ d \in Nat
  OBVIOUS
<1>2. /\ p \in Seq(T) /\ Len(p) = i /\ \A k \in 1 .. i : p[k] = l[k]
  <2>1. \A k \in 1 .. i : l[k] \in T BY <1>1
  <2>2. /\ p \in Seq(T) /\ Len(p) = IF 1 <= i THEN i - 1 + 1 ELSE 0
        /\ \A k \in 1 .. i - 1 + 1 : p[k] = l[1 + k - 1]
    BY <1>1, <2>1, SubSeqProperties
  <2>3. \A k \in 1 .. i : k \in 1 .. i - 1 + 1 /\ 1 + k - 1 = k BY <1>1
  <2>4. Len(p) = i BY <1>1, <2>2
  <2> HIDE DEF p
  <2> QED BY <2>2, <2>3, <2>4
<1>3. /\ q \in Seq(T) /\ Len(q) = Len(l) - j + 1
      /\ \A k \in 1 .. Len(l) - j + 1 : q[k] = l[(j + k) - 1]
  <2>1. \A k \in j .. Len(l) : l[k] \in T BY <1>1
  <2>2. /\ q \in Seq(T) /\ Len(q) = IF j <= Len(l) THEN Len(l) - j + 1 ELSE 0
        /\ \A k \in 1 .. Len(l) - j + 1 : q[k] = l[j + k - 1]
    BY <1>1, <2>1, SubSeqProperties
  <2>3. Len(q) = Len(l) - j + 1 BY <1>1, <2>2
  <2> HIDE DEF q
  <2> QED BY <1>1, <2>2, <2>3
<1>4. c = p \o q BY DEF Cut
<1> HIDE DEF p, q, c
<1>5. /\ c \in Seq(T) /\ Len(c) = Len(l) - d /\ DOMAIN c = 1 .. Len(l) - d
      /\ \A k \in 1 .. Len(l) - d : c[k] = IF k <= i THEN p[k] ELSE q[k - i]
  <2>1. Len(p) + Len(q) = Len(l) - d BY <1>1, <1>2, <1>3
  <2>2. /\ c \in Seq(T) /\ Len(c) = Len(p) + Len(q)
        /\ \A k \in 1 .. Len(p) + Len(q) : c[k] = IF k <= Len(p) THEN p[k] ELSE q[k - Len(p)]
    BY <1>2, <1>3, <1>4, ConcatProperties
  <2> HIDE DEF d
  <2>3. \A k \in 1 .. Len(l) - d : c[k] = IF k <= i THEN p[k] ELSE q[k - i]
    BY <1>2, <2>1, <2>2
  <2>4. Len(c) = Len(l) - d BY <2>1, <2>2
  <2>5. DOMAIN c = 1 .. Len(c) BY <2>2
  <2> QED BY <2>2, <2>3, <2>4, <2>5
<1>6. ASSUME NEW k \in DOMAIN c
      PROVE  /\ at(k) \in DOMAIN l /\ c[k] = l[at(k)] /\ (at(k) <= i \/ j <= at(k))
             /\ k = IF at(k) <= i THEN at(k) ELSE at(k) - d
  <2>1. CASE k <= i
    <3>1. k \in 1 .. i /\ k \in 1 .. Len(l) - d BY <1>1, <1>5, <2>1
    <3>2. at(k) = k BY <2>1
    <3>3. c[k] = p[k] /\ p[k] = l[k] BY <1>2, <1>5, <2>1, <3>1
    <3>4. k \in DOMAIN l BY <1>1, <3>1
    <3> HIDE DEF at
    <3> QED BY <2>1, <3>2, <3>3, <3>4
  <2>2. CASE ~ (k <= i)
    <3>1. k - i \in 1 .. Len(l) - j + 1 /\ (j + (k - i)) - 1 = k + d /\ at(k) = k + d
      BY <1>1, <1>5, <2>2
    <3>2. c[k] = q[k - i] BY <1>5, <2>2
    <3>3. q[k - i] = l[k + d] BY <1>3, <3>1
    <3>4. at(k) \in DOMAIN l /\ j <= at(k) /\ ~ (at(k) <= i) /\ k = at(k) - d
      BY <1>1, <1>5, <2>2, <3>1, SMTT(30)
    <3>5. c[k] = l[at(k)] BY <3>1, <3>2, <3>3
    <3> HIDE DEF at, d
    <3> QED BY <3>4, <3>5
  <2> QED BY <2>1, <2>2
<1>7. Once(c)
  <2>1. ASSUME NEW k \in DOMAIN c, NEW m \in DOMAIN c, c[k] = c[m] PROVE k = m
    <3>1. at(k) = at(m)
      <4> HIDE DEF at
      <4> QED BY <1>6, <2>1 DEF Once
    <3>2. /\ k = IF at(k) <= i THEN at(k) ELSE at(k) - d
          /\ m = IF at(m) <= i THEN at(m) ELSE at(m) - d
      BY <1>6
    <3> HIDE DEF at, d
    <3> QED BY <3>1, <3>2
  <2> QED BY <2>1 DEF Once
<1>8. ASSUME NEW m \in DOMAIN l, m <= i \/ j <= m PROVE l[m] \in ToSet(c)
  <2> DEFINE k == IF m <= i THEN m ELSE m - d
  <2>1. k \in DOMAIN c /\ at(k) = m
    <3>1. CASE m <= i BY <1>1, <1>5, <3>1
    <3>2. CASE ~ (m <= i)
      <4>1. k = m - d /\ j <= m /\ ~ (k <= i) /\ k + d = m /\ k \in 1 .. Len(l) - d
        BY <1>1, <1>8, <3>2
      <4> QED BY <1>5, <4>1
    <3> QED BY <3>1, <3>2
  <2>2. c[k] = l[m]
    <3> HIDE DEF k, at
    <3> QED BY <1>6, <2>1
  <2> HIDE DEF k
  <2> QED BY <2>1, <2>2 DEF ToSet
<1>9. ToSet(c) \subseteq ToSet(l)
  <2> HIDE DEF at
  <2> QED BY <1>6 DEF ToSet
<1>10. ASSUME NEW k \in DOMAIN c, NEW m \in i + 1 .. j - 1, c[k] = l[m] PROVE FALSE
  <2>1. m \in DOMAIN l /\ ~ (m <= i) /\ ~ (j <= m) BY <1>1
  <2>2. at(k) \in DOMAIN l /\ l[at(k)] = l[m] /\ (at(k) <= i \/ j <= at(k)) BY <1>6, <1>10
  <2> HIDE DEF at
  <2>3. at(k) = m BY <2>1, <2>2 DEF Once
  <2> QED BY <2>1, <2>2, <2>3
<1>11. ToSet(c) = ToSet(l) \ {l[k] : k \in i + 1 .. j - 1}
  <2>1. \A o \in ToSet(c) : \A k \in i + 1 .. j - 1 : o # l[k] BY <1>10 DEF ToSet
  <2>2. ASSUME NEW o \in ToSet(l), o \notin {l[k] : k \in i + 1 .. j - 1} PROVE o \in ToSet(c)
    <3>1. PICK m \in DOMAIN l : l[m] = o BY DEF ToSet
    <3>2. m <= i \/ j <= m BY <1>1, <2>2, <3>1
    <3> QED BY <1>8, <3>1, <3>2
  <2> QED BY <1>9, <2>1, <2>2
<1>12. \A k \in DOMAIN c : c[k] = l[IF k <= i THEN k ELSE k + d] BY <1>6
<1>13. Len(c) = Len(l) - ((j - i) - 1) BY <1>5
<1>14. PlacesKept(c, l, i, j) BY <1>12 DEF PlacesKept
<1> QED BY <1>5, <1>7, <1>11, <1>13, <1>14 DEF c, Between

\* Up to i c is l, and what follows is at j in l.
PlacesIn(c, T, l, i, j) ==
  /\ c \in Seq(T) /\ Len(c) \in Nat /\ DOMAIN c = 1 .. Len(c) /\ i \in 0 .. Len(c)
  /\ \A k \in 1 .. i : k \in DOMAIN c /\ c[k] = l[k]
  /\ j > Len(l) => i = Len(c)
  /\ ~ (j > Len(l)) => j \in DOMAIN l /\ i + 1 \in DOMAIN c /\ c[i + 1] = l[j]
  /\ j = Len(l) => i + 1 = Len(c)

\* The places in what Cut leaves.
LEMMA CutPlaces ==
  ASSUME NEW T, NEW l \in Seq(T), NEW i \in 0 .. Len(l), NEW j \in i + 1 .. Len(l) + 1,
         Once(l)
  PROVE  PlacesIn(Cut(l, i, j), T, l, i, j)
<1> DEFINE c == Cut(l, i, j)
<1>1. Len(l) \in Nat /\ DOMAIN l = 1 .. Len(l) /\ i \in Int /\ j \in Int OBVIOUS
<1>2. /\ c \in Seq(T) /\ Len(c) = Len(l) - ((j - i) - 1)
      /\ \A k \in DOMAIN c : c[k] = l[IF k <= i THEN k ELSE k + ((j - i) - 1)]
  <2>1. c \in Seq(T) /\ Len(c) = Len(l) - ((j - i) - 1) /\ PlacesKept(c, l, i, j) BY CutIs
  <2> HIDE DEF c
  <2> QED BY <2>1 DEF PlacesKept
<1> HIDE DEF c
<1>3. Len(c) \in Nat /\ DOMAIN c = 1 .. Len(c) BY <1>2
<1>4. i \in 0 .. Len(c) BY <1>1, <1>2
<1>5. \A k \in 1 .. i : k \in DOMAIN c /\ c[k] = l[k] BY <1>1, <1>2, <1>3, <1>4
<1>6. j > Len(l) => i = Len(c) BY <1>1, <1>2
<1>7. j = Len(l) => i + 1 = Len(c) BY <1>1, <1>2
<1>8. ASSUME ~ (j > Len(l)) PROVE j \in DOMAIN l /\ i + 1 \in DOMAIN c /\ c[i + 1] = l[j]
  <2>1. j \in DOMAIN l /\ i + 1 \in DOMAIN c BY <1>1, <1>2, <1>3, <1>8
  <2>2. (IF i + 1 <= i THEN i + 1 ELSE (i + 1) + ((j - i) - 1)) = j BY <1>1
  <2>3. c[i + 1] = l[j] BY <1>2, <2>1, <2>2
  <2> QED BY <2>1, <2>3
<1>9. PlacesIn(c, T, l, i, j) BY <1>2, <1>3, <1>4, <1>5, <1>6, <1>7, <1>8 DEF PlacesIn
<1> QED BY <1>9 DEF c

\* A set of numbers has a least element.
LEMMA LeastElement ==
  ASSUME NEW S, S \subseteq Nat, S # {}
  PROVE  \E m \in S : \A n \in S : m <= n
<1> DEFINE R == OpToRel(<, Nat)
<1>1. \A n, m \in S : n < m => <<n, m>> \in R BY DEF OpToRel
<1>2. IsWellFoundedOn(R, Nat) BY NatLessThanWellFounded
<1> HIDE DEF R
<1>3. PICK m \in S : \A n \in S : ~ (<<n, m>> \in R) BY <1>2, WFMin
<1>4. ASSUME NEW n \in S PROVE m <= n
  <2>1. ~ (n < m) BY <1>1, <1>3
  <2> QED BY <2>1
<1> QED BY <1>4

\* f is the function that Keep(l, S) builds, up to the place m.
IsKept(f, l, S, m) ==
  /\ f = [i \in 0 .. m |-> f[i]] /\ f[0] = << >>
  /\ \A i \in 1 .. m : f[i] = IF l[i] \in S THEN Append(f[i - 1], l[i]) ELSE f[i - 1]

\* The recursive function of Keep exists.
LEMMA KeptExists ==
  ASSUME NEW l, NEW S, NEW n \in Nat
  PROVE  \E f : IsKept(f, l, S, n)
<1> DEFINE Bad == {m \in Nat : ~ \E f : IsKept(f, l, S, m)}
<1> SUFFICES ASSUME Bad # {} PROVE FALSE OBVIOUS
<1>1. PICK m \in Bad : \A k \in Bad : m <= k
  <2>1. Bad \subseteq Nat OBVIOUS
  <2> HIDE DEF Bad
  <2> QED BY <2>1, LeastElement
<1>2. CASE m = 0
  <2>1. IsKept([k \in 0 .. 0 |-> << >>], l, S, 0) BY DEF IsKept
  <2> QED BY <1>2, <2>1
<1>3. CASE m # 0
  <2>1. m - 1 \in Nat /\ m - 1 \notin Bad BY <1>1, <1>3
  <2>2. PICK f : IsKept(f, l, S, m - 1) BY <2>1
  <2> DEFINE last == IF l[m] \in S THEN Append(f[m - 1], l[m]) ELSE f[m - 1]
             g == [k \in 0 .. m |-> IF k = m THEN last ELSE f[k]]
  <2>3. m \in Nat /\ 0 \in 0 .. m /\ 0 # m /\ DOMAIN g = 0 .. m BY <1>1, <1>3
  <2>4. g[0] = << >> BY <2>2, <2>3 DEF IsKept
  <2>5. ASSUME NEW k \in 1 .. m
        PROVE  g[k] = IF l[k] \in S THEN Append(g[k - 1], l[k]) ELSE g[k - 1]
    <3>1. k \in 0 .. m /\ k - 1 \in 0 .. m /\ k - 1 # m BY <2>3
    <3> HIDE DEF last
    <3>2. g[k - 1] = f[k - 1] BY <3>1
    <3>3. CASE k = m
      <4>1. g[k] = last BY <3>1, <3>3
      <4> QED BY <3>2, <3>3, <4>1 DEF last
    <3>4. CASE k # m
      <4>1. k \in 1 .. m - 1 /\ g[k] = f[k] BY <2>3, <3>1, <3>4
      <4> QED BY <2>2, <3>2, <4>1 DEF IsKept
    <3> QED BY <3>3, <3>4
  <2>7. g = [i \in 0 .. m |-> g[i]] OBVIOUS
  <2> HIDE DEF g
  <2>6. IsKept(g, l, S, m) BY <2>3, <2>4, <2>5, <2>7 DEF IsKept
  <2> QED BY <2>6
<1> QED BY <1>2, <1>3

\* What f holds at the place m: the objects of S before it, in the order of l.
KeptOK(q, l, S, m) ==
  /\ q \in Seq(ToSet(l))
  /\ ToSet(q) = {l[k] : k \in 1 .. m} \cap S
  /\ \A i, j \in DOMAIN q : \A a, b \in 1 .. m :
       q[i] = l[a] /\ q[j] = l[b] /\ i < j => a < b

\* Keep at an object that stays.
LEMMA KeptAppend ==
  ASSUME NEW T, NEW l \in Seq(T), NEW S, Once(l), NEW m \in 1 .. Len(l), NEW q,
         KeptOK(q, l, S, m - 1), l[m] \in S
  PROVE  KeptOK(Append(q, l[m]), l, S, m)
<1> DEFINE c == Append(q, l[m])
<1>1. Len(l) \in Nat /\ DOMAIN l = 1 .. Len(l) /\ m \in DOMAIN l /\ l[m] \in ToSet(l)
  BY DEF ToSet
<1>2. q \in Seq(ToSet(l)) BY DEF KeptOK
<1>3. /\ c \in Seq(ToSet(l)) /\ Len(c) = Len(q) + 1 /\ DOMAIN c = 1 .. Len(q) + 1
      /\ Len(q) \in Nat /\ DOMAIN q = 1 .. Len(q)
      /\ c[Len(q) + 1] = l[m] /\ \A i \in 1 .. Len(q) : c[i] = q[i]
  BY <1>1, <1>2
<1> HIDE DEF c
<1>4. \A i \in DOMAIN c : i = Len(q) + 1 \/ i \in DOMAIN q BY <1>3
<1>5. \A i \in DOMAIN q : i \in DOMAIN c /\ c[i] = q[i] /\ i < Len(q) + 1 BY <1>3
<1>6. \A a \in 1 .. m : a = m \/ a \in 1 .. m - 1 OBVIOUS
<1>7. \A a \in 1 .. m - 1 : a \in DOMAIN l /\ a # m /\ a \in 1 .. m /\ a < m BY <1>1
<1>8. ToSet(q) = {l[k] : k \in 1 .. m - 1} \cap S BY DEF KeptOK
<1>9. ToSet(c) = ToSet(q) \cup {l[m]}
  <2>1. ToSet(c) \subseteq ToSet(q) \cup {l[m]} BY <1>3, <1>4, <1>5 DEF ToSet
  <2>2. ToSet(q) \subseteq ToSet(c) BY <1>5 DEF ToSet
  <2>3. Len(q) + 1 \in DOMAIN c BY <1>3
  <2>4. l[m] \in ToSet(c) BY <1>3, <2>3 DEF ToSet
  <2> QED BY <2>1, <2>2, <2>4
<1>10. ToSet(c) = {l[k] : k \in 1 .. m} \cap S
  <2>1. {l[k] : k \in 1 .. m} = {l[k] : k \in 1 .. m - 1} \cup {l[m]} BY <1>6, <1>7
  <2> QED BY <1>8, <1>9, <2>1
<1>11. ASSUME NEW i \in DOMAIN c, NEW j \in DOMAIN c, NEW a \in 1 .. m, NEW b \in 1 .. m,
              c[i] = l[a], c[j] = l[b], i < j
       PROVE  a < b
  <2>1. i \in DOMAIN q
    <3>1. i # Len(q) + 1 BY <1>3, <1>11
    <3> QED BY <1>4, <3>1
  <2>2. q[i] \in ToSet(q) BY <2>1 DEF ToSet
  <2>3. PICK k \in 1 .. m - 1 : l[k] = q[i] BY <1>8, <2>2
  <2>4. l[k] = l[a] /\ k \in DOMAIN l /\ a \in DOMAIN l BY <1>1, <1>5, <1>6, <1>7, <1>11, <2>1, <2>3
  <2>5. a = k BY <2>4 DEF Once
  <2>6. CASE j = Len(q) + 1
    <3>1. l[b] = l[m] /\ b \in DOMAIN l BY <1>1, <1>3, <1>6, <1>7, <1>11, <2>6
    <3>2. b = m BY <1>1, <3>1 DEF Once
    <3> QED BY <1>7, <2>5, <3>2
  <2>7. CASE j \in DOMAIN q
    <3>1. q[j] \in ToSet(q) BY <2>7 DEF ToSet
    <3>2. PICK h \in 1 .. m - 1 : l[h] = q[j] BY <1>8, <3>1
    <3>3. l[h] = l[b] /\ h \in DOMAIN l /\ b \in DOMAIN l
      BY <1>1, <1>5, <1>6, <1>7, <1>11, <2>7, <3>2
    <3>4. b = h BY <3>3 DEF Once
    <3>5. q[i] = l[a] /\ q[j] = l[b] /\ a \in 1 .. m - 1 /\ b \in 1 .. m - 1
      BY <2>3, <2>5, <3>2, <3>4
    <3> QED BY <1>11, <2>1, <2>7, <3>5 DEF KeptOK
  <2> QED BY <1>4, <2>6, <2>7
<1>12. KeptOK(c, l, S, m) BY <1>3, <1>10, <1>11 DEF KeptOK
<1> QED BY <1>12 DEF c

\* Keep at an object that does not.
LEMMA KeptSkip ==
  ASSUME NEW T, NEW l \in Seq(T), NEW S, Once(l), NEW m \in 1 .. Len(l), NEW q,
         KeptOK(q, l, S, m - 1), l[m] \notin S
  PROVE  KeptOK(q, l, S, m)
<1>1. Len(l) \in Nat /\ DOMAIN l = 1 .. Len(l) OBVIOUS
<1>2. \A a \in 1 .. m : a = m \/ a \in 1 .. m - 1 OBVIOUS
<1>3. \A a \in 1 .. m - 1 : a \in 1 .. m OBVIOUS
<1>4. q \in Seq(ToSet(l)) /\ ToSet(q) = {l[k] : k \in 1 .. m - 1} \cap S BY DEF KeptOK
<1>5. ToSet(q) = {l[k] : k \in 1 .. m} \cap S BY <1>2, <1>3, <1>4
<1>6. \A i \in DOMAIN q : q[i] # l[m] BY <1>4 DEF ToSet
<1>7. ASSUME NEW i \in DOMAIN q, NEW j \in DOMAIN q, NEW a \in 1 .. m, NEW b \in 1 .. m,
             q[i] = l[a], q[j] = l[b], i < j
      PROVE  a < b
  <2>1. a \in 1 .. m - 1 /\ b \in 1 .. m - 1 BY <1>2, <1>6, <1>7
  <2> QED BY <1>7, <2>1 DEF KeptOK
<1> QED BY <1>4, <1>5, <1>7 DEF KeptOK

\* Keep(l, S) has the objects of S in l, in their order.
LEMMA KeepIs ==
  ASSUME NEW T, NEW l \in Seq(T), NEW S, Once(l)
  PROVE  /\ Keep(l, S) \in Seq(T) /\ Once(Keep(l, S)) /\ ToSet(Keep(l, S)) = ToSet(l) \cap S
         /\ \A i, j \in DOMAIN Keep(l, S) : \A a, b \in DOMAIN l :
              Keep(l, S)[i] = l[a] /\ Keep(l, S)[j] = l[b] /\ i < j => a < b
<1> DEFINE kept == CHOOSE f : f = [i \in 0 .. Len(l) |->
                     IF i = 0 THEN << >>
                     ELSE IF l[i] \in S THEN Append(f[i - 1], l[i]) ELSE f[i - 1]]
<1>1. Keep(l, S) = kept[Len(l)] BY DEF Keep
<1>2. Len(l) \in Nat /\ DOMAIN l = 1 .. Len(l) OBVIOUS
<1>3. PICK g : IsKept(g, l, S, Len(l)) BY <1>2, KeptExists
<1>4. g = [i \in 0 .. Len(l) |-> IF i = 0 THEN << >>
                     ELSE IF l[i] \in S THEN Append(g[i - 1], l[i]) ELSE g[i - 1]]
  <2>1. \A k \in 0 .. Len(l) : k = 0 \/ k \in 1 .. Len(l) BY <1>2
  <2>2. /\ DOMAIN g = 0 .. Len(l)
        /\ \A k \in 0 .. Len(l) : g[k] = IF k = 0 THEN << >>
                     ELSE IF l[k] \in S THEN Append(g[k - 1], l[k]) ELSE g[k - 1]
    BY <1>3, <2>1 DEF IsKept
  <2>3. g = [k \in DOMAIN g |-> g[k]] BY <1>3 DEF IsKept
  <2> QED BY <2>2, <2>3
<1>5. kept = [i \in 0 .. Len(l) |-> IF i = 0 THEN << >>
                     ELSE IF l[i] \in S THEN Append(kept[i - 1], l[i]) ELSE kept[i - 1]]
  BY <1>4
<1> HIDE DEF kept
<1>6. kept[0] = << >> BY <1>2, <1>5
<1>7. \A k \in 1 .. Len(l) : kept[k] = IF l[k] \in S THEN Append(kept[k - 1], l[k]) ELSE kept[k - 1]
  <2>1. \A k \in 1 .. Len(l) : k \in 0 .. Len(l) /\ k # 0 BY <1>2
  <2> QED BY <1>5, <2>1
<1> DEFINE Bad == {m \in 0 .. Len(l) : ~ KeptOK(kept[m], l, S, m)}
<1>8. Bad = {}
  <2> SUFFICES ASSUME Bad # {} PROVE FALSE OBVIOUS
  <2>1. PICK m \in Bad : \A k \in Bad : m <= k
    <3>1. Bad \subseteq Nat BY <1>2
    <3> HIDE DEF Bad
    <3> QED BY <3>1, LeastElement
  <2>2. CASE m = 0
    <3>1. KeptOK(<< >>, l, S, 0) BY DEF KeptOK, ToSet
    <3> QED BY <1>6, <2>2, <3>1
  <2>3. CASE m # 0
    <3>1. m \in 1 .. Len(l) /\ m - 1 \in 0 .. Len(l) /\ m - 1 \notin Bad BY <1>2, <2>1, <2>3
    <3>2. KeptOK(kept[m - 1], l, S, m - 1) BY <3>1
    <3>3. KeptOK(kept[m], l, S, m)
      <4>1. CASE l[m] \in S
        <5>1. kept[m] = Append(kept[m - 1], l[m]) BY <1>7, <3>1, <4>1
        <5> QED BY <3>1, <3>2, <4>1, <5>1, KeptAppend
      <4>2. CASE l[m] \notin S
        <5>1. kept[m] = kept[m - 1] BY <1>7, <3>1, <4>2
        <5> QED BY <3>1, <3>2, <4>2, <5>1, KeptSkip
      <4> QED BY <4>1, <4>2
    <3> QED BY <2>1, <3>3
  <2> QED BY <2>2, <2>3
<1> DEFINE q == Keep(l, S)
<1>9. KeptOK(q, l, S, Len(l))
  <2>1. Len(l) \in 0 .. Len(l) BY <1>2
  <2> QED BY <1>1, <1>8, <2>1
<1> HIDE DEF q
<1>10. ToSet(l) = {l[k] : k \in 1 .. Len(l)} BY <1>2 DEF ToSet
<1>11. ToSet(q) = ToSet(l) \cap S BY <1>9, <1>10 DEF KeptOK
<1>12. q \in Seq(ToSet(l)) BY <1>9 DEF KeptOK
<1>13. q \in Seq(T)
  <2>1. ToSet(l) \subseteq T BY SetOfSeq
  <2> QED BY <1>12, <2>1, SeqMonotonic
<1>14. \A i, j \in DOMAIN q : \A a, b \in DOMAIN l : q[i] = l[a] /\ q[j] = l[b] /\ i < j => a < b
  BY <1>2, <1>9 DEF KeptOK
<1>15. ASSUME NEW i \in DOMAIN q, NEW j \in DOMAIN q, q[i] = q[j] PROVE i = j
  <2>1. PICK a \in DOMAIN l : l[a] = q[i] BY <1>11 DEF ToSet
  <2>2. ~ (i < j) /\ ~ (j < i)
    <3>1. ~ (a < a) BY <1>2
    <3> QED BY <1>14, <1>15, <2>1, <3>1
  <2>3. i \in Nat /\ j \in Nat BY <1>13
  <2> QED BY <2>2, <2>3
<1>16. Once(q) BY <1>15 DEF Once
<1> QED BY <1>11, <1>13, <1>14, <1>16 DEF q

-----------------------------------------------------------------------------
(* What the traversals reach *)

EntriesOK(e) ==
  /\ e \in [Objects -> Entries] /\ stack \subseteq Objects /\ kind \in Kinds

\* What the traversal of o marks, in the atomic phase or before.
MarksAt(e, o, X, inatomic) == IF inatomic THEN Marks(e, o, X) ELSE MarksEarly(e, o, X)

\* Every address has one of seven kinds.
LEMMA KindOf ==
  ASSUME kind \in Kinds, NEW o \in Objects
  PROVE  kind[o] \in {"table", "weakv", "ephemeron", "allweak", "udata", "lclosure", "thread"}
BY KindsAssumption

\* The null pointer and the main thread are no addresses.
LEMMA NoneIsNoThing == None \notin Things /\ Main \notin Objects /\ Main \in Things
BY AddressAssumption DEF Things

\* The value of an upvalue, open or closed, is a value.
LEMMA UpvalValueType ==
  ASSUME NEW e, e \in [Objects -> Entries], NEW f \in Objects
  PROVE  UpvalValue(e, f) \in Values
<1>1. e[f].key \in Values /\ e[f].val \in Values BY DEF Entries
<1>2. \A o \in Objects : e[o].val \in Values BY DEF Entries
<1>3. e[f].key # None => e[f].key \in Objects BY <1>1 DEF Values
<1> QED BY <1>1, <1>2, <1>3 DEF UpvalValue

\* A traversal marks objects.
LEMMA MarksType ==
  ASSUME NEW e, EntriesOK(e), NEW o \in Things, NEW X
  PROVE  Marks(e, o, X) \subseteq Things \cup {None}
<1>1. CASE o = Main BY <1>1 DEF Marks, EntriesOK, Things
<1>2. CASE o # Main
  <2>1. o \in Objects /\ Values \subseteq Things \cup {None} BY <1>2 DEF Things, Values
  <2>2. e[o].key \in Values /\ e[o].val \in Values BY <2>1 DEF EntriesOK, Entries
  <2>3. UpvalValue(e, o) \in Values BY <2>1, UpvalValueType DEF EntriesOK
  <2>4. kind[o] \in {"table", "weakv", "ephemeron", "allweak", "udata", "lclosure", "thread"}
    BY <2>1, KindOf DEF EntriesOK
  <2> QED BY <1>2, <2>1, <2>2, <2>3, <2>4 DEF Marks
<1> QED BY <1>1, <1>2

\* A traversal in either phase marks objects.
LEMMA MarksAtType ==
  ASSUME NEW e, EntriesOK(e), NEW o \in Things, NEW X, NEW b \in BOOLEAN
  PROVE  MarksAt(e, o, X, b) \subseteq Things \cup {None}
BY MarksType DEF MarksAt, MarksEarly

\* A traversal that finds more objects marked marks no fewer: only ephemerons look.
LEMMA MarksMonotone ==
  ASSUME NEW e, EntriesOK(e), NEW o \in Things, NEW X, NEW Y, X \subseteq Y, NEW b \in BOOLEAN
  PROVE  MarksAt(e, o, X, b) \subseteq MarksAt(e, o, Y, b)
<1>1. Marks(e, o, X) \subseteq Marks(e, o, Y)
  <2>1. CASE o = Main BY <2>1 DEF Marks
  <2>2. CASE o # Main
    <3>1. o \in Objects BY <2>2 DEF Things
    <3>2. kind[o] \in {"table", "weakv", "ephemeron", "allweak", "udata", "lclosure", "thread"}
      BY <3>1, KindOf DEF EntriesOK
    <3> QED BY <2>2, <3>2 DEF Marks
  <2> QED BY <2>1, <2>2
<1> QED BY <1>1 DEF MarksAt, MarksEarly

\* Traverse is the least set that has X and what it leads to.
LEMMA TraverseIs ==
  ASSUME NEW X, X \subseteq Things \cup {None}, NEW marked, NEW e, EntriesOK(e),
         NEW b \in BOOLEAN
  PROVE  /\ X \ {None} \subseteq Traverse(X, marked, e, b)
         /\ Traverse(X, marked, e, b) \subseteq Things
         /\ \A o \in Traverse(X, marked, e, b) :
              MarksAt(e, o, Traverse(X, marked, e, b) \cup marked, b)
                \subseteq Traverse(X, marked, e, b) \cup marked \cup {None}
         /\ \A Z \in SUBSET Things :
              /\ X \ {None} \subseteq Z
              /\ \A o \in Z : MarksAt(e, o, Z \cup marked, b) \subseteq Z \cup marked \cup {None}
              => Traverse(X, marked, e, b) \subseteq Z
<1> DEFINE F(Y) == (UNION {IF b THEN Marks(e, o, Y \cup marked)
                           ELSE MarksEarly(e, o, Y \cup marked) : o \in Y}) \ marked
           closed == {Y \in SUBSET (Things \ X) :
                        F(Y \cup (X \ {None})) \subseteq Y \cup X \cup {None}}
           C == Traverse(X, marked, e, b)
<1>1. C = (X \ {None}) \cup {o \in Things \ X : \A Y \in closed : o \in Y}
  BY DEF Traverse, Closure
<1>2. ASSUME NEW Y, NEW v
      PROVE  v \in F(Y) <=> v \notin marked /\ \E o \in Y : v \in MarksAt(e, o, Y \cup marked, b)
  <2>1. F(Y) = (UNION {MarksAt(e, o, Y \cup marked, b) : o \in Y}) \ marked BY DEF MarksAt
  <2> HIDE DEF F
  <2> QED BY <2>1
<1> HIDE DEF F, C
<1>3. C \subseteq Things /\ X \ {None} \subseteq C BY <1>1
<1>4. ASSUME NEW o \in C, NEW v \in MarksAt(e, o, C \cup marked, b)
      PROVE  v \in C \cup marked \cup {None}
  <2> SUFFICES ASSUME v \notin marked, v # None, v \notin X PROVE v \in C BY <1>3
  <2>1. v \in Things \ X BY <1>3, MarksAtType
  <2>2. ASSUME NEW Y \in closed PROVE v \in Y
    <3>1. C \subseteq Y \cup (X \ {None}) BY <1>1
    <3>2. v \in MarksAt(e, o, (Y \cup (X \ {None})) \cup marked, b)
      <4>1. C \cup marked \subseteq (Y \cup (X \ {None})) \cup marked BY <3>1
      <4> QED BY <1>3, <1>4, <4>1, MarksMonotone
    <3>3. v \in F(Y \cup (X \ {None})) BY <1>2, <3>1, <3>2
    <3> QED BY <3>3
  <2> QED BY <1>1, <2>1, <2>2
<1>5. ASSUME NEW Z \in SUBSET Things, X \ {None} \subseteq Z,
             \A o \in Z : MarksAt(e, o, Z \cup marked, b) \subseteq Z \cup marked \cup {None}
      PROVE  C \subseteq Z
  <2>1. (Z \ X) \cup (X \ {None}) = Z BY <1>5, NoneIsNoThing
  <2>2. F(Z) \subseteq (Z \ X) \cup X \cup {None} BY <1>2, <1>5
  <2>3. Z \ X \in closed BY <2>1, <2>2
  <2> QED BY <1>1, <1>5, <2>3
<1> QED BY <1>3, <1>4, <1>5 DEF C

WhiteIn(c) == {o \in Things : c[o] \in {"white", "dead"}}

\* What reallymarkobject marks, S being given to it: the white objects of S, and what
\* the userdata among them lead to.
LEMMA ChainIs ==
  ASSUME NEW S, S \subseteq Things \cup {None}, NEW c, entry \in [Objects -> Entries]
  PROVE  /\ Chain(c, S) \subseteq WhiteIn(c) /\ S \cap WhiteIn(c) \subseteq Chain(c, S)
         /\ \A o \in Chain(c, S) : IsUdata(o) => entry[o].val \notin WhiteIn(c) \ Chain(c, S)
         /\ \A Z \in SUBSET Things :
              /\ S \cap WhiteIn(c) \subseteq Z
              /\ \A o \in Z : IsUdata(o) => entry[o].val \in Z \cup {None}
              => Chain(c, S) \subseteq Z
<1> DEFINE F(Y) == {entry[o].val : o \in {x \in Y : IsUdata(x) /\ c[x] \in {"white", "dead"}}}
           closed == {Y \in SUBSET (Things \ S) :
                        F(Y \cup (S \ {None})) \subseteq Y \cup S \cup {None}}
           C == (S \ {None}) \cup {o \in Things \ S : \A Y \in closed : o \in Y}
           W == Chain(c, S)
<1>1. W = {o \in C : c[o] \in {"white", "dead"}} BY DEF Chain, Closure
<1>2. ASSUME NEW Y, NEW v
      PROVE  v \in F(Y) <=> \E o \in Y : IsUdata(o) /\ c[o] \in {"white", "dead"} /\ v = entry[o].val
  OBVIOUS
<1>3. C \subseteq Things BY NoneIsNoThing
<1>4. W \subseteq WhiteIn(c) BY <1>1, <1>3 DEF WhiteIn
<1>5. S \cap WhiteIn(c) \subseteq W BY <1>1, NoneIsNoThing DEF WhiteIn
<1> HIDE DEF F, W
<1>6. ASSUME NEW o \in W, IsUdata(o), entry[o].val \in WhiteIn(c) PROVE entry[o].val \in W
  <2> DEFINE v == entry[o].val
  <2>1. v \in Things /\ c[v] \in {"white", "dead"} /\ c[o] \in {"white", "dead"} /\ o \in C
    BY <1>1, <1>6 DEF WhiteIn
  <2>2. CASE v \in S BY <1>5, <1>6, <2>2
  <2>3. CASE v \notin S
    <3>1. ASSUME NEW Y \in closed PROVE v \in Y
      <4>1. o \in Y \cup (S \ {None}) BY <2>1
      <4>2. v \in F(Y \cup (S \ {None})) BY <1>2, <1>6, <2>1, <4>1
      <4> QED BY <2>1, <2>3, <4>2, NoneIsNoThing
    <3>2. v \in C BY <2>1, <2>3, <3>1
    <3> QED BY <1>1, <2>1, <3>2
  <2> QED BY <2>2, <2>3
<1>7. ASSUME NEW Z \in SUBSET Things, S \cap WhiteIn(c) \subseteq Z,
             \A o \in Z : IsUdata(o) => entry[o].val \in Z \cup {None}
      PROVE  W \subseteq Z
  <2> DEFINE Y == (Z \cup (Things \ WhiteIn(c))) \ S
  <2>1. \A o \in Y \cup (S \ {None}) : c[o] \in {"white", "dead"} => o \in Z
    BY <1>7 DEF WhiteIn
  <2>2. F(Y \cup (S \ {None})) \subseteq Z \cup {None} BY <1>2, <1>7, <2>1
  <2>3. Y \in closed BY <2>2
  <2>4. C \subseteq Y \cup (S \ {None}) BY <2>3
  <2> QED BY <1>1, <2>1, <2>4
<1> QED BY <1>4, <1>5, <1>6, <1>7 DEF W

-----------------------------------------------------------------------------
(* Steps of the heap *)

\* The fields of s are what a step may change.
Same(s, t) ==
  /\ t.entry = s.entry /\ t.openupval = s.openupval /\ t.twups = s.twups

\* What is not dead is allocated.
LEMMA LiveType ==
  ASSUME NEW s, s.lists \in Lists
  PROVE  LiveIn(s) \subseteq Objects /\ LiveIn(s) \subseteq AllocatedIn(s)
BY AllocatedType DEF LiveIn

\* A step that changes colors but kills nothing, or the order of the lists.
Recolors(s, t) ==
  /\ Same(s, t) /\ t.lists \in Lists /\ OnePlace(t.lists) /\ AllocatedIn(t) = AllocatedIn(s)
  /\ t.sweepgc \in Values \cup {Header} /\ t.touched \subseteq t.openupval
  /\ t.color \in [Things -> Colors]
  /\ \A o \in Things : t.color[o] = "dead" <=> s.color[o] = "dead"
  /\ \A o \in Objects \ AllocatedIn(s) : t.color[o] = "white"
  /\ \A o \in Things : StaysGray(o) => t.color[o] # "black"

\* A step that changes colors but kills nothing, or the order of the lists, keeps the heap.
LEMMA HeapRecolor ==
  ASSUME NEW s, NEW t, HeapOK(s), Recolors(s, t)
  PROVE  HeapOK(t) /\ LiveIn(t) = LiveIn(s)
<1> USE DEF Recolors
<1>1. AllocatedIn(s) \subseteq Objects BY AllocatedType DEF HeapOK, SweeperOK
<1>2. Objects \subseteq Things /\ Main \in Things BY DEF Things
<1>3. LiveIn(t) = LiveIn(s) BY <1>1, <1>2 DEF LiveIn
<1>4. SweeperOK(t) BY DEF HeapOK, SweeperOK, Same
<1>5. FreeOK(t) BY DEF HeapOK, FreeOK, Same
<1>6. UpvaluesOK(t)
  <2>1. \A o \in t.openupval \cup t.twups : t.color[o] = "dead" <=> s.color[o] = "dead"
    BY <1>1, <1>2 DEF HeapOK, UpvaluesOK, Same
  <2> QED BY <2>1 DEF HeapOK, UpvaluesOK, Same
<1>7. PointersOK(t) BY <1>3 DEF HeapOK, PointersOK, Same
<1>8. ColorsOK(t) BY <1>2 DEF HeapOK, ColorsOK
<1> QED BY <1>3, <1>4, <1>5, <1>6, <1>7, <1>8 DEF HeapOK

\* A write to an object, of what is not dead.
LEMMA HeapWrite ==
  ASSUME NEW s, NEW t, HeapOK(s), kind \in Kinds, NEW o \in AllocatedIn(s), NEW r \in Entries,
         {r.key, r.val} \subseteq LiveIn(s) \cup {None},
         kind[o] \in {"udata", "thread", "lclosure"} => r.key = None,
         t.entry = [s.entry EXCEPT ![o] = r],
         t.lists = s.lists, t.color = s.color, t.sweepgc = s.sweepgc,
         t.openupval = s.openupval, t.touched = s.touched, t.twups = s.twups
  PROVE  HeapOK(t) /\ LiveIn(t) = LiveIn(s) /\ AllocatedIn(t) = AllocatedIn(s)
<1>1. AllocatedIn(s) \subseteq Objects BY AllocatedType DEF HeapOK, SweeperOK
<1>2. AllocatedIn(t) = AllocatedIn(s) BY DEF AllocatedIn
<1>3. LiveIn(t) = LiveIn(s) BY <1>2 DEF LiveIn
<1>4. s.entry \in [Objects -> Entries] BY DEF HeapOK, SweeperOK
<1>5. /\ t.entry \in [Objects -> Entries] /\ t.entry[o] = r
      /\ \A p \in Objects \ {o} : t.entry[p] = s.entry[p]
  BY <1>1, <1>4
<1>6. SweeperOK(t) BY <1>5 DEF HeapOK, SweeperOK
<1>7. FreeOK(t) BY <1>2, <1>5 DEF HeapOK, FreeOK
<1>8. UpvaluesOK(t)
  <2>1. \A f \in Objects : kind[f] = "lclosure" => t.entry[f].key \in t.openupval \cup {None}
    BY <1>5 DEF HeapOK, UpvaluesOK
  <2>2. \A p \in Objects : kind[p] \in {"udata", "thread"} => t.entry[p].key = None
    BY <1>5 DEF HeapOK, UpvaluesOK
  <2> QED BY <1>2, <2>1, <2>2 DEF HeapOK, UpvaluesOK
<1>9. ASSUME NEW p \in LiveIn(s) PROVE HoldsIn(t.entry, p) \subseteq LiveIn(s) \cup {None}
  <2>1. HoldsIn(s.entry, p) \subseteq LiveIn(s) \cup {None} /\ p \in Objects
    BY <1>1 DEF HeapOK, PointersOK, LiveIn
  <2>2. CASE kind[p] = "lclosure"
    <3>1. UpvalValue(t.entry, p) \in LiveIn(s) \cup {None}
      <4>1. CASE p = o BY <1>5, <2>2, <4>1 DEF UpvalValue
      <4>2. CASE p # o
        <5>1. t.entry[p] = s.entry[p] BY <1>5, <2>1, <4>2
        <5>2. s.entry[p].key \in Objects \cup {None}
          BY <2>1, <2>2, <1>1 DEF HeapOK, UpvaluesOK
        <5>3. UpvalValue(s.entry, p) \in LiveIn(s) \cup {None} BY <2>1, <2>2 DEF HoldsIn
        <5> QED BY <1>5, <5>1, <5>2, <5>3 DEF UpvalValue
      <4> QED BY <4>1, <4>2
    <3> QED BY <2>2, <3>1 DEF HoldsIn
  <2>3. CASE kind[p] # "lclosure"
    <3>1. CASE p = o BY <1>5, <2>3, <3>1 DEF HoldsIn
    <3>2. CASE p # o BY <1>5, <2>1, <2>3, <3>2 DEF HoldsIn
    <3> QED BY <3>1, <3>2
  <2> QED BY <2>2, <2>3
<1>10. PointersOK(t) BY <1>3, <1>9 DEF PointersOK
<1>11. ColorsOK(t) BY DEF HeapOK, ColorsOK
<1> QED BY <1>2, <1>3, <1>6, <1>7, <1>8, <1>10, <1>11 DEF HeapOK

\* A new object at the head of allgc.
Grows(l, m, o) == m = [l EXCEPT !.allgc = <<o>> \o @]

\* luaC_newobj puts the object at the head of allgc.
LEMMA ListsNew ==
  ASSUME NEW l \in Lists, OnePlace(l), NEW o \in Objects, \A n \in ListNames : o \notin ToSet(l[n]),
         NEW m, Grows(l, m, o)
  PROVE  /\ m \in Lists /\ OnePlace(m)
         /\ m.allgc = <<o>> \o l.allgc /\ m.finobj = l.finobj /\ m.tobefnz = l.tobefnz
         /\ ToSet(m.allgc) = {o} \cup ToSet(l.allgc)
<1> DEFINE q == <<o>> \o l.allgc
<1>1. l.allgc \in Seq(Objects) BY DEF Lists, ListNames
<1>2. q \in Seq(Objects) /\ ToSet(q) = {o} \cup ToSet(l.allgc) BY <1>1, SetOfCons
<1>3. Once(l.allgc) /\ o \notin ToSet(l.allgc) BY DEF OnePlace, ListNames
<1>4. Once(q) BY <1>1, <1>3, OnceCons
<1> HIDE DEF q
<1>5. m = [l EXCEPT !["allgc"] = q] BY DEF Grows, q
<1>6. m \in Lists BY <1>2, <1>5 DEF Lists, ListNames
<1>7. m["allgc"] = q /\ m["finobj"] = l["finobj"] /\ m["tobefnz"] = l["tobefnz"]
  BY <1>5 DEF Lists, ListNames
<1>8. OnePlace(m)
  <2>1. \A n \in ListNames : n = "allgc" \/ m[n] = l[n] BY <1>7 DEF ListNames
  <2>2. \A n \in ListNames : Once(m[n]) BY <1>4, <1>7, <2>1 DEF OnePlace
  <2>3. ASSUME NEW x \in ListNames, NEW y \in ListNames, x # y
        PROVE  ToSet(m[x]) \cap ToSet(m[y]) = {}
    <3>1. ToSet(l[x]) \cap ToSet(l[y]) = {} BY <2>3 DEF OnePlace
    <3> QED BY <1>2, <1>7, <2>1, <2>3, <3>1
  <2> QED BY <2>2, <2>3 DEF OnePlace
<1> QED BY <1>2, <1>6, <1>7, <1>8 DEF q

\* A new object, which refers to nothing or is a closure over the local of a thread.
LEMMA HeapNew ==
  ASSUME NEW s, NEW t, HeapOK(s), kind \in Kinds, NEW o \in Objects \ AllocatedIn(s),
         NEW th \in LiveIn(s) \cup {None}, th # None => kind[th] = "thread" /\ kind[o] = "lclosure",
         t.lists \in Lists, OnePlace(t.lists), AllocatedIn(t) = AllocatedIn(s) \cup {o},
         t.entry = [s.entry EXCEPT ![o] = [key |-> th, val |-> None]],
         t.color = s.color, t.sweepgc = s.sweepgc,
         t.openupval = s.openupval \cup ({th} \ {None}), t.twups = s.twups \cup ({th} \ {None}),
         t.touched \subseteq t.openupval
  PROVE  HeapOK(t) /\ LiveIn(t) = LiveIn(s) \cup {o} /\ t.color[o] = "white"
<1>1. AllocatedIn(s) \subseteq Objects /\ Objects \subseteq Things
  BY AllocatedType DEF HeapOK, SweeperOK, Things
<1>2. s.color[o] = "white" BY DEF HeapOK, FreeOK
<1>3. LiveIn(t) = LiveIn(s) \cup {o} BY <1>2 DEF LiveIn
<1>4. s.entry \in [Objects -> Entries] BY DEF HeapOK, SweeperOK
<1>5. None \notin Objects BY AddressAssumption
<1>6. th \in Values BY <1>1 DEF LiveIn, Values
<1>7. /\ t.entry \in [Objects -> Entries] /\ t.entry[o] = [key |-> th, val |-> None]
      /\ \A p \in Objects \ {o} : t.entry[p] = s.entry[p]
  <2>1. [key |-> th, val |-> None] \in Entries BY <1>6 DEF Entries, Values
  <2> QED BY <1>4, <2>1
<1>8. SweeperOK(t) BY <1>7 DEF HeapOK, SweeperOK
<1>9. FreeOK(t) BY <1>7 DEF HeapOK, FreeOK
<1>10. UpvaluesOK(t)
  <2>1. \A x \in t.openupval \cup t.twups : x \in AllocatedIn(t) /\ kind[x] = "thread"
    BY DEF HeapOK, UpvaluesOK, LiveIn
  <2>2. \A x \in t.openupval \ t.twups : t.color[x] = "dead" BY DEF HeapOK, UpvaluesOK
  <2>3. \A x \in t.twups : t.color[x] # "dead" BY DEF HeapOK, UpvaluesOK, LiveIn
  <2>4. \A f \in Objects : kind[f] = "lclosure" => t.entry[f].key \in t.openupval \cup {None}
    BY <1>7 DEF HeapOK, UpvaluesOK
  <2>5. \A p \in Objects : kind[p] \in {"udata", "thread"} => t.entry[p].key = None
    BY <1>7 DEF HeapOK, UpvaluesOK
  <2> QED BY <2>1, <2>2, <2>3, <2>4, <2>5 DEF UpvaluesOK
<1>11. ASSUME NEW p \in LiveIn(s) PROVE HoldsIn(t.entry, p) \subseteq LiveIn(s) \cup {None}
  <2>1. HoldsIn(s.entry, p) \subseteq LiveIn(s) \cup {None} /\ p \in Objects /\ p # o
    BY <1>1 DEF HeapOK, PointersOK, LiveIn
  <2>2. t.entry[p] = s.entry[p] BY <1>7, <2>1
  <2>3. CASE kind[p] = "lclosure"
    <3>1. s.entry[p].key \in AllocatedIn(s) \cup {None}
      BY <2>1, <2>3 DEF HeapOK, UpvaluesOK
    <3>2. s.entry[p].key # None => t.entry[s.entry[p].key] = s.entry[s.entry[p].key]
      BY <1>1, <1>7, <3>1
    <3>3. UpvalValue(t.entry, p) = UpvalValue(s.entry, p) BY <2>2, <3>2 DEF UpvalValue
    <3> QED BY <2>1, <2>3, <3>3 DEF HoldsIn
  <2>4. CASE kind[p] # "lclosure" BY <2>1, <2>2, <2>4 DEF HoldsIn
  <2> QED BY <2>3, <2>4
<1>12. HoldsIn(t.entry, o) \subseteq LiveIn(s) \cup {None}
  <2>1. CASE th = None BY <1>7, <2>1 DEF HoldsIn, UpvalValue
  <2>2. CASE th # None
    <3>1. th \in LiveIn(s) /\ th \in Objects /\ th # o BY <1>1, <2>2 DEF LiveIn
    <3>2. HoldsIn(s.entry, th) = {s.entry[th].key, s.entry[th].val} BY <2>2 DEF HoldsIn
    <3>3. s.entry[th].val \in LiveIn(s) \cup {None} BY <3>1, <3>2 DEF HeapOK, PointersOK
    <3>4. HoldsIn(t.entry, o) = {s.entry[th].val}
      BY <1>7, <2>2, <3>1 DEF HoldsIn, UpvalValue
    <3> QED BY <3>3, <3>4
  <2> QED BY <2>1, <2>2
<1>13. PointersOK(t) BY <1>3, <1>11, <1>12 DEF PointersOK
<1>14. ColorsOK(t) BY DEF HeapOK, ColorsOK
<1> QED BY <1>2, <1>3, <1>8, <1>9, <1>10, <1>13, <1>14 DEF HeapOK

\* The heap after the open upvalues of the threads in D have been closed.
ClosedIn(e, D) ==
  [f \in Objects |-> IF kind[f] = "lclosure" /\ e[f].key \in D
                     THEN [key |-> None, val |-> e[e[f].key].val] ELSE e[f]]

\* A closed upvalue has the value that it had when it was open.
LEMMA ClosedHolds ==
  ASSUME NEW s, HeapOK(s), NEW D, None \notin D, NEW f \in Objects
  PROVE  /\ ClosedIn(s.entry, D)[f] \in Entries
         /\ HoldsIn(ClosedIn(s.entry, D), f) = HoldsIn(s.entry, f)
         /\ kind[f] # "lclosure" => ClosedIn(s.entry, D)[f] = s.entry[f]
         /\ kind[f] = "lclosure" =>
              /\ ClosedIn(s.entry, D)[f].key \in (s.openupval \cup {None}) \ D
              /\ UpvalValue(ClosedIn(s.entry, D), f) = UpvalValue(s.entry, f)
<1> DEFINE e == s.entry
           c == ClosedIn(e, D)
<1>1. e \in [Objects -> Entries] BY DEF HeapOK, SweeperOK
<1>2. \A p \in Objects : e[p].key \in Values /\ e[p].val \in Values BY <1>1 DEF Entries
<1>3. \A p \in Objects : c[p] = IF kind[p] = "lclosure" /\ e[p].key \in D
                     THEN [key |-> None, val |-> e[e[p].key].val] ELSE e[p]
  BY DEF ClosedIn
<1>4. kind[f] # "lclosure" => c[f] = e[f] BY <1>3
<1>5. kind[f] = "lclosure" => e[f].key \in s.openupval \cup {None} BY DEF HeapOK, UpvaluesOK
<1>6. s.openupval \subseteq Objects
  BY AllocatedType DEF HeapOK, UpvaluesOK, SweeperOK
<1>7. \A p \in s.openupval : kind[p] # "lclosure" /\ c[p] = e[p]
  <2>1. \A p \in s.openupval : kind[p] = "thread" BY DEF HeapOK, UpvaluesOK
  <2> QED BY <1>3, <1>6, <2>1
<1>8. c[f] \in Entries
  <2>1. CASE kind[f] = "lclosure" /\ e[f].key \in D
    <3>1. e[f].key \in Objects BY <1>5, <1>6, <2>1
    <3>2. e[e[f].key].val \in Values BY <1>2, <3>1
    <3>3. [key |-> None, val |-> e[e[f].key].val] \in Entries BY <3>2 DEF Entries, Values
    <3>4. c[f] = [key |-> None, val |-> e[e[f].key].val] BY <1>3, <2>1
    <3> HIDE DEF c, e
    <3> QED BY <3>3, <3>4
  <2>2. CASE ~ (kind[f] = "lclosure" /\ e[f].key \in D) BY <1>1, <1>3, <2>2
  <2> QED BY <2>1, <2>2
<1>9. kind[f] = "lclosure" => /\ c[f].key \in (s.openupval \cup {None}) \ D
                              /\ UpvalValue(c, f) = UpvalValue(e, f)
  <2> HAVE kind[f] = "lclosure"
  <2>1. CASE e[f].key \in D
    <3>1. c[f] = [key |-> None, val |-> e[e[f].key].val] BY <1>3, <2>1
    <3>2. e[f].key # None BY <2>1
    <3> HIDE DEF c, e
    <3> QED BY <3>1, <3>2 DEF UpvalValue
  <2>2. CASE e[f].key \notin D
    <3>1. c[f] = e[f] BY <1>3, <2>2
    <3>2. e[f].key # None => c[e[f].key] = e[e[f].key] BY <1>5, <1>7
    <3> HIDE DEF c, e
    <3> QED BY <1>5, <2>2, <3>1, <3>2 DEF UpvalValue
  <2> QED BY <2>1, <2>2
<1>10. HoldsIn(c, f) = HoldsIn(e, f)
  <2> HIDE DEF c, e
  <2> QED BY <1>4, <1>9 DEF HoldsIn
<1> QED BY <1>4, <1>8, <1>9, <1>10

\* What Free makes of the heap.
FreeColor(s, D) == [o \in Things |-> IF o \in D THEN "white" ELSE s.color[o]]
FreeEntry(s, D) == [f \in Objects |-> IF f \in D THEN Nothing ELSE ClosedIn(s.entry, D)[f]]

\* freeobj: the objects of D, which are dead, are free.
LEMMA HeapFree ==
  ASSUME NEW s, NEW t, HeapOK(s), kind \in Kinds, NEW D, D \subseteq AllocatedIn(s),
         \A o \in D : s.color[o] = "dead",
         t.lists \in Lists, OnePlace(t.lists), AllocatedIn(t) = AllocatedIn(s) \ D,
         t.entry = FreeEntry(s, D), t.color = FreeColor(s, D),
         t.sweepgc \in Values \cup {Header},
         t.openupval = s.openupval \ D, t.touched = s.touched \ D, t.twups = s.twups
  PROVE  HeapOK(t) /\ LiveIn(t) = LiveIn(s)
<1>1. AllocatedIn(s) \subseteq Objects /\ Objects \subseteq Things /\ Main \notin D
  BY AllocatedType, AddressAssumption DEF HeapOK, SweeperOK, Things
<1>2. s.color \in [Things -> Colors] /\ s.entry \in [Objects -> Entries] BY DEF HeapOK, SweeperOK
<1>3. LiveIn(t) = LiveIn(s) BY <1>1 DEF LiveIn, FreeColor
<1>4. None \notin D BY <1>1, AddressAssumption
<1>5. \A f \in Objects : t.entry[f] = IF f \in D THEN Nothing ELSE ClosedIn(s.entry, D)[f]
  BY DEF FreeEntry
<1>6. Nothing \in Entries /\ Nothing.key = None BY DEF Nothing, Entries, Values
<1>7. t.entry \in [Objects -> Entries]
  <2>1. \A f \in Objects : ClosedIn(s.entry, D)[f] \in Entries BY <1>4, ClosedHolds
  <2> QED BY <1>6, <2>1 DEF FreeEntry
<1>8. t.color \in [Things -> Colors] BY <1>2 DEF Colors, FreeColor
<1>9. SweeperOK(t) BY <1>7, <1>8 DEF SweeperOK
<1>10. FreeOK(t)
  <2>1. ASSUME NEW o \in Objects \ AllocatedIn(t), o \notin D
        PROVE  t.entry[o] = Nothing /\ t.color[o] = "white"
    <3>1. o \in Objects \ AllocatedIn(s) BY <2>1
    <3>2. s.entry[o] = Nothing /\ s.color[o] = "white" BY <3>1 DEF HeapOK, FreeOK
    <3>3. ClosedIn(s.entry, D)[o] = s.entry[o] BY <1>4, <1>6, <3>2 DEF ClosedIn
    <3> QED BY <1>1, <1>5, <2>1, <3>2, <3>3 DEF FreeColor
  <2>2. \A o \in D : t.entry[o] = Nothing /\ t.color[o] = "white" BY <1>1, <1>5 DEF FreeColor
  <2> QED BY <2>1, <2>2 DEF FreeOK
<1>11. UpvaluesOK(t)
  <2>1. s.twups \cap D = {} BY DEF HeapOK, UpvaluesOK
  <2>2. t.touched \subseteq t.openupval BY DEF HeapOK, UpvaluesOK
  <2>3. \A x \in t.openupval \cup t.twups : x \in AllocatedIn(t) /\ kind[x] = "thread"
    BY <2>1 DEF HeapOK, UpvaluesOK
  <2>4. \A x \in t.openupval \cup t.twups : t.color[x] = s.color[x]
    BY <1>1, <2>1, <2>3 DEF FreeColor
  <2>5. /\ \A x \in t.openupval \ t.twups : t.color[x] = "dead"
        /\ \A x \in t.twups : t.color[x] # "dead"
    BY <2>4 DEF HeapOK, UpvaluesOK
  <2>6. ASSUME NEW f \in Objects, kind[f] = "lclosure"
        PROVE  t.entry[f].key \in t.openupval \cup {None}
    <3>1. ClosedIn(s.entry, D)[f].key \in (s.openupval \cup {None}) \ D
      BY <1>4, <2>6, ClosedHolds
    <3> QED BY <1>5, <1>6, <3>1
  <2>7. ASSUME NEW o \in Objects, kind[o] \in {"udata", "thread"} PROVE t.entry[o].key = None
    <3>1. ClosedIn(s.entry, D)[o] = s.entry[o] BY <2>7 DEF ClosedIn
    <3>2. s.entry[o].key = None BY <2>7 DEF HeapOK, UpvaluesOK
    <3> QED BY <1>5, <1>6, <3>1, <3>2
  <2> QED BY <2>2, <2>3, <2>5, <2>6, <2>7 DEF UpvaluesOK
<1>12. ASSUME NEW p \in LiveIn(s) PROVE HoldsIn(t.entry, p) \subseteq LiveIn(s) \cup {None}
  <2>1. p \in Objects /\ p \notin D BY <1>1 DEF LiveIn
  <2>2. HoldsIn(ClosedIn(s.entry, D), p) \subseteq LiveIn(s) \cup {None}
    BY <1>4, <2>1, ClosedHolds DEF HeapOK, PointersOK
  <2>3. t.entry[p] = ClosedIn(s.entry, D)[p] BY <1>5, <2>1
  <2>4. CASE kind[p] = "lclosure"
    <3>1. ClosedIn(s.entry, D)[p].key \in (s.openupval \cup {None}) \ D
      BY <1>4, <2>1, <2>4, ClosedHolds
    <3>2. s.openupval \subseteq Objects BY <1>1 DEF HeapOK, UpvaluesOK
    <3>3. t.entry[p].key # None =>
            t.entry[t.entry[p].key] = ClosedIn(s.entry, D)[t.entry[p].key]
      BY <1>5, <2>3, <3>1, <3>2
    <3>4. UpvalValue(t.entry, p) = UpvalValue(ClosedIn(s.entry, D), p)
      BY <2>3, <3>3 DEF UpvalValue
    <3> QED BY <2>2, <2>4, <3>4 DEF HoldsIn
  <2>5. CASE kind[p] # "lclosure" BY <2>2, <2>3, <2>5 DEF HoldsIn
  <2> QED BY <2>4, <2>5
<1>13. PointersOK(t) BY <1>3, <1>12 DEF PointersOK
<1>14. ColorsOK(t) BY <1>1 DEF HeapOK, ColorsOK, Things, FreeColor
<1> QED BY <1>3, <1>9, <1>10, <1>11, <1>13, <1>14 DEF HeapOK

\* luaF_close: the local of th is gone, and the closures over it have its value.
LEMMA HeapClose ==
  ASSUME NEW s, NEW t, HeapOK(s), kind \in Kinds, NEW th \in LiveIn(s), th \in s.openupval,
         t.entry = [o \in Objects |-> IF o = th THEN Nothing
                      ELSE IF kind[o] = "lclosure" /\ s.entry[o].key = th THEN s.entry[th]
                      ELSE s.entry[o]],
         t.lists = s.lists, t.color = s.color, t.sweepgc = s.sweepgc,
         t.openupval = s.openupval \ {th}, t.touched = s.touched \ {th}, t.twups = s.twups
  PROVE  HeapOK(t) /\ LiveIn(t) = LiveIn(s) /\ AllocatedIn(t) = AllocatedIn(s)
<1> DEFINE c == ClosedIn(s.entry, {th})
<1>1. AllocatedIn(s) \subseteq Objects /\ th \in Objects /\ th # None /\ th \in AllocatedIn(s)
  BY AllocatedType, AddressAssumption DEF HeapOK, SweeperOK, LiveIn
<1>2. AllocatedIn(t) = AllocatedIn(s) BY DEF AllocatedIn
<1>3. LiveIn(t) = LiveIn(s) BY <1>2 DEF LiveIn
<1>4. s.entry \in [Objects -> Entries] BY DEF HeapOK, SweeperOK
<1>5. kind[th] = "thread" /\ s.entry[th].key = None BY <1>1 DEF HeapOK, UpvaluesOK
<1>6. s.entry[th] = [key |-> None, val |-> s.entry[th].val] BY <1>1, <1>4, <1>5 DEF Entries
<1>7. /\ t.entry[th] = Nothing
      /\ \A o \in Objects \ {th} : t.entry[o] = c[o]
  BY <1>1, <1>6 DEF ClosedIn
<1>8. Nothing \in Entries /\ Nothing.key = None /\ Nothing.val = None
  BY DEF Nothing, Entries, Values
<1>9. \A o \in Objects : c[o] \in Entries BY <1>1, ClosedHolds
<1> HIDE DEF c
<1>10. t.entry \in [Objects -> Entries]
  <2>1. \A o \in Objects : t.entry[o] \in Entries BY <1>7, <1>8, <1>9
  <2>2. t.entry = [o \in Objects |-> t.entry[o]] OBVIOUS
  <2> QED BY <2>1, <2>2
<1>11. SweeperOK(t) BY <1>10 DEF HeapOK, SweeperOK
<1>12. FreeOK(t)
  <2>1. ASSUME NEW o \in Objects \ AllocatedIn(s) PROVE t.entry[o] = Nothing
    <3>1. s.entry[o] = Nothing BY <2>1 DEF HeapOK, FreeOK
    <3>2. c[o] = s.entry[o] BY <1>1, <1>8, <3>1 DEF c, ClosedIn
    <3> QED BY <1>1, <1>7, <2>1, <3>1, <3>2
  <2> QED BY <1>2, <2>1 DEF HeapOK, FreeOK
<1>13. UpvaluesOK(t)
  <2>1. ASSUME NEW f \in Objects, kind[f] = "lclosure"
        PROVE  t.entry[f].key \in t.openupval \cup {None}
    <3>1. c[f].key \in (s.openupval \cup {None}) \ {th} BY <1>1, <2>1, ClosedHolds DEF c
    <3> QED BY <1>7, <1>8, <3>1
  <2>2. ASSUME NEW o \in Objects, kind[o] \in {"udata", "thread"} PROVE t.entry[o].key = None
    <3>1. c[o] = s.entry[o] BY <2>2 DEF c, ClosedIn
    <3>2. s.entry[o].key = None BY <2>2 DEF HeapOK, UpvaluesOK
    <3> QED BY <1>7, <1>8, <3>1, <3>2
  <2> QED BY <1>2, <2>1, <2>2 DEF HeapOK, UpvaluesOK
<1>14. ASSUME NEW p \in LiveIn(s) PROVE HoldsIn(t.entry, p) \subseteq LiveIn(s) \cup {None}
  <2>1. p \in Objects BY <1>1 DEF LiveIn
  <2>2. HoldsIn(c, p) \subseteq LiveIn(s) \cup {None}
    <3>1. HoldsIn(c, p) = HoldsIn(s.entry, p) BY <1>1, <2>1, ClosedHolds DEF c
    <3>2. HoldsIn(s.entry, p) \subseteq LiveIn(s) \cup {None} BY DEF HeapOK, PointersOK
    <3> QED BY <3>1, <3>2
  <2>3. CASE p = th BY <1>5, <1>7, <1>8, <2>3 DEF HoldsIn
  <2>4. CASE p # th
    <3>1. t.entry[p] = c[p] BY <1>7, <2>1, <2>4
    <3>2. CASE kind[p] = "lclosure"
      <4>1. c[p].key \in (s.openupval \cup {None}) \ {th} BY <1>1, <2>1, <3>2, ClosedHolds DEF c
      <4>2. s.openupval \subseteq Objects BY <1>1 DEF HeapOK, UpvaluesOK
      <4>3. t.entry[p].key # None => t.entry[t.entry[p].key] = c[t.entry[p].key]
        BY <1>7, <3>1, <4>1, <4>2
      <4>4. UpvalValue(t.entry, p) = UpvalValue(c, p) BY <3>1, <4>3 DEF UpvalValue
      <4> QED BY <2>2, <3>2, <4>4 DEF HoldsIn
    <3>3. CASE kind[p] # "lclosure" BY <2>2, <3>1, <3>3 DEF HoldsIn
    <3> QED BY <3>2, <3>3
  <2> QED BY <2>3, <2>4
<1>15. PointersOK(t) BY <1>3, <1>14 DEF PointersOK
<1>16. ColorsOK(t) BY DEF HeapOK, ColorsOK
<1> QED BY <1>2, <1>3, <1>11, <1>12, <1>13, <1>15, <1>16 DEF HeapOK

-----------------------------------------------------------------------------
(* Sweeping *)

IsSweeper(s) ==
  s = [lists |-> s.lists, sweepgc |-> s.sweepgc, color |-> s.color, entry |-> s.entry,
       openupval |-> s.openupval, touched |-> s.touched, twups |-> s.twups]

SweepStates == {"swpallgc", "swpfinobj", "swptobefnz"}

\* Three states sweep, one for each list.
LEMMA SweepStatesIs == DOMAIN NextSweep = SweepStates
BY DEF NextSweep, SweepStates

ListOf(state) == CASE state = "swpallgc" -> "allgc"
                   [] state = "swpfinobj" -> "finobj"
                   [] state = "swptobefnz" -> "tobefnz"

\* The lists that have been swept.
SweptLists(state) == CASE state = "swpallgc" -> {}
                       [] state = "swpfinobj" -> {"allgc"}
                       [] state = "swptobefnz" -> {"allgc", "finobj"}
                       [] state \in {"swpend", "callfin", "pause"} -> ListNames

\* sweepgc is behind the place p of l, or at the end of l when nothing is left of it,
\* and all before it is white.
Swept(s, l, p) ==
  /\ \/ s.sweepgc = None /\ p = Len(l)
     \/ s.sweepgc = Header /\ p = 0
     \/ p \in DOMAIN l /\ s.sweepgc = l[p]
  /\ \A k \in 1 .. p : s.color[l[k]] = "white"

\* A list in which sweepgc has a place.
SweptSomewhere(s, l) == \E p \in 0 .. Len(l) : Swept(s, l, p)

AllWhite(s, S) == \A o \in S : s.color[o] = "white"

\* What has been swept is white.
SweepOK(s, state) ==
  /\ IF state \in SweepStates
     THEN SweptSomewhere(s, s.lists[ListOf(state)])
     ELSE s.sweepgc = None
  /\ state \notin {"propagate", "atomic"} => \A n \in SweptLists(state) : AllWhite(s, ToSet(s.lists[n]))
  /\ state \in {"callfin", "pause"} => s.color[Main] = "white"

\* Free, field by field.
LEMMA FreeIs ==
  ASSUME NEW s, IsSweeper(s), NEW D, NEW t, t = Free(s, D)
  PROVE  /\ IsSweeper(t) /\ t.lists = s.lists /\ t.sweepgc = s.sweepgc
         /\ t.color = FreeColor(s, D) /\ t.entry = FreeEntry(s, D)
         /\ t.openupval = s.openupval \ D /\ t.touched = s.touched \ D /\ t.twups = s.twups
<1> DEFINE e == [f \in Objects |-> IF f \in D THEN Nothing
                   ELSE IF kind[f] = "lclosure" /\ s.entry[f].key \in D
                   THEN [key |-> None, val |-> s.entry[s.entry[f].key].val] ELSE s.entry[f]]
<1>1. t = [s EXCEPT !.color = FreeColor(s, D), !.openupval = s.openupval \ D,
                    !.touched = s.touched \ D, !.entry = e]
  BY DEF Free, FreeColor
<1>2. e = FreeEntry(s, D) BY DEF FreeEntry, ClosedIn
<1> HIDE DEF e
<1> QED BY <1>1, <1>2 DEF IsSweeper

\* What is between the places i and j of list n is dead, and freed.
CutsFree(s, t, n, i, j, D) ==
  /\ D = Between(s.lists[n], i, j) /\ \A o \in D : s.color[o] = "dead"
  /\ t.lists = [s.lists EXCEPT ![n] = Cut(s.lists[n], i, j)]
  /\ t.color = FreeColor(s, D) /\ t.entry = FreeEntry(s, D)
  /\ t.sweepgc \in Values \cup {Header}
  /\ t.openupval = s.openupval \ D /\ t.touched = s.touched \ D /\ t.twups = s.twups

\* The heap s with list n changed; what is freed is allocated no longer.
KeepsHeap(s, t, n) ==
  /\ HeapOK(t) /\ LiveIn(t) = LiveIn(s) /\ AllocatedIn(t) \subseteq AllocatedIn(s)
  /\ \A m \in ListNames \ {n} : t.lists[m] = s.lists[m]
  /\ \A o \in LiveIn(s) : kind[o] # "lclosure" => t.entry[o] = s.entry[o]

\* A stretch of dead objects is cut out of a list and freed.
LEMMA CutFree ==
  ASSUME NEW s, NEW t, HeapOK(s), kind \in Kinds, NEW n \in ListNames,
         NEW i \in 0 .. Len(s.lists[n]), NEW j \in i + 1 .. Len(s.lists[n]) + 1,
         NEW D, CutsFree(s, t, n, i, j, D)
  PROVE  KeepsHeap(s, t, n) /\ t.lists[n] = Cut(s.lists[n], i, j)
<1> USE DEF CutsFree
<1> DEFINE l == s.lists[n]
           c == Cut(l, i, j)
<1>1. s.lists \in Lists /\ OnePlace(s.lists) BY DEF HeapOK, SweeperOK
<1>2. l \in Seq(Objects) /\ Once(l) BY <1>1 DEF Lists, OnePlace
<1>3. /\ c \in Seq(Objects) /\ Once(c) /\ ToSet(c) = ToSet(l) \ D
  BY <1>2, CutIs
<1>4. /\ t.lists[n] = c /\ \A m \in ListNames \ {n} : t.lists[m] = s.lists[m]
      /\ t.lists \in Lists
  BY <1>1, <1>3 DEF Lists
<1>5. D \subseteq ToSet(l)
  <2>1. Len(l) \in Nat /\ DOMAIN l = 1 .. Len(l) BY <1>2
  <2>2. \A k \in i + 1 .. j - 1 : k \in DOMAIN l BY <2>1
  <2> QED BY <2>2 DEF ToSet, Between
<1> HIDE DEF c
<1>6. OnePlace(t.lists)
  <2>1. \A m \in ListNames : ToSet(t.lists[m]) \subseteq ToSet(s.lists[m]) BY <1>3, <1>4
  <2>2. \A m \in ListNames : Once(t.lists[m]) BY <1>1, <1>3, <1>4 DEF OnePlace
  <2>3. ASSUME NEW x \in ListNames, NEW y \in ListNames, x # y
        PROVE  ToSet(t.lists[x]) \cap ToSet(t.lists[y]) = {}
    <3>1. ToSet(s.lists[x]) \cap ToSet(s.lists[y]) = {} BY <1>1, <2>3 DEF OnePlace
    <3> QED BY <2>1, <3>1
  <2> QED BY <2>2, <2>3 DEF OnePlace
<1>7. AllocatedIn(t) = AllocatedIn(s) \ D
  <2>1. \A m \in ListNames \ {n} : ToSet(s.lists[m]) \cap D = {} BY <1>1, <1>5 DEF OnePlace
  <2>2. \A m \in ListNames : ToSet(t.lists[m]) = ToSet(s.lists[m]) \ D BY <1>3, <1>4, <2>1
  <2>3. ASSUME NEW o PROVE o \in AllocatedIn(t) <=> o \in AllocatedIn(s) \ D
    <3>1. o \in AllocatedIn(t) <=> \E m \in ListNames : o \in ToSet(t.lists[m])
      BY <1>4, AllocatedMember
    <3>2. o \in AllocatedIn(s) <=> \E m \in ListNames : o \in ToSet(s.lists[m])
      BY <1>1, AllocatedMember
    <3> QED BY <2>2, <3>1, <3>2
  <2> QED BY <2>3
<1>8. D \subseteq AllocatedIn(s) BY <1>1, <1>5, AllocatedMember
<1>9. \A o \in D : s.color[o] = "dead" OBVIOUS
<1>11. HeapOK(t) /\ LiveIn(t) = LiveIn(s)
  <2>1. t.lists \in Lists BY <1>4
  <2> QED BY <2>1, <1>6, <1>7, <1>8, <1>9, HeapFree
<1>13. \A o \in LiveIn(s) : o \in Objects /\ o \notin D
  BY <1>1, <1>9, LiveType DEF LiveIn
<1>14. \A o \in LiveIn(s) : kind[o] # "lclosure" => t.entry[o] = s.entry[o]
  BY <1>13 DEF FreeEntry, ClosedIn
<1>12. KeepsHeap(s, t, n) BY <1>4, <1>7, <1>11, <1>14 DEF KeepsHeap
<1> QED BY <1>4, <1>12 DEF c

\* Behind the place i all is dead up to the place j, and before it all is white.
SweepsTo(s, l, i, j) ==
  /\ \A k \in i + 1 .. j - 1 : s.color[l[k]] = "dead"
  /\ j <= Len(l) => s.color[l[j]] # "dead"
  /\ \A k \in 1 .. i : s.color[l[k]] = "white"

\* SweepTo: the prefix up to what stays is white.
LEMMA SweepToOK ==
  ASSUME NEW s, IsSweeper(s), HeapOK(s), kind \in Kinds, NEW n \in ListNames,
         NEW i \in 0 .. Len(s.lists[n]), NEW j \in i + 1 .. Len(s.lists[n]) + 1,
         SweepsTo(s, s.lists[n], i, j), NEW t, t = SweepTo(s, n, i, j)
  PROVE  /\ IsSweeper(t) /\ KeepsHeap(s, t, n) /\ t.lists[n] = Cut(s.lists[n], i, j)
         /\ \A o \in Things : s.color[o] = "white" => t.color[o] = "white"
         /\ SweptSomewhere(t, t.lists[n])
<1> DEFINE l == s.lists[n]
           c == Cut(l, i, j)
           D == Between(l, i, j)
           u == [Free(s, D) EXCEPT !.lists[n] = c]
<1>1. s.lists \in Lists /\ OnePlace(s.lists) BY DEF HeapOK, SweeperOK
<1>2. l \in Seq(Objects) /\ Once(l) BY <1>1 DEF Lists, OnePlace
<1>3. Len(l) \in Nat /\ DOMAIN l = 1 .. Len(l) BY <1>2
<1>4. /\ IsSweeper(u) /\ u.lists = [s.lists EXCEPT ![n] = c] /\ u.sweepgc = s.sweepgc
      /\ u.color = FreeColor(s, D) /\ u.entry = FreeEntry(s, D)
      /\ u.openupval = s.openupval \ D /\ u.touched = s.touched \ D /\ u.twups = s.twups
  <2> DEFINE f == Free(s, D)
  <2>1. /\ IsSweeper(f) /\ f.lists = s.lists /\ f.sweepgc = s.sweepgc
        /\ f.color = FreeColor(s, D) /\ f.entry = FreeEntry(s, D)
        /\ f.openupval = s.openupval \ D /\ f.touched = s.touched \ D /\ f.twups = s.twups
    <3> HIDE DEF D
    <3> QED BY FreeIs
  <2>2. u = [f EXCEPT !.lists[n] = c] OBVIOUS
  <2> HIDE DEF u, f, c, D
  <2> QED BY <2>1, <2>2 DEF IsSweeper
<1>5. u.sweepgc \in Values \cup {Header} BY <1>4 DEF HeapOK, SweeperOK
<1>6. t = IF j > Len(l) THEN [u EXCEPT !.sweepgc = None]
          ELSE [u EXCEPT !.color[l[j]] = "white", !.sweepgc = IF j = Len(l) THEN None ELSE l[j]]
  BY DEF SweepTo, Between
<1> HIDE DEF u
<1>7. KeepsHeap(s, u, n) /\ u.lists[n] = c
  <2>1. \A o \in D : s.color[o] = "dead" BY DEF SweepsTo, Between
  <2>2. CutsFree(s, u, n, i, j, D)
    <3> HIDE DEF D
    <3>1. D = Between(s.lists[n], i, j) BY DEF D
    <3> QED BY <1>4, <1>5, <2>1, <3>1 DEF CutsFree
  <2> HIDE DEF D
  <2> QED BY <2>2, CutFree
<1>8. /\ c \in Seq(Objects) /\ Len(c) \in Nat /\ DOMAIN c = 1 .. Len(c) /\ i \in 0 .. Len(c)
      /\ \A k \in 1 .. i : k \in DOMAIN c /\ c[k] = l[k]
      /\ j > Len(l) => i = Len(c)
      /\ ~ (j > Len(l)) => j \in DOMAIN l /\ i + 1 \in DOMAIN c /\ c[i + 1] = l[j]
      /\ j = Len(l) => i + 1 = Len(c)
  <2>1. PlacesIn(c, Objects, l, i, j) BY <1>2, CutPlaces
  <2> HIDE DEF c
  <2> QED BY <2>1 DEF PlacesIn
<1> HIDE DEF c
<1>9. s.color \in [Things -> Colors] /\ u.color \in [Things -> Colors] BY <1>7 DEF HeapOK, SweeperOK, KeepsHeap
<1>10. \A o \in Things : /\ s.color[o] = "white" => u.color[o] = "white"
                         /\ o \notin D => u.color[o] = s.color[o]
  BY <1>4 DEF FreeColor
<1>11. Objects \subseteq Things BY DEF Things
<1>12. \A k \in 1 .. i : k \in DOMAIN c /\ c[k] = l[k] /\ u.color[c[k]] = "white"
  <2>1. \A k \in 1 .. i : l[k] \in Things BY <1>2, <1>3, <1>11
  <2>2. \A k \in 1 .. i : s.color[l[k]] = "white" BY DEF SweepsTo
  <2> QED BY <1>8, <1>10, <2>1, <2>2
<1>13. CASE j > Len(l)
  <2>1. /\ t.sweepgc = None /\ t.color = u.color /\ t.lists = u.lists /\ Same(u, t)
        /\ t.touched = u.touched /\ IsSweeper(t)
    BY <1>4, <1>6, <1>13 DEF IsSweeper, Same
  <2>2. KeepsHeap(s, t, n)
    <3>1. HeapOK(u) BY <1>7 DEF KeepsHeap
    <3>2. AllocatedIn(t) = AllocatedIn(u) BY <2>1 DEF AllocatedIn
    <3>3. Recolors(u, t)
      BY <2>1, <3>1, <3>2 DEF Recolors, HeapOK, SweeperOK, FreeOK, UpvaluesOK, ColorsOK, Same, Values
    <3>4. HeapOK(t) /\ LiveIn(t) = LiveIn(u) BY <3>1, <3>3, HeapRecolor
    <3> QED BY <1>7, <2>1, <3>2, <3>4 DEF KeepsHeap, Same
  <2>3. i = Len(c) /\ i \in 0 .. Len(c) BY <1>8, <1>13
  <2>4. Swept(t, t.lists[n], i) BY <1>7, <1>12, <2>1, <2>3 DEF Swept
  <2> QED BY <1>7, <1>10, <2>1, <2>2, <2>3, <2>4 DEF c, SweptSomewhere
<1>14. CASE ~ (j > Len(l))
  <2>1. /\ t.sweepgc = IF j = Len(l) THEN None ELSE l[j]
        /\ t.color = [u.color EXCEPT ![l[j]] = "white"] /\ t.lists = u.lists /\ Same(u, t)
        /\ t.touched = u.touched /\ IsSweeper(t)
    BY <1>4, <1>6, <1>14 DEF IsSweeper, Same
  <2>2. j \in DOMAIN l /\ i + 1 \in DOMAIN c /\ c[i + 1] = l[j] /\ l[j] \in Objects
    <3>1. j \in DOMAIN l /\ i + 1 \in DOMAIN c /\ c[i + 1] = l[j] BY <1>8, <1>14
    <3>2. l[j] \in Objects BY <1>2, <3>1
    <3> QED BY <3>1, <3>2
  <2>3. l[j] \notin D
    <3>1. \A k \in i + 1 .. j - 1 : k \in DOMAIN l /\ k # j BY <1>3, <2>2
    <3> QED BY <1>2, <2>2, <3>1 DEF Once, Between
  <2>4. u.color[l[j]] # "dead"
    <3>1. s.color[l[j]] # "dead" BY <1>3, <1>14 DEF SweepsTo
    <3> QED BY <1>10, <1>11, <2>2, <2>3, <3>1
  <2>5. \A o \in Things : t.color[o] = IF o = l[j] THEN "white" ELSE u.color[o] BY <1>9, <2>1
  <2>6. KeepsHeap(s, t, n)
    <3>1. HeapOK(u) BY <1>7 DEF KeepsHeap
    <3>2. AllocatedIn(t) = AllocatedIn(u) BY <2>1 DEF AllocatedIn
    <3>3. t.sweepgc \in Values \cup {Header} BY <2>1, <2>2 DEF Values
    <3>4. t.color \in [Things -> Colors] BY <1>9, <2>1 DEF Colors
    <3>5. /\ \A o \in Things : t.color[o] = "dead" <=> u.color[o] = "dead"
          /\ \A o \in Objects \ AllocatedIn(u) : t.color[o] = "white"
          /\ \A o \in Things : StaysGray(o) => t.color[o] # "black"
      BY <1>11, <2>4, <2>5, <3>1 DEF HeapOK, FreeOK, ColorsOK
    <3>6. Recolors(u, t)
      BY <2>1, <3>1, <3>2, <3>3, <3>4, <3>5
      DEF Recolors, HeapOK, SweeperOK, UpvaluesOK, Same
    <3>7. HeapOK(t) /\ LiveIn(t) = LiveIn(u) BY <3>1, <3>6, HeapRecolor
    <3> QED BY <1>7, <2>1, <3>2, <3>7 DEF KeepsHeap, Same
  <2>7. \A k \in 1 .. i + 1 : t.color[c[k]] = "white"
    <3>1. \A k \in 1 .. i + 1 : k = i + 1 \/ k \in 1 .. i OBVIOUS
    <3>2. \A k \in 1 .. i : c[k] \in Things
      <4>1. c \in Seq(Objects) /\ \A k \in 1 .. i : k \in DOMAIN c BY <1>8, <1>12
      <4>2. \A k \in 1 .. i : c[k] \in Objects BY <4>1
      <4> QED BY <1>11, <4>2
    <3> QED BY <1>11, <1>12, <2>2, <2>5, <3>1, <3>2
  <2>8. j = Len(l) => i + 1 = Len(c) BY <1>8
  <2>9. i + 1 \in 0 .. Len(c)
    <3>1. i + 1 \in DOMAIN c /\ DOMAIN c = 1 .. Len(c) /\ Len(c) \in Nat BY <1>8, <2>2
    <3> QED BY <3>1
  <2>10. Swept(t, t.lists[n], i + 1) BY <1>7, <2>1, <2>2, <2>7, <2>8 DEF Swept
  <2> QED BY <1>7, <1>10, <2>1, <2>5, <2>6, <2>9, <2>10 DEF c, SweptSomewhere
<1> QED BY <1>13, <1>14

\* What a sweep of list n leaves in the lists: all that is not dead.
LEMMA KeptLists ==
  ASSUME NEW s, NEW t, HeapOK(s), NEW n \in ListNames, KeepsHeap(s, t, n)
  PROVE  \A m \in ListNames : /\ ToSet(t.lists[m]) \subseteq ToSet(s.lists[m])
                              /\ ToSet(s.lists[m]) \cap LiveIn(s) \subseteq ToSet(t.lists[m])
<1>1. s.lists \in Lists /\ OnePlace(s.lists) /\ t.lists \in Lists /\ OnePlace(t.lists)
  BY DEF HeapOK, SweeperOK, KeepsHeap
<1>2. \A m \in ListNames \ {n} : t.lists[m] = s.lists[m] BY DEF KeepsHeap
<1>3. LiveIn(s) = LiveIn(t) /\ AllocatedIn(t) \subseteq AllocatedIn(s) BY DEF KeepsHeap
<1>4. ASSUME NEW o \in ToSet(t.lists[n]) PROVE o \in ToSet(s.lists[n])
  <2>1. o \in AllocatedIn(s) BY <1>1, <1>3, AllocatedMember
  <2>2. PICK m \in ListNames : o \in ToSet(s.lists[m]) BY <1>1, <2>1, AllocatedMember
  <2>3. m # n => o \in ToSet(t.lists[m]) BY <1>2, <2>2
  <2> QED BY <1>1, <2>2, <2>3 DEF OnePlace
<1>5. ASSUME NEW o \in ToSet(s.lists[n]), o \in LiveIn(s) PROVE o \in ToSet(t.lists[n])
  <2>1. o \in AllocatedIn(t) BY <1>3, <1>5 DEF LiveIn
  <2>2. PICK m \in ListNames : o \in ToSet(t.lists[m]) BY <1>1, <2>1, AllocatedMember
  <2>3. m # n => o \in ToSet(s.lists[m]) BY <1>2, <2>2
  <2> QED BY <1>1, <2>2, <2>3, <1>5 DEF OnePlace
<1> QED BY <1>2, <1>4, <1>5

\* A sweep keeps the roots.
LEMMA KeptRoots ==
  ASSUME NEW s, NEW t, HeapOK(s), NEW n \in ListNames, KeepsHeap(s, t, n),
         NEW st, NEW fin, RootsOK(s, st, fin)
  PROVE  RootsOK(t, st, fin)
<1>0. "finobj" \in ListNames /\ "tobefnz" \in ListNames BY DEF ListNames
<1>1. /\ ToSet(t.lists.finobj) \subseteq ToSet(s.lists.finobj)
      /\ ToSet(s.lists.finobj) \cap LiveIn(s) \subseteq ToSet(t.lists.finobj)
      /\ ToSet(t.lists.tobefnz) \subseteq ToSet(s.lists.tobefnz)
      /\ ToSet(s.lists.tobefnz) \cap LiveIn(s) \subseteq ToSet(t.lists.tobefnz)
  BY <1>0, KeptLists
<1> QED BY <1>1 DEF RootsOK, KeepsHeap

\* Where sweepgc is.
LEMMA PlaceIs ==
  ASSUME NEW s, HeapOK(s), NEW state \in SweepStates, NEW p \in 0 .. Len(s.lists[ListOf(state)]),
         Swept(s, s.lists[ListOf(state)], p), s.sweepgc # None
  PROVE  ListAt(s, state) = ListOf(state) /\ PlaceIn(s, s.lists[ListOf(state)]) = p
<1> DEFINE n == ListOf(state)
           l == s.lists[n]
<1>1. n \in ListNames BY DEF ListOf, SweepStates, ListNames
<1>2. s.lists \in Lists /\ OnePlace(s.lists) BY DEF HeapOK, SweeperOK
<1>3. l \in Seq(Objects) /\ Once(l) /\ DOMAIN s.lists = ListNames BY <1>1, <1>2 DEF Lists, OnePlace
<1>4. CASE s.sweepgc = Header
  <2>1. ListAt(s, state) = n BY <1>4 DEF ListAt, ListOf, SweepStates
  <2>2. p = 0
    <3>1. \A k \in DOMAIN l : l[k] # Header BY <1>3, AddressAssumption
    <3> QED BY <1>4, <3>1 DEF Swept
  <2> QED BY <1>4, <2>1, <2>2 DEF PlaceIn
<1>5. CASE s.sweepgc # Header
  <2>1. p \in DOMAIN l /\ s.sweepgc = l[p] BY <1>5 DEF Swept
  <2>2. s.sweepgc \in ToSet(l) BY <2>1 DEF ToSet
  <2>3. \A m \in ListNames : s.sweepgc \in ToSet(s.lists[m]) => m = n
    BY <1>1, <1>2, <2>2 DEF OnePlace
  <2> DEFINE at == CHOOSE m \in ListNames : s.sweepgc \in ToSet(s.lists[m])
  <2>4. at = n BY <1>1, <2>2, <2>3
  <2>5. ListAt(s, state) = n BY <1>3, <1>5, <2>4 DEF ListAt
  <2> HIDE DEF at
  <2>6. \A k \in DOMAIN l : l[k] = s.sweepgc => k = p BY <1>3, <2>1 DEF Once
  <2> HIDE DEF l
  <2>7. (CHOOSE k \in DOMAIN l : l[k] = s.sweepgc) = p BY <2>1, <2>6
  <2>8. PlaceIn(s, l) = p BY <1>5, <2>7 DEF PlaceIn
  <2> QED BY <2>5, <2>8 DEF l
<1> QED BY <1>4, <1>5

\* A step of the sweep of list n.
SweepsOn(s, t, n) ==
  /\ IsSweeper(t) /\ KeepsHeap(s, t, n)
  /\ \A o \in Things : s.color[o] = "white" => t.color[o] = "white"
  /\ SweptSomewhere(t, t.lists[n])

\* SweepOne frees an object and stays, or goes on to the next.
LEMMA SweepOneOK ==
  ASSUME NEW s, IsSweeper(s), HeapOK(s), kind \in Kinds, NEW state \in SweepStates,
         NEW p \in 0 .. Len(s.lists[ListOf(state)]), Swept(s, s.lists[ListOf(state)], p),
         s.sweepgc # None, NEW t, t = SweepOne(s, state)
  PROVE  SweepsOn(s, t, ListOf(state))
<1> DEFINE n == ListOf(state)
           l == s.lists[n]
<1>1. ListAt(s, state) = n /\ PlaceIn(s, l) = p BY PlaceIs
<1>2. n \in ListNames BY DEF ListOf, SweepStates, ListNames
<1>3. l \in Seq(Objects) /\ Once(l) /\ s.lists \in Lists
  BY <1>2 DEF Lists, OnePlace, HeapOK, SweeperOK
<1>4. Len(l) \in Nat /\ DOMAIN l = 1 .. Len(l) /\ p \in Nat /\ p <= Len(l) BY <1>3
<1>5. \A k \in 1 .. p : s.color[l[k]] = "white" BY DEF Swept
<1>9. p \in 0 .. Len(l) /\ Swept(s, l, p) OBVIOUS
<1>6. t = IF p < Len(l) /\ s.color[l[p + 1]] = "dead"
          THEN [Free(s, {l[p + 1]}) EXCEPT !.lists[n] = Cut(l, p, p + 2),
                                      !.sweepgc = IF p + 1 = Len(l) THEN None ELSE @]
          ELSE SweepTo(s, n, p, p + 1)
  BY <1>1 DEF SweepOne
<1>7. CASE ~ (p < Len(l) /\ s.color[l[p + 1]] = "dead")
  <2> DEFINE j == p + 1
  <2>1. t = SweepTo(s, n, p, j) BY <1>6, <1>7
  <2>2. j \in p + 1 .. Len(l) + 1 BY <1>4
  <2>3. SweepsTo(s, l, p, j) BY <1>4, <1>5, <1>7 DEF SweepsTo
  <2> HIDE DEF n, j
  <2>4. /\ IsSweeper(t) /\ KeepsHeap(s, t, n)
        /\ \A o \in Things : s.color[o] = "white" => t.color[o] = "white"
        /\ SweptSomewhere(t, t.lists[n])
    BY <1>2, <1>9, <2>1, <2>2, <2>3, SweepToOK
  <2> QED BY <2>4 DEF SweepsOn, n
<1>8. CASE p < Len(l) /\ s.color[l[p + 1]] = "dead"
  <2> DEFINE D == {l[p + 1]}
             c == Cut(l, p, p + 2)
             f == Free(s, D)
  <2>1. p + 2 \in p + 1 .. Len(l) + 1 BY <1>4, <1>8
  <2>2. D = Between(l, p, p + 2)
    <3>1. p + 1 .. (p + 2) - 1 = {p + 1} BY <1>4
    <3> QED BY <3>1 DEF Between
  <2>3. /\ IsSweeper(f) /\ f.lists = s.lists /\ f.sweepgc = s.sweepgc
        /\ f.color = FreeColor(s, D) /\ f.entry = FreeEntry(s, D)
        /\ f.openupval = s.openupval \ D /\ f.touched = s.touched \ D /\ f.twups = s.twups
    <3> HIDE DEF D
    <3> QED BY FreeIs
  <2>4. t = [f EXCEPT !.lists[n] = c, !.sweepgc = IF p + 1 = Len(l) THEN None ELSE @]
    BY <1>6, <1>8
  <2> HIDE DEF D, c, f, n
  <2>5. /\ IsSweeper(t) /\ t.lists = [s.lists EXCEPT ![n] = c]
        /\ t.sweepgc = IF p + 1 = Len(l) THEN None ELSE s.sweepgc
        /\ t.color = FreeColor(s, D) /\ t.entry = FreeEntry(s, D)
        /\ t.openupval = s.openupval \ D /\ t.touched = s.touched \ D /\ t.twups = s.twups
    BY <2>3, <2>4 DEF IsSweeper
  <2>6. t.sweepgc \in Values \cup {Header} BY <2>5 DEF HeapOK, SweeperOK, Values
  <2>7. \A o \in D : s.color[o] = "dead" BY <1>8 DEF D
  <2>8. CutsFree(s, t, n, p, p + 2, D) BY <2>2, <2>5, <2>6, <2>7 DEF CutsFree, c
  <2>9. KeepsHeap(s, t, n) /\ t.lists[n] = c
    BY <1>2, <1>9, <2>1, <2>8, CutFree DEF c
  <2>10. \A o \in Things : s.color[o] = "white" => t.color[o] = "white"
    BY <2>5 DEF FreeColor
  <2>11. PlacesIn(c, Objects, l, p, p + 2) BY <1>3, <2>1, CutPlaces DEF c
  <2>12. \A k \in 1 .. p : k \in DOMAIN c /\ c[k] = l[k] /\ l[k] \in Things
    <3>1. \A k \in 1 .. p : k \in DOMAIN l BY <1>4
    <3>2. \A k \in 1 .. p : l[k] \in Things BY <1>3, <3>1 DEF Things
    <3> QED BY <2>11, <3>2 DEF PlacesIn
  <2>13. \A k \in 1 .. p : t.color[c[k]] = "white" BY <1>5, <2>10, <2>12
  <2>14. p \in 0 .. Len(c) /\ (p + 1 = Len(l) => p = Len(c))
    <3>1. p + 1 = Len(l) => p + 2 > Len(l) BY <1>4
    <3> QED BY <2>11, <3>1 DEF PlacesIn
  <2>15. Swept(t, c, p)
    <3>1. CASE p + 1 = Len(l) BY <2>5, <2>13, <2>14, <3>1 DEF Swept
    <3>2. CASE p + 1 # Len(l)
      <4>1. t.sweepgc = s.sweepgc BY <2>5, <3>2
      <4>2. (s.sweepgc = Header /\ p = 0) \/ (p \in DOMAIN l /\ s.sweepgc = l[p]) BY <1>9 DEF Swept
      <4>3. p \in DOMAIN l => p \in 1 .. p BY <1>4
      <4> QED BY <2>12, <2>13, <4>1, <4>2, <4>3 DEF Swept
    <3> QED BY <3>1, <3>2
  <2> QED BY <2>5, <2>9, <2>10, <2>14, <2>15 DEF SweepsOn, SweptSomewhere, n
<1> QED BY <1>7, <1>8

\* sweeptolive leaves the object it started from behind.
LEMMA SweepToLiveOK ==
  ASSUME NEW s, IsSweeper(s), HeapOK(s), kind \in Kinds, NEW state \in SweepStates,
         NEW p \in 0 .. Len(s.lists[ListOf(state)]), Swept(s, s.lists[ListOf(state)], p),
         s.sweepgc # None, NEW t, t = sweeptolive(s, state)
  PROVE  SweepsOn(s, t, ListOf(state)) /\ t.sweepgc # s.sweepgc
<1> DEFINE n == ListOf(state)
           l == s.lists[n]
           stays == {k \in p + 1 .. Len(l) : s.color[l[k]] # "dead"}
           j == IF stays = {} THEN Len(l) + 1 ELSE CHOOSE k \in stays : \A m \in stays : k <= m
<1>1. ListAt(s, state) = n /\ PlaceIn(s, l) = p BY PlaceIs
<1>2. n \in ListNames BY DEF ListOf, SweepStates, ListNames
<1>3. l \in Seq(Objects) /\ Once(l) /\ s.lists \in Lists
  BY <1>2 DEF Lists, OnePlace, HeapOK, SweeperOK
<1>4. Len(l) \in Nat /\ DOMAIN l = 1 .. Len(l) /\ p \in Nat /\ p <= Len(l) BY <1>3
<1>5. \A k \in 1 .. p : s.color[l[k]] = "white" BY DEF Swept
<1>6. t = SweepTo(s, n, p, j) BY <1>1 DEF sweeptolive
<1>7. p \in 0 .. Len(l) /\ Swept(s, l, p) OBVIOUS
<1> HIDE DEF n
<1>8. /\ j \in p + 1 .. Len(l) + 1
      /\ \A k \in p + 1 .. j - 1 : s.color[l[k]] = "dead"
      /\ j <= Len(l) => s.color[l[j]] # "dead"
  <2>1. stays \subseteq Nat /\ stays \subseteq p + 1 .. Len(l) BY <1>4
  <2>2. \A k \in p + 1 .. Len(l) : k \notin stays => s.color[l[k]] = "dead" OBVIOUS
  <2>3. \A k \in stays : s.color[l[k]] # "dead" OBVIOUS
  <2> HIDE DEF stays
  <2>4. CASE stays = {} BY <1>4, <2>2, <2>4
  <2>5. CASE stays # {}
    <3>1. \E k \in stays : \A m \in stays : k <= m BY <2>1, <2>5, LeastElement
    <3>2. j \in stays /\ \A m \in stays : j <= m BY <2>5, <3>1
    <3> HIDE DEF j
    <3>3. \A k \in p + 1 .. j - 1 : k \in p + 1 .. Len(l) /\ ~ (j <= k) BY <1>4, <2>1, <3>2
    <3>4. j \in p + 1 .. Len(l) + 1 BY <1>4, <2>1, <3>2
    <3> QED BY <2>2, <2>3, <3>2, <3>3, <3>4
  <2> QED BY <2>4, <2>5
<1> HIDE DEF j
<1>9. SweepsTo(s, l, p, j) BY <1>5, <1>8 DEF SweepsTo
<1>10. /\ IsSweeper(t) /\ KeepsHeap(s, t, n)
       /\ \A o \in Things : s.color[o] = "white" => t.color[o] = "white"
       /\ SweptSomewhere(t, t.lists[n])
  BY <1>2, <1>6, <1>7, <1>8, <1>9, SweepToOK
<1>11. t.sweepgc = IF j > Len(l) \/ j = Len(l) THEN None ELSE l[j]
  <2> DEFINE D == {l[k] : k \in p + 1 .. j - 1}
             f == Free(s, D)
             u == [f EXCEPT !.lists[n] = Cut(l, p, j)]
  <2>1. t = IF j > Len(l) THEN [u EXCEPT !.sweepgc = None]
            ELSE [u EXCEPT !.color[l[j]] = "white", !.sweepgc = IF j = Len(l) THEN None ELSE l[j]]
    BY <1>6 DEF SweepTo
  <2>2. IsSweeper(f)
    <3> HIDE DEF D
    <3> QED BY FreeIs
  <2> HIDE DEF f, D, l
  <2> QED BY <2>1, <2>2 DEF IsSweeper
<1>12. t.sweepgc # s.sweepgc
  <2>1. CASE j > Len(l) \/ j = Len(l) BY <1>11, <2>1
  <2>2. CASE ~ (j > Len(l) \/ j = Len(l))
    <3>1. t.sweepgc = l[j] /\ j \in DOMAIN l /\ j # p BY <1>4, <1>8, <1>11, <2>2
    <3>2. l[j] # Header BY <1>3, <3>1, AddressAssumption
    <3>3. s.sweepgc = Header \/ (p \in DOMAIN l /\ s.sweepgc = l[p]) BY <1>7 DEF Swept
    <3> QED BY <1>3, <3>1, <3>2, <3>3 DEF Once
  <2> QED BY <2>1, <2>2
<1> QED BY <1>10, <1>12 DEF SweepsOn, n

\* The record with sweepgc elsewhere.
Resumes(s, t) ==
  /\ IsSweeper(t) /\ Same(s, t) /\ t.lists = s.lists /\ t.color = s.color /\ t.touched = s.touched

\* The place of sweepgc is none of the heap.
LEMMA HeapResume ==
  ASSUME NEW s, NEW t, HeapOK(s), Resumes(s, t), t.sweepgc \in Values \cup {Header}
  PROVE  HeapOK(t) /\ LiveIn(t) = LiveIn(s) /\ AllocatedIn(t) = AllocatedIn(s)
<1>1. AllocatedIn(t) = AllocatedIn(s) BY DEF Resumes, AllocatedIn
<1>2. Recolors(s, t)
  BY <1>1 DEF Recolors, Resumes, HeapOK, SweeperOK, FreeOK, UpvaluesOK, ColorsOK, Same
<1> QED BY <1>1, <1>2, HeapRecolor

\* entersweep frees a prefix of allgc and leaves sweepgc behind a white object.
LEMMA EnterSweepOK ==
  ASSUME NEW s, IsSweeper(s), HeapOK(s), kind \in Kinds, NEW t, t = EnterSweep(s)
  PROVE  SweepsOn(s, t, "allgc") /\ SweepOK(t, "swpallgc")
<1> DEFINE u == [s EXCEPT !.sweepgc = Header]
           l == u.lists["allgc"]
<1>1. Resumes(s, u) /\ u.sweepgc = Header BY DEF IsSweeper, Resumes, Same
<1>2. t = SweepOne(u, "swpallgc") BY DEF EnterSweep
<1> HIDE DEF u
<1>3. HeapOK(u) /\ LiveIn(u) = LiveIn(s) /\ AllocatedIn(u) = AllocatedIn(s)
  BY <1>1, HeapResume DEF Values
<1>4. ListOf("swpallgc") = "allgc" /\ "swpallgc" \in SweepStates /\ Header # None
  BY AddressAssumption DEF ListOf, SweepStates
<1>5. u.lists["allgc"] \in Seq(Objects) BY <1>3 DEF HeapOK, SweeperOK, Lists, ListNames
<1>6. Len(u.lists["allgc"]) \in Nat /\ 0 \in 0 .. Len(u.lists["allgc"]) BY <1>5
<1>7. Swept(u, u.lists["allgc"], 0) BY <1>1, <1>6 DEF Swept
<1>8. IsSweeper(u) BY <1>1 DEF Resumes
<1>9. SweepsOn(u, t, "allgc")
  <2>1. 0 \in 0 .. Len(u.lists[ListOf("swpallgc")]) /\ Swept(u, u.lists[ListOf("swpallgc")], 0)
    BY <1>4, <1>6, <1>7
  <2>2. SweepsOn(u, t, ListOf("swpallgc")) BY <1>1, <1>2, <1>3, <1>4, <1>8, <2>1, SweepOneOK
  <2> QED BY <1>4, <2>2
<1>10. SweepsOn(s, t, "allgc") BY <1>1, <1>3, <1>9 DEF SweepsOn, KeepsHeap, Resumes, Same
<1>11. SweepOK(t, "swpallgc") BY <1>4, <1>9 DEF SweepOK, SweepsOn, SweptLists
<1> QED BY <1>10, <1>11

\* What is white in s is white in t.
WhiteStays(s, t) == \A o \in Things : s.color[o] = "white" => t.color[o] = "white"

\* What has been swept stays so when nothing white is colored.
LEMMA SweptSame ==
  ASSUME NEW s, NEW t, NEW l \in Seq(Objects), SweptSomewhere(s, l), t.sweepgc = s.sweepgc,
         WhiteStays(s, t)
  PROVE  SweptSomewhere(t, l)
<1>1. PICK p \in 0 .. Len(l) : Swept(s, l, p) BY DEF SweptSomewhere
<1>2. \A k \in 1 .. p : l[k] \in Things
  <2>1. \A k \in 1 .. p : k \in DOMAIN l OBVIOUS
  <2> QED BY <2>1 DEF Things
<1>3. Swept(t, l, p) BY <1>1, <1>2 DEF Swept, WhiteStays
<1> QED BY <1>3 DEF SweptSomewhere

\* A white object put in front of a list has been swept.
LEMMA SweptCons ==
  ASSUME NEW s, NEW t, NEW l \in Seq(Objects), SweptSomewhere(s, l), t.sweepgc = s.sweepgc,
         WhiteStays(s, t), NEW o \in Objects, t.color[o] = "white"
  PROVE  SweptSomewhere(t, <<o>> \o l)
<1> DEFINE c == <<o>> \o l
<1>1. PICK p \in 0 .. Len(l) : Swept(s, l, p) BY DEF SweptSomewhere
<1>2. /\ DOMAIN c = 1 .. Len(l) + 1 /\ Len(l) \in Nat /\ Len(c) = Len(l) + 1 /\ c[1] = o
      /\ \A i \in 2 .. Len(l) + 1 : i - 1 \in DOMAIN l /\ c[i] = l[i - 1]
  BY SetOfCons
<1>3. \A k \in 1 .. p : l[k] \in Things
  <2>1. \A k \in 1 .. p : k \in DOMAIN l OBVIOUS
  <2> QED BY <2>1 DEF Things
<1> HIDE DEF c
<1>4. ASSUME NEW k \in 1 .. p + 1 PROVE t.color[c[k]] = "white"
  <2>1. CASE k = 1 BY <1>2, <2>1
  <2>2. CASE k # 1
    <3>1. k - 1 \in 1 .. p /\ k \in 2 .. Len(l) + 1 BY <1>2, <2>2
    <3>2. c[k] = l[k - 1] /\ l[k - 1] \in Things /\ s.color[l[k - 1]] = "white"
      BY <1>1, <1>2, <1>3, <3>1 DEF Swept
    <3> QED BY <3>2 DEF WhiteStays
  <2> QED BY <2>1, <2>2
<1>5. p + 1 \in 0 .. Len(c) /\ 0 \in 0 .. Len(c) BY <1>2
<1>6. CASE s.sweepgc = None /\ p = Len(l)
  <2>1. Swept(t, c, p + 1) BY <1>2, <1>4, <1>6 DEF Swept
  <2> QED BY <1>5, <2>1 DEF SweptSomewhere, c
<1>7. CASE s.sweepgc = Header /\ p = 0
  <2>1. Swept(t, c, 0) BY <1>7 DEF Swept
  <2> QED BY <1>5, <2>1 DEF SweptSomewhere, c
<1>8. CASE p \in DOMAIN l /\ s.sweepgc = l[p]
  <2>1. p + 1 \in 2 .. Len(l) + 1 /\ (p + 1) - 1 = p /\ p + 1 \in DOMAIN c BY <1>2, <1>8
  <2>2. c[p + 1] = l[p] BY <1>2, <2>1
  <2>3. Swept(t, c, p + 1) BY <1>4, <1>8, <2>1, <2>2 DEF Swept
  <2> QED BY <1>5, <2>3 DEF SweptSomewhere, c
<1> QED BY <1>1, <1>6, <1>7, <1>8 DEF Swept

\* A list that is being swept may lose its first object, if sweepgc is not in it.
LEMMA SweptTail ==
  ASSUME NEW s, NEW t, NEW l \in Seq(Objects), SweptSomewhere(s, l), t.sweepgc = s.sweepgc,
         WhiteStays(s, t), l # << >>, s.sweepgc # Head(l)
  PROVE  SweptSomewhere(t, Tail(l))
<1> DEFINE c == Tail(l)
<1>1. PICK p \in 0 .. Len(l) : Swept(s, l, p) BY DEF SweptSomewhere
<1>2. /\ DOMAIN c = 1 .. Len(l) - 1 /\ Len(l) \in Nat \ {0} /\ Len(c) = Len(l) - 1
      /\ Head(l) = l[1] /\ \A i \in DOMAIN c : i + 1 \in DOMAIN l /\ c[i] = l[i + 1]
  BY SetOfTail, EmptySeq
<1>3. \A k \in 1 .. p : l[k] \in Things
  <2>1. \A k \in 1 .. p : k \in DOMAIN l OBVIOUS
  <2> QED BY <2>1 DEF Things
<1> HIDE DEF c
<1>4. ASSUME NEW k \in 1 .. p - 1 PROVE t.color[c[k]] = "white"
  <2>1. k \in DOMAIN c /\ k + 1 \in 1 .. p BY <1>2
  <2>2. c[k] = l[k + 1] /\ l[k + 1] \in Things /\ s.color[l[k + 1]] = "white"
    BY <1>1, <1>2, <1>3, <2>1 DEF Swept
  <2> QED BY <2>2 DEF WhiteStays
<1>5. 0 \in 0 .. Len(c) /\ (p # 0 => p - 1 \in 0 .. Len(c)) BY <1>2
<1>6. CASE s.sweepgc = None /\ p = Len(l)
  <2>1. p # 0 /\ p - 1 = Len(c) BY <1>2, <1>6
  <2>2. Swept(t, c, p - 1) BY <1>4, <1>6, <2>1 DEF Swept
  <2> QED BY <1>5, <2>1, <2>2 DEF SweptSomewhere, c
<1>7. CASE s.sweepgc = Header /\ p = 0
  <2>1. Swept(t, c, 0) BY <1>7 DEF Swept
  <2> QED BY <1>5, <2>1 DEF SweptSomewhere, c
<1>8. CASE p \in DOMAIN l /\ s.sweepgc = l[p]
  <2>1. p # 1 BY <1>2, <1>8
  <2>2. p # 0 /\ p - 1 \in DOMAIN c /\ (p - 1) + 1 = p BY <1>2, <1>8, <2>1
  <2>3. c[p - 1] = l[p] BY <1>2, <2>2
  <2>4. Swept(t, c, p - 1) BY <1>4, <1>8, <2>2, <2>3 DEF Swept
  <2> QED BY <1>5, <2>2, <2>4 DEF SweptSomewhere, c
<1> QED BY <1>1, <1>6, <1>7, <1>8 DEF Swept

\* A list that is being swept may lose any object, if sweepgc is not in it.
LEMMA SweptKeep ==
  ASSUME NEW s, NEW t, NEW l \in Seq(Objects), Once(l), SweptSomewhere(s, l),
         t.sweepgc = s.sweepgc, WhiteStays(s, t),
         NEW S, s.sweepgc \in S \cup {None, Header}
  PROVE  SweptSomewhere(t, Keep(l, S))
<1> DEFINE c == Keep(l, S)
<1>1. PICK p \in 0 .. Len(l) : Swept(s, l, p) BY DEF SweptSomewhere
<1>2. Len(l) \in Nat /\ DOMAIN l = 1 .. Len(l) OBVIOUS
<1>3. /\ c \in Seq(Objects) /\ ToSet(c) = ToSet(l) \cap S
      /\ \A i, j \in DOMAIN c : \A a, b \in DOMAIN l :
           c[i] = l[a] /\ c[j] = l[b] /\ i < j => a < b
  BY KeepIs
<1> HIDE DEF c
<1>4. Len(c) \in Nat /\ DOMAIN c = 1 .. Len(c) BY <1>3
<1>5. \A k \in DOMAIN c : \E a \in DOMAIN l : c[k] = l[a] BY <1>3 DEF ToSet
<1>6. ASSUME NEW a \in DOMAIN l, a <= p PROVE t.color[l[a]] = "white"
  <2>1. a \in 1 .. p BY <1>2, <1>6
  <2>2. s.color[l[a]] = "white" /\ l[a] \in Things BY <1>1, <2>1 DEF Swept, Things
  <2> QED BY <2>2 DEF WhiteStays
<1>7. CASE s.sweepgc = None /\ p = Len(l)
  <2>1. \A a \in DOMAIN l : a <= p BY <1>2, <1>7
  <2>2. \A k \in 1 .. Len(c) : t.color[c[k]] = "white" BY <1>4, <1>5, <1>6, <2>1
  <2>3. Swept(t, c, Len(c)) BY <1>7, <2>2 DEF Swept
  <2> QED BY <1>4, <2>3 DEF SweptSomewhere, c
<1>8. CASE s.sweepgc = Header /\ p = 0
  <2>1. Swept(t, c, 0) BY <1>8 DEF Swept
  <2> QED BY <1>4, <2>1 DEF SweptSomewhere, c
<1>9. CASE p \in DOMAIN l /\ s.sweepgc = l[p]
  <2>1. s.sweepgc \in Objects BY <1>9
  <2>2. s.sweepgc \in S BY <2>1, AddressAssumption
  <2>3. l[p] \in ToSet(l) BY <1>9 DEF ToSet
  <2>4. l[p] \in ToSet(c) BY <1>3, <1>9, <2>2, <2>3
  <2>5. PICK q \in DOMAIN c : c[q] = l[p] BY <2>4 DEF ToSet
  <2>6. ASSUME NEW k \in 1 .. q PROVE t.color[c[k]] = "white"
    <3>1. k \in DOMAIN c BY <1>4
    <3>2. PICK a \in DOMAIN l : c[k] = l[a] BY <1>5, <3>1
    <3>3. CASE k = q BY <1>2, <1>6, <1>9, <2>5, <3>3
    <3>4. CASE k # q
      <4>1. k < q BY <1>4, <3>4
      <4>2. a < p BY <1>3, <1>9, <2>5, <3>1, <3>2, <4>1
      <4> QED BY <1>2, <1>6, <3>2, <4>2
    <3> QED BY <3>3, <3>4
  <2>7. Swept(t, c, q) BY <1>9, <2>5, <2>6 DEF Swept
  <2>8. q \in 0 .. Len(c) BY <1>4
  <2> QED BY <2>7, <2>8 DEF SweptSomewhere, c
<1> QED BY <1>1, <1>7, <1>8, <1>9 DEF Swept

\* A white list stays white when nothing white is colored.
LEMMA AllWhiteStays ==
  ASSUME NEW s, NEW t, WhiteStays(s, t), s.lists \in Lists, NEW n \in ListNames,
         AllWhite(s, ToSet(s.lists[n])), NEW S, S \subseteq ToSet(s.lists[n])
  PROVE  AllWhite(t, S)
<1>1. s.lists[n] \in Seq(Objects) BY DEF Lists
<1>2. ToSet(s.lists[n]) \subseteq Things BY <1>1, SetOfSeq DEF Things
<1> QED BY <1>2 DEF AllWhite, WhiteStays

\* At the end of a list all of it is white.
LEMMA SweptToTheEnd ==
  ASSUME NEW s, NEW l \in Seq(Objects), SweptSomewhere(s, l), s.sweepgc = None
  PROVE  AllWhite(s, ToSet(l))
<1>1. PICK p \in 0 .. Len(l) : Swept(s, l, p) BY DEF SweptSomewhere
<1>2. p = Len(l)
  <2>1. \A k \in DOMAIN l : l[k] # None BY AddressAssumption
  <2>2. None # Header BY AddressAssumption
  <2> QED BY <1>1, <2>1, <2>2 DEF Swept
<1>3. \A k \in DOMAIN l : s.color[l[k]] = "white" BY <1>1, <1>2 DEF Swept
<1> QED BY <1>3 DEF AllWhite, ToSet

\* A step of the sweep keeps what is not dead and whitens what it passes, also when it
\* goes on to the next list.
LEMMA SweepStepOK ==
  ASSUME NEW s, IsSweeper(s), HeapOK(s), kind \in Kinds, NEW state \in SweepStates,
         SweepOK(s, state),
         NEW u, u = IF s.sweepgc = None THEN s ELSE SweepOne(s, state),
         NEW t, t = IF u.sweepgc = None /\ state # "swptobefnz" THEN [u EXCEPT !.sweepgc = Header]
                    ELSE u
  PROVE  /\ IsSweeper(t) /\ KeepsHeap(s, t, ListOf(state))
         /\ SweepOK(t, IF u.sweepgc = None THEN NextSweep[state] ELSE state)
<1> DEFINE n == ListOf(state)
<1>1. n \in ListNames BY DEF ListOf, SweepStates, ListNames
<1>2. SweptSomewhere(s, s.lists[n]) BY DEF SweepOK
<1>3. SweepsOn(s, u, n)
  <2>1. CASE s.sweepgc = None
    <3>1. u = s BY <2>1
    <3>2. KeepsHeap(s, s, n) BY DEF KeepsHeap
    <3> QED BY <1>2, <3>1, <3>2 DEF SweepsOn
  <2>2. CASE s.sweepgc # None
    <3>1. PICK p \in 0 .. Len(s.lists[n]) : Swept(s, s.lists[n], p) BY <1>2 DEF SweptSomewhere
    <3>2. u = SweepOne(s, state) BY <2>2
    <3> QED BY <2>2, <3>1, <3>2, SweepOneOK
  <2> QED BY <2>1, <2>2
<1>4. IsSweeper(u) /\ KeepsHeap(s, u, n) /\ WhiteStays(s, u) /\ SweptSomewhere(u, u.lists[n])
  BY <1>3 DEF SweepsOn, WhiteStays
<1>5. HeapOK(u) /\ u.lists \in Lists /\ s.lists \in Lists
  BY <1>4 DEF KeepsHeap, HeapOK, SweeperOK
<1>6. /\ Resumes(u, t)
      /\ t.sweepgc = IF u.sweepgc = None /\ state # "swptobefnz" THEN Header ELSE u.sweepgc
  BY <1>4 DEF IsSweeper, Resumes, Same
<1>7. HeapOK(t) /\ LiveIn(t) = LiveIn(u) /\ AllocatedIn(t) = AllocatedIn(u)
  <2>1. u.sweepgc \in Values \cup {Header} BY <1>5 DEF HeapOK, SweeperOK
  <2> QED BY <1>5, <1>6, <2>1, HeapResume
<1>8. IsSweeper(t) /\ KeepsHeap(s, t, n)
  BY <1>4, <1>6, <1>7 DEF KeepsHeap, Resumes, Same
<1>9. WhiteStays(s, t) /\ t.lists = u.lists /\ t.color = u.color
  BY <1>4, <1>6 DEF WhiteStays, Resumes
<1>10. \A m \in ListNames \ {n} : AllWhite(s, ToSet(s.lists[m])) => AllWhite(t, ToSet(t.lists[m]))
  <2> TAKE m \in ListNames \ {n}
  <2> HAVE AllWhite(s, ToSet(s.lists[m]))
  <2>1. t.lists[m] = s.lists[m] BY <1>8 DEF KeepsHeap
  <2>2. ToSet(t.lists[m]) \subseteq ToSet(s.lists[m]) BY <2>1
  <2> QED BY <1>5, <1>9, <2>2, AllWhiteStays
<1>11. \A m \in SweptLists(state) : m \in ListNames \ {n} /\ AllWhite(s, ToSet(s.lists[m]))
  <2>1. \A m \in SweptLists(state) : AllWhite(s, ToSet(s.lists[m]))
    BY DEF SweepOK, SweepStates
  <2>2. CASE state = "swpallgc" BY <2>2 DEF SweptLists
  <2>3. CASE state = "swpfinobj" BY <2>1, <2>3 DEF SweptLists, ListNames, ListOf
  <2>4. CASE state = "swptobefnz" BY <2>1, <2>4 DEF SweptLists, ListNames, ListOf
  <2> QED BY <2>2, <2>3, <2>4 DEF SweepStates
<1>12. \A m \in SweptLists(state) : AllWhite(t, ToSet(t.lists[m])) BY <1>10, <1>11
<1>13. CASE u.sweepgc # None
  <2>1. t = u BY <1>13
  <2> QED BY <1>4, <1>8, <1>12, <1>13, <2>1 DEF SweepOK, SweepStates
<1>14. CASE u.sweepgc = None
  <2>1. u.lists[n] \in Seq(Objects) BY <1>1, <1>5 DEF Lists
  <2>2. AllWhite(u, ToSet(u.lists[n])) BY <1>4, <1>14, <2>1, SweptToTheEnd
  <2>3. AllWhite(t, ToSet(t.lists[n])) BY <1>9, <2>2 DEF AllWhite
  <2>4. \A m \in ListNames : t.lists[m] \in Seq(Objects) BY <1>5, <1>9 DEF Lists
  <2>5. \A m \in ListNames : t.sweepgc = Header => SweptSomewhere(t, t.lists[m])
    <3> SUFFICES ASSUME NEW m \in ListNames, t.sweepgc = Header
                 PROVE  SweptSomewhere(t, t.lists[m])
      OBVIOUS
    <3>1. Swept(t, t.lists[m], 0) BY DEF Swept
    <3>2. 0 \in 0 .. Len(t.lists[m]) BY <2>4
    <3> QED BY <3>1, <3>2 DEF SweptSomewhere
  <2>6. CASE state = "swpallgc"
    <3>1. t.sweepgc = Header /\ NextSweep[state] = "swpfinobj" /\ n = "allgc"
      BY <1>6, <1>14, <2>6 DEF NextSweep, ListOf
    <3>2. ListOf("swpfinobj") = "finobj" /\ SweptLists("swpfinobj") = {"allgc"}
      BY DEF ListOf, SweptLists
    <3>3. SweptSomewhere(t, t.lists["finobj"]) BY <2>5, <3>1 DEF ListNames
    <3>4. SweepOK(t, "swpfinobj") BY <2>3, <3>1, <3>2, <3>3 DEF SweepOK, SweepStates
    <3> QED BY <1>8, <1>14, <3>1, <3>4
  <2>7. CASE state = "swpfinobj"
    <3>1. t.sweepgc = Header /\ NextSweep[state] = "swptobefnz" /\ n = "finobj"
      BY <1>6, <1>14, <2>7 DEF NextSweep, ListOf
    <3>2. /\ ListOf("swptobefnz") = "tobefnz" /\ SweptLists("swptobefnz") = {"allgc", "finobj"}
          /\ SweptLists(state) = {"allgc"}
      BY <2>7 DEF ListOf, SweptLists
    <3>3. SweptSomewhere(t, t.lists["tobefnz"]) BY <2>5, <3>1 DEF ListNames
    <3>4. \A m \in SweptLists("swptobefnz") : AllWhite(t, ToSet(t.lists[m]))
      BY <1>12, <2>3, <3>1, <3>2
    <3>5. SweepOK(t, "swptobefnz") BY <3>2, <3>3, <3>4 DEF SweepOK, SweepStates
    <3> QED BY <1>8, <1>14, <3>1, <3>5
  <2>8. CASE state = "swptobefnz"
    <3>1. t.sweepgc = None /\ NextSweep[state] = "swpend" /\ n = "tobefnz"
      BY <1>6, <1>14, <2>8 DEF NextSweep, ListOf
    <3>2. SweptLists("swpend") = ListNames /\ SweptLists(state) = {"allgc", "finobj"}
      BY <2>8 DEF SweptLists
    <3>3. \A m \in SweptLists("swpend") : AllWhite(t, ToSet(t.lists[m]))
      BY <1>12, <2>3, <3>1, <3>2 DEF ListNames
    <3>4. SweepOK(t, "swpend") BY <3>1, <3>3 DEF SweepOK, SweepStates
    <3> QED BY <1>8, <1>14, <3>1, <3>4
  <2> QED BY <2>6, <2>7, <2>8 DEF SweepStates
<1> QED BY <1>13, <1>14

Marking == {"propagate", "atomic"}
GCStates == {"pause", "swpend", "callfin"} \cup Marking \cup SweepStates

\* A step that keeps the places of sweepgc and puts only white objects into a list
\* keeps the invariant of the sweep.
LEMMA SweepStays ==
  ASSUME NEW s, NEW t, NEW state \in GCStates, s.lists \in Lists, t.lists \in Lists,
         t.sweepgc = s.sweepgc, WhiteStays(s, t), SweepOK(s, state),
         \A n \in ListNames : state \in SweepStates /\ SweptSomewhere(s, s.lists[n])
                                => SweptSomewhere(t, t.lists[n]),
         \A n \in ListNames : state \notin Marking =>
            \A o \in ToSet(t.lists[n]) : o \in ToSet(s.lists[n]) \/ t.color[o] = "white"
  PROVE  SweepOK(t, state)
<1>1. state \in SweepStates => SweptSomewhere(t, t.lists[ListOf(state)])
  <2>1. state \in SweepStates => ListOf(state) \in ListNames BY DEF ListOf, SweepStates, ListNames
  <2> QED BY <2>1 DEF SweepOK
<1>2. state \notin SweepStates => t.sweepgc = None BY DEF SweepOK
<1>3. ASSUME state \notin Marking, NEW n \in SweptLists(state) PROVE AllWhite(t, ToSet(t.lists[n]))
  <2>1. n \in ListNames
    <3>1. state \in {"swpallgc", "swpfinobj", "swptobefnz", "swpend", "callfin", "pause"}
      BY <1>3 DEF GCStates, SweepStates, Marking
    <3> QED BY <1>3, <3>1 DEF SweptLists, ListNames
  <2>2. AllWhite(s, ToSet(s.lists[n])) BY <1>3 DEF SweepOK, Marking
  <2>3. s.lists[n] \in Seq(Objects) BY <2>1 DEF Lists
  <2>4. ToSet(s.lists[n]) \subseteq Things BY <2>3, SetOfSeq DEF Things
  <2> QED BY <1>3, <2>1, <2>2, <2>4 DEF AllWhite, WhiteStays
<1>4. state \in {"callfin", "pause"} => t.color[Main] = "white"
  BY DEF SweepOK, WhiteStays, Things
<1> QED BY <1>1, <1>2, <1>3, <1>4 DEF SweepOK, Marking

\* Colors change, and nothing white turns into something else.
LEMMA SweepSame ==
  ASSUME NEW s, NEW t, NEW state \in GCStates, s.lists \in Lists, t.lists = s.lists,
         t.sweepgc = s.sweepgc, WhiteStays(s, t), SweepOK(s, state)
  PROVE  SweepOK(t, state)
<1>1. \A n \in ListNames : s.lists[n] \in Seq(Objects) BY DEF Lists
<1>2. \A n \in ListNames : SweptSomewhere(s, s.lists[n]) => SweptSomewhere(t, t.lists[n])
  BY <1>1, SweptSame
<1> QED BY <1>2, SweepStays

\* An object is put at the head of allgc.
LEMMA SweepNew ==
  ASSUME NEW s, NEW t, NEW state \in GCStates, s.lists \in Lists, t.lists \in Lists,
         NEW o \in Objects, t.lists.allgc = <<o>> \o s.lists.allgc,
         t.lists.finobj = s.lists.finobj, t.lists.tobefnz = s.lists.tobefnz,
         t.sweepgc = s.sweepgc, WhiteStays(s, t), t.color[o] = "white", SweepOK(s, state)
  PROVE  SweepOK(t, state)
<1>1. \A n \in ListNames : s.lists[n] \in Seq(Objects) BY DEF Lists
<1>2. /\ t.lists["allgc"] = <<o>> \o s.lists["allgc"]
      /\ t.lists["finobj"] = s.lists["finobj"] /\ t.lists["tobefnz"] = s.lists["tobefnz"]
  OBVIOUS
<1>3. "allgc" \in ListNames /\ \A n \in ListNames : n \in {"allgc", "finobj", "tobefnz"}
  BY DEF ListNames
<1>4. \A n \in ListNames : SweptSomewhere(s, s.lists[n]) => SweptSomewhere(t, t.lists[n])
  <2>1. SweptSomewhere(s, s.lists["allgc"]) => SweptSomewhere(t, <<o>> \o s.lists["allgc"])
    BY <1>1, <1>3, SweptCons
  <2>2. \A n \in ListNames : SweptSomewhere(s, s.lists[n]) => SweptSomewhere(t, s.lists[n])
    BY <1>1, SweptSame
  <2> QED BY <1>2, <1>3, <2>1, <2>2
<1>5. ToSet(t.lists["allgc"]) = {o} \cup ToSet(s.lists["allgc"]) BY <1>1, <1>2, <1>3, SetOfCons
<1>6. \A n \in ListNames : \A x \in ToSet(t.lists[n]) :
        x \in ToSet(s.lists[n]) \/ t.color[x] = "white"
  BY <1>2, <1>3, <1>5
<1> QED BY <1>4, <1>6, SweepStays

\* The first object of tobefnz is put back into allgc.
LEMMA SweepCall ==
  ASSUME NEW s, NEW t, NEW state \in GCStates, s.lists \in Lists, t.lists \in Lists,
         s.lists.tobefnz # << >>, NEW o, o = Head(s.lists.tobefnz), s.sweepgc # o,
         t.lists.allgc = <<o>> \o s.lists.allgc, t.lists.finobj = s.lists.finobj,
         t.lists.tobefnz = Tail(s.lists.tobefnz), t.sweepgc = s.sweepgc,
         WhiteStays(s, t), state \notin Marking => t.color[o] = "white", SweepOK(s, state)
  PROVE  SweepOK(t, state)
<1>1. \A n \in ListNames : s.lists[n] \in Seq(Objects) BY DEF Lists
<1>2. /\ t.lists["allgc"] = <<o>> \o s.lists["allgc"]
      /\ t.lists["finobj"] = s.lists["finobj"] /\ t.lists["tobefnz"] = Tail(s.lists["tobefnz"])
      /\ s.lists["tobefnz"] # << >> /\ o = Head(s.lists["tobefnz"])
  OBVIOUS
<1>3. /\ "allgc" \in ListNames /\ "tobefnz" \in ListNames
      /\ \A n \in ListNames : n \in {"allgc", "finobj", "tobefnz"}
  BY DEF ListNames
<1>4. o \in Objects /\ ToSet(t.lists["tobefnz"]) \subseteq ToSet(s.lists["tobefnz"])
  BY <1>1, <1>2, <1>3, SetOfTail
<1>5. state \in SweepStates => state \notin Marking BY DEF SweepStates, Marking
<1>6. \A n \in ListNames : state \in SweepStates /\ SweptSomewhere(s, s.lists[n])
        => SweptSomewhere(t, t.lists[n])
  <2>1. state \in SweepStates /\ SweptSomewhere(s, s.lists["allgc"])
          => SweptSomewhere(t, <<o>> \o s.lists["allgc"])
    BY <1>1, <1>3, <1>4, <1>5, SweptCons
  <2>2. \A n \in ListNames : SweptSomewhere(s, s.lists[n]) => SweptSomewhere(t, s.lists[n])
    BY <1>1, SweptSame
  <2>3. SweptSomewhere(s, s.lists["tobefnz"]) => SweptSomewhere(t, Tail(s.lists["tobefnz"]))
    BY <1>1, <1>2, <1>3, SweptTail
  <2> QED BY <1>2, <1>3, <2>1, <2>2, <2>3
<1>7. ToSet(t.lists["allgc"]) = {o} \cup ToSet(s.lists["allgc"])
  BY <1>1, <1>2, <1>3, <1>4, SetOfCons
<1>8. \A n \in ListNames : state \notin Marking =>
        \A x \in ToSet(t.lists[n]) : x \in ToSet(s.lists[n]) \/ t.color[x] = "white"
  BY <1>2, <1>3, <1>4, <1>7
<1> QED BY <1>6, <1>8, SweepStays

\* An object moves from allgc to the head of finobj.
LEMMA SweepMove ==
  ASSUME NEW s, NEW t, NEW state \in GCStates, s.lists \in Lists, t.lists \in Lists,
         Once(s.lists.allgc), NEW o \in Objects, s.sweepgc # o,
         s.sweepgc \in Values \cup {Header},
         t.lists.allgc = Keep(s.lists.allgc, Objects \ {o}),
         t.lists.finobj = <<o>> \o s.lists.finobj, t.lists.tobefnz = s.lists.tobefnz,
         t.sweepgc = s.sweepgc, WhiteStays(s, t),
         state \notin Marking => t.color[o] = "white", SweepOK(s, state)
  PROVE  SweepOK(t, state)
<1>1. \A n \in ListNames : s.lists[n] \in Seq(Objects) BY DEF Lists
<1>2. /\ t.lists["allgc"] = Keep(s.lists["allgc"], Objects \ {o})
      /\ t.lists["finobj"] = <<o>> \o s.lists["finobj"] /\ t.lists["tobefnz"] = s.lists["tobefnz"]
      /\ Once(s.lists["allgc"])
  OBVIOUS
<1>3. /\ "allgc" \in ListNames /\ "finobj" \in ListNames
      /\ \A n \in ListNames : n \in {"allgc", "finobj", "tobefnz"}
  BY DEF ListNames
<1>4. ToSet(t.lists["allgc"]) \subseteq ToSet(s.lists["allgc"])
  BY <1>1, <1>2, <1>3, KeepIs
<1>5. state \in SweepStates => state \notin Marking BY DEF SweepStates, Marking
<1>6. \A n \in ListNames : state \in SweepStates /\ SweptSomewhere(s, s.lists[n])
        => SweptSomewhere(t, t.lists[n])
  <2>1. state \in SweepStates /\ SweptSomewhere(s, s.lists["finobj"])
          => SweptSomewhere(t, <<o>> \o s.lists["finobj"])
    BY <1>1, <1>3, <1>5, SweptCons
  <2>2. \A n \in ListNames : SweptSomewhere(s, s.lists[n]) => SweptSomewhere(t, s.lists[n])
    BY <1>1, SweptSame
  <2>3. SweptSomewhere(s, s.lists["allgc"])
          => SweptSomewhere(t, Keep(s.lists["allgc"], Objects \ {o}))
    <3>1. s.sweepgc \in (Objects \ {o}) \cup {None, Header} BY DEF Values
    <3> QED BY <1>1, <1>2, <1>3, <3>1, SweptKeep
  <2> QED BY <1>2, <1>3, <2>1, <2>2, <2>3
<1>7. ToSet(t.lists["finobj"]) = {o} \cup ToSet(s.lists["finobj"])
  BY <1>1, <1>2, <1>3, SetOfCons
<1>8. \A n \in ListNames : state \notin Marking =>
        \A x \in ToSet(t.lists[n]) : x \in ToSet(s.lists[n]) \/ t.color[x] = "white"
  BY <1>2, <1>3, <1>4, <1>7
<1> QED BY <1>6, <1>8, SweepStays

\* No object is twice in the lists, said of each pair of them.
LEMMA OnePlaceIs ==
  ASSUME NEW m, Once(m.allgc), Once(m.finobj), Once(m.tobefnz),
         ToSet(m.allgc) \cap ToSet(m.finobj) = {}, ToSet(m.allgc) \cap ToSet(m.tobefnz) = {},
         ToSet(m.finobj) \cap ToSet(m.tobefnz) = {}
  PROVE  OnePlace(m)
<1>1. \A n \in ListNames : n \in {"allgc", "finobj", "tobefnz"} BY DEF ListNames
<1>2. Once(m["allgc"]) /\ Once(m["finobj"]) /\ Once(m["tobefnz"]) OBVIOUS
<1>3. /\ ToSet(m["allgc"]) \cap ToSet(m["finobj"]) = {}
      /\ ToSet(m["allgc"]) \cap ToSet(m["tobefnz"]) = {}
      /\ ToSet(m["finobj"]) \cap ToSet(m["tobefnz"]) = {}
  OBVIOUS
<1>4. \A n \in ListNames : Once(m[n]) BY <1>1, <1>2
<1>5. ASSUME NEW x \in ListNames, NEW y \in ListNames, x # y
      PROVE  ToSet(m[x]) \cap ToSet(m[y]) = {}
  BY <1>1, <1>3, <1>5
<1> QED BY <1>4, <1>5 DEF OnePlace

\* What OnePlace says of the three lists.
LEMMA ListFacts ==
  ASSUME NEW l, l \in Lists, OnePlace(l)
  PROVE  /\ l.allgc \in Seq(Objects) /\ l.finobj \in Seq(Objects) /\ l.tobefnz \in Seq(Objects)
         /\ Once(l.allgc) /\ Once(l.finobj) /\ Once(l.tobefnz)
         /\ ToSet(l.allgc) \cap ToSet(l.finobj) = {} /\ ToSet(l.allgc) \cap ToSet(l.tobefnz) = {}
         /\ ToSet(l.finobj) \cap ToSet(l.tobefnz) = {}
<1>1. "allgc" \in ListNames /\ "finobj" \in ListNames /\ "tobefnz" \in ListNames BY DEF ListNames
<1>2. \A n \in ListNames : l[n] \in Seq(Objects) /\ Once(l[n]) BY DEF Lists, OnePlace
<1>3. \A m, n \in ListNames : m # n => ToSet(l[m]) \cap ToSet(l[n]) = {} BY DEF OnePlace
<1> QED BY <1>1, <1>2, <1>3

\* m has the lists a, f and b.
IsThree(m, a, f, b) ==
  m = [n \in ListNames |-> IF n = "allgc" THEN a ELSE IF n = "finobj" THEN f ELSE b]

\* The record of three lists.
LEMMA ListsSet ==
  ASSUME NEW a \in Seq(Objects), NEW f \in Seq(Objects), NEW b \in Seq(Objects),
         NEW m, IsThree(m, a, f, b)
  PROVE  m \in Lists /\ m.allgc = a /\ m.finobj = f /\ m.tobefnz = b
<1> USE DEF IsThree
<1>1. m \in Lists BY DEF Lists
<1>2. "allgc" \in ListNames /\ "finobj" \in ListNames /\ "tobefnz" \in ListNames BY DEF ListNames
<1>3. m["allgc"] = a /\ m["finobj"] = f /\ m["tobefnz"] = b BY <1>2
<1> QED BY <1>1, <1>3

\* The allocated objects, list by list.
LEMMA AllocatedIs ==
  ASSUME NEW s, s.lists \in Lists
  PROVE  AllocatedIn(s) = ToSet(s.lists.allgc) \cup ToSet(s.lists.finobj) \cup ToSet(s.lists.tobefnz)
<1>1. AllocatedIn(s) = ToSet(s.lists["allgc"]) \cup ToSet(s.lists["finobj"]) \cup ToSet(s.lists["tobefnz"])
  BY AllocatedMember DEF ListNames
<1> QED BY <1>1

\* The object o moves from allgc to finobj.
Moves(l, m, o) == m = [l EXCEPT !.allgc = Keep(@, Objects \ {o}), !.finobj = <<o>> \o @]

\* luaC_checkfinalizer keeps every object in one list.
LEMMA ListsMove ==
  ASSUME NEW l \in Lists, OnePlace(l), NEW o \in ToSet(l.allgc),
         NEW m, Moves(l, m, o)
  PROVE  /\ m \in Lists /\ OnePlace(m)
         /\ m.allgc = Keep(l.allgc, Objects \ {o}) /\ m.finobj = <<o>> \o l.finobj
         /\ m.tobefnz = l.tobefnz
         /\ ToSet(m.allgc) = ToSet(l.allgc) \ {o} /\ ToSet(m.finobj) = {o} \cup ToSet(l.finobj)
<1> DEFINE a == Keep(l.allgc, Objects \ {o})
           f == <<o>> \o l.finobj
<1>1. /\ l.allgc \in Seq(Objects) /\ l.finobj \in Seq(Objects) /\ l.tobefnz \in Seq(Objects)
      /\ Once(l.allgc) /\ Once(l.finobj) /\ Once(l.tobefnz)
      /\ ToSet(l.allgc) \cap ToSet(l.finobj) = {} /\ ToSet(l.allgc) \cap ToSet(l.tobefnz) = {}
      /\ ToSet(l.finobj) \cap ToSet(l.tobefnz) = {}
  BY ListFacts
<1>2. ToSet(l.allgc) \subseteq Objects BY <1>1, SetOfSeq
<1>3. a \in Seq(Objects) /\ Once(a) /\ ToSet(a) = ToSet(l.allgc) \ {o}
  <2>1. ToSet(a) = ToSet(l.allgc) \cap (Objects \ {o}) /\ a \in Seq(Objects) /\ Once(a)
    BY <1>1, KeepIs
  <2> QED BY <1>2, <2>1
<1>4. f \in Seq(Objects) /\ Once(f) /\ ToSet(f) = {o} \cup ToSet(l.finobj)
  <2>1. o \in Objects /\ o \notin ToSet(l.finobj) BY <1>1, <1>2
  <2> QED BY <1>1, <2>1, SetOfCons, OnceCons
<1> HIDE DEF a, f
<1>5. m = [l EXCEPT !["allgc"] = a, !["finobj"] = f] BY DEF Moves, a, f
<1>6. IsThree(m, a, f, l.tobefnz) BY <1>5 DEF IsThree, Lists, ListNames
<1>7. m \in Lists /\ m.allgc = a /\ m.finobj = f /\ m.tobefnz = l.tobefnz
  <2>1. a \in Seq(Objects) /\ f \in Seq(Objects) /\ l.tobefnz \in Seq(Objects)
    BY <1>1, <1>3, <1>4
  <2> QED BY ONLY <2>1, <1>6, ListsSet
<1>8. OnePlace(m)
  <2>1. /\ ToSet(m.allgc) \cap ToSet(m.finobj) = {} /\ ToSet(m.allgc) \cap ToSet(m.tobefnz) = {}
        /\ ToSet(m.finobj) \cap ToSet(m.tobefnz) = {}
    BY <1>1, <1>3, <1>4, <1>7
  <2> QED BY <1>1, <1>3, <1>4, <1>7, <2>1, OnePlaceIs
<1> QED BY <1>3, <1>4, <1>7, <1>8 DEF a, f

\* The first object o of tobefnz moves to allgc.
Calls(l, m, o) == m = [l EXCEPT !.tobefnz = Tail(@), !.allgc = <<o>> \o @]

\* udata2finalize keeps every object in one list.
LEMMA ListsCall ==
  ASSUME NEW l \in Lists, OnePlace(l), l.tobefnz # << >>, NEW o, o = Head(l.tobefnz),
         NEW m, Calls(l, m, o)
  PROVE  /\ m \in Lists /\ OnePlace(m) /\ o \in ToSet(l.tobefnz)
         /\ m.allgc = <<o>> \o l.allgc /\ m.finobj = l.finobj /\ m.tobefnz = Tail(l.tobefnz)
         /\ ToSet(m.allgc) = {o} \cup ToSet(l.allgc) /\ ToSet(m.tobefnz) = ToSet(l.tobefnz) \ {o}
<1> DEFINE a == <<o>> \o l.allgc
           b == Tail(l.tobefnz)
<1>1. /\ l.allgc \in Seq(Objects) /\ l.finobj \in Seq(Objects) /\ l.tobefnz \in Seq(Objects)
      /\ Once(l.allgc) /\ Once(l.finobj) /\ Once(l.tobefnz)
      /\ ToSet(l.allgc) \cap ToSet(l.finobj) = {} /\ ToSet(l.allgc) \cap ToSet(l.tobefnz) = {}
      /\ ToSet(l.finobj) \cap ToSet(l.tobefnz) = {}
  BY ListFacts
<1>2. /\ b \in Seq(Objects) /\ Once(b) /\ ToSet(l.tobefnz) = {o} \cup ToSet(b) /\ o \notin ToSet(b)
      /\ o \in Objects
  BY <1>1, SetOfTail, OnceTail
<1>3. a \in Seq(Objects) /\ Once(a) /\ ToSet(a) = {o} \cup ToSet(l.allgc)
  <2>1. o \notin ToSet(l.allgc) BY <1>1, <1>2
  <2> QED BY <1>1, <1>2, <2>1, SetOfCons, OnceCons
<1> HIDE DEF a, b
<1>5. m = [l EXCEPT !["tobefnz"] = b, !["allgc"] = a] BY DEF Calls, a, b
<1>6. IsThree(m, a, l.finobj, b) BY <1>5 DEF IsThree, Lists, ListNames
<1>7. m \in Lists /\ m.allgc = a /\ m.finobj = l.finobj /\ m.tobefnz = b
  <2>1. a \in Seq(Objects) /\ l.finobj \in Seq(Objects) /\ b \in Seq(Objects)
    BY <1>1, <1>2, <1>3
  <2> QED BY ONLY <2>1, <1>6, ListsSet
<1>8. OnePlace(m)
  <2>1. /\ ToSet(m.allgc) \cap ToSet(m.finobj) = {} /\ ToSet(m.allgc) \cap ToSet(m.tobefnz) = {}
        /\ ToSet(m.finobj) \cap ToSet(m.tobefnz) = {}
    BY <1>1, <1>2, <1>3, <1>7
  <2> QED BY <1>1, <1>2, <1>3, <1>7, <2>1, OnePlaceIs
<1> QED BY <1>2, <1>3, <1>7, <1>8 DEF a, b

\* One list behind another.
LEMMA SetOfConcat ==
  ASSUME NEW T, NEW p \in Seq(T), NEW q \in Seq(T), Once(p), Once(q), ToSet(p) \cap ToSet(q) = {}
  PROVE  p \o q \in Seq(T) /\ Once(p \o q) /\ ToSet(p \o q) = ToSet(p) \cup ToSet(q)
<1> DEFINE c == p \o q
<1>1. /\ c \in Seq(T) /\ Len(c) = Len(p) + Len(q)
      /\ \A i \in 1 .. Len(p) + Len(q) : c[i] = IF i <= Len(p) THEN p[i] ELSE q[i - Len(p)]
  BY ConcatProperties
<1>2. /\ Len(p) \in Nat /\ DOMAIN p = 1 .. Len(p) /\ Len(q) \in Nat /\ DOMAIN q = 1 .. Len(q)
      /\ DOMAIN c = 1 .. Len(p) + Len(q)
  BY <1>1
<1> HIDE DEF c
<1>3. \A i \in DOMAIN p : i \in DOMAIN c /\ c[i] = p[i] BY <1>1, <1>2
<1>4. \A i \in DOMAIN q : i + Len(p) \in DOMAIN c /\ c[i + Len(p)] = q[i] BY <1>1, <1>2
<1>5. \A i \in DOMAIN c : \/ i \in DOMAIN p /\ c[i] = p[i]
                          \/ i - Len(p) \in DOMAIN q /\ c[i] = q[i - Len(p)]
  BY <1>1, <1>2
<1>6. ToSet(c) = ToSet(p) \cup ToSet(q)
  <2>1. ToSet(c) \subseteq ToSet(p) \cup ToSet(q) BY <1>5 DEF ToSet
  <2>2. ToSet(p) \subseteq ToSet(c) BY <1>3 DEF ToSet
  <2>3. ToSet(q) \subseteq ToSet(c)
    <3> SUFFICES ASSUME NEW i \in DOMAIN q PROVE q[i] \in ToSet(c) BY DEF ToSet
    <3> QED BY <1>4 DEF ToSet
  <2> QED BY <2>1, <2>2, <2>3
<1>7. ASSUME NEW i \in DOMAIN c, NEW j \in DOMAIN c, c[i] = c[j] PROVE i = j
  <2>1. ASSUME NEW x \in DOMAIN p, NEW y \in DOMAIN q PROVE p[x] # q[y]
    <3>1. p[x] \in ToSet(p) /\ q[y] \in ToSet(q) BY DEF ToSet
    <3> QED BY <3>1
  <2>2. CASE i \in DOMAIN p /\ c[i] = p[i]
    <3>1. j \in DOMAIN p /\ c[j] = p[j] BY <1>5, <1>7, <2>1, <2>2
    <3> QED BY <1>7, <2>2, <3>1 DEF Once
  <2>3. CASE i - Len(p) \in DOMAIN q /\ c[i] = q[i - Len(p)]
    <3>1. j - Len(p) \in DOMAIN q /\ c[j] = q[j - Len(p)] BY <1>5, <1>7, <2>1, <2>3
    <3>2. i - Len(p) = j - Len(p) BY <1>7, <2>3, <3>1 DEF Once
    <3> QED BY <1>2, <3>2
  <2> QED BY <1>5, <2>2, <2>3
<1>8. Once(c) BY <1>7 DEF Once
<1> QED BY <1>1, <1>6, <1>8 DEF c

-----------------------------------------------------------------------------
(* Marking *)

Unmarked(s, o) == s.color[o] \in {"white", "dead"}

\* What a black object refers to is marked, or in S, and an open upvalue is touched.
BlackOK(s, o, S) ==
  /\ \A v \in MarksEarly(s.entry, o, {}) \ {None} : ~ Unmarked(s, v) \/ v \in S
  /\ IsOpenIn(s.entry, o) => s.entry[o].key \in s.touched

\* The tricolor invariant while the objects of S still have to be marked.
TriCore(s, g, ga, aw, S) ==
  /\ g \cup ga \cup aw \subseteq Things
  /\ g \cap ga = {} /\ g \cap aw = {} /\ ga \cap aw = {}
  /\ \A o \in Things : s.color[o] = "gray" <=> o \in g \cup ga \cup aw
  /\ \A o \in aw : o # Main /\ kind[o] = "allweak"
  /\ \A o \in Things : s.color[o] # "dead"
  /\ \A o \in Objects : s.color[o] = "black" => BlackOK(s, o, S)

\* It holds between the steps; the main thread stays gray.
TriOK(s, g, ga, aw) ==
  /\ TriCore(s, g, ga, aw, {})
  /\ s.color[Main] = "gray"
  /\ \A o \in ToSet(s.lists.tobefnz) : ~ Unmarked(s, o)

\* A traversal before the atomic phase marks values.
LEMMA MarksEarlyType ==
  ASSUME NEW e, e \in [Objects -> Entries], kind \in Kinds, NEW o \in Objects, NEW X
  PROVE  MarksEarly(e, o, X) \subseteq Values
<1>1. e[o].key \in Values /\ e[o].val \in Values BY DEF Entries
<1>2. UpvalValue(e, o) \in Values BY UpvalValueType
<1>3. o # Main BY NoneIsNoThing
<1>4. kind[o] \in {"table", "weakv", "ephemeron", "allweak", "udata", "lclosure", "thread"}
  BY KindOf
<1> QED BY <1>1, <1>2, <1>3, <1>4 DEF MarksEarly, Marks

\* Paint marks S, and what the userdata it marks lead to.
Marked(s, t, S) ==
  LET W == Chain(s.color, S)
  IN t.color = Paint(s.color, W) /\ t.entry = s.entry /\ t.touched = s.touched

\* After the marking of S the tricolor invariant owes nothing: what S leads to is gray,
\* and so in a gray list, or a black one.
LEMMA MarkStep ==
  ASSUME kind \in Kinds, entry \in [Objects -> Entries], NEW s, NEW t, NEW g, NEW ga, NEW aw,
         NEW S, S \subseteq Things \cup {None}, TriCore(s, g, ga, aw, S),
         s.color \in [Things -> Colors], s.entry \in [Objects -> Entries], Marked(s, t, S),
         \A o \in Objects : kind[o] = "udata" /\ Unmarked(s, o) => s.entry[o].val = entry[o].val
  PROVE  /\ TriCore(t, g \cup Listed(Chain(s.color, S)), ga, aw, {})
         /\ t.color \in [Things -> Colors]
         /\ \A o \in Things : ~ Unmarked(s, o) => t.color[o] = s.color[o]
         /\ \A o \in S \ {None} : ~ Unmarked(t, o)
         /\ \A o \in Things : StaysGray(o) /\ s.color[o] # "black" => t.color[o] # "black"
<1> DEFINE W == Chain(s.color, S)
           L == Listed(W)
<1>1. /\ W \subseteq WhiteIn(s.color) /\ S \cap WhiteIn(s.color) \subseteq W
      /\ \A o \in W : IsUdata(o) => entry[o].val \notin WhiteIn(s.color) \ W
  BY ChainIs
<1>2. \A o \in Things : o \in WhiteIn(s.color) <=> Unmarked(s, o) BY DEF WhiteIn, Unmarked
<1>3. W \subseteq Things BY <1>1 DEF WhiteIn
<1>4. t.color = [o \in Things |-> IF o \notin W THEN s.color[o]
                                  ELSE IF IsUdata(o) THEN "black" ELSE "gray"]
  BY DEF Marked, Paint
<1>5. t.entry = s.entry /\ t.touched = s.touched BY DEF Marked
<1> HIDE DEF W
<1>6. t.color \in [Things -> Colors] BY <1>4 DEF Colors
<1>7. \A o \in Things : ~ Unmarked(s, o) => o \notin W /\ t.color[o] = s.color[o]
  BY <1>1, <1>2, <1>4
<1>8. \A o \in W : ~ Unmarked(t, o) BY <1>3, <1>4 DEF Unmarked
<1>9. \A o \in Things : ~ Unmarked(s, o) => ~ Unmarked(t, o) BY <1>7 DEF Unmarked
<1>10. \A o \in S \ {None} : ~ Unmarked(t, o) BY <1>1, <1>2, <1>8, <1>9
<1>11. \A o \in Things : StaysGray(o) /\ s.color[o] # "black" => t.color[o] # "black"
  <2>1. \A o \in Things : StaysGray(o) => ~ IsUdata(o) BY DEF StaysGray, IsUdata
  <2> QED BY <1>4, <2>1
<1>12. \A o \in Things : t.color[o] = "gray" <=> o \in (g \cup L) \cup ga \cup aw
  <2>1. \A o \in W : t.color[o] = "gray" <=> o \in L BY <1>3, <1>4 DEF Listed
  <2>2. \A o \in Things \ W : t.color[o] = s.color[o] /\ o \notin L BY <1>4 DEF Listed
  <2>3. \A o \in W : s.color[o] # "gray" BY <1>1, <1>2, <1>3 DEF Unmarked
  <2>4. \A o \in Things : s.color[o] = "gray" <=> o \in g \cup ga \cup aw BY DEF TriCore
  <2> QED BY <1>3, <2>1, <2>2, <2>3, <2>4
<1>13. L \subseteq W BY DEF Listed
<1>14. W \cap (g \cup ga \cup aw) = {} BY <1>1, <1>2, <1>3 DEF TriCore, Unmarked
<1>15. \A o \in Things : t.color[o] # "dead" BY <1>4 DEF TriCore
<1>16. ASSUME NEW o \in Objects, t.color[o] = "black" PROVE BlackOK(t, o, {})
  <2>0. o \in Things /\ Values \subseteq Things \cup {None} BY DEF Things, Values
  <2>1. CASE o \in W
    <3>1. IsUdata(o) BY <1>4, <1>16, <2>0, <2>1
    <3>2. kind[o] = "udata" /\ Unmarked(s, o) BY <1>1, <1>2, <2>0, <2>1, <3>1 DEF IsUdata
    <3>3. o # Main BY NoneIsNoThing
    <3>4. MarksEarly(t.entry, o, {}) = {s.entry[o].val} /\ ~ IsOpenIn(t.entry, o)
      BY <1>5, <3>2, <3>3 DEF MarksEarly, Marks, IsOpenIn
    <3>5. s.entry[o].val = entry[o].val BY <3>2
    <3>6. s.entry[o].val \in Values BY DEF Entries
    <3>7. s.entry[o].val # None => ~ Unmarked(t, s.entry[o].val)
      BY <1>1, <1>2, <1>8, <1>9, <2>0, <2>1, <3>1, <3>5, <3>6
    <3> QED BY <3>4, <3>7 DEF BlackOK
  <2>2. CASE o \notin W
    <3>1. s.color[o] = "black" BY <1>4, <1>16, <2>0, <2>2
    <3>2. BlackOK(s, o, S) BY <3>1 DEF TriCore
    <3>3. MarksEarly(s.entry, o, {}) \subseteq Values BY MarksEarlyType
    <3>4. \A v \in MarksEarly(s.entry, o, {}) \ {None} : ~ Unmarked(t, v)
      BY <1>9, <1>10, <2>0, <3>2, <3>3 DEF BlackOK
    <3> QED BY <1>5, <3>2, <3>4 DEF BlackOK
  <2> QED BY <2>1, <2>2
<1>17. TriCore(t, g \cup L, ga, aw, {})
  <2> HIDE DEF L
  <2>1. /\ (g \cup L) \cup ga \cup aw \subseteq Things
        /\ (g \cup L) \cap ga = {} /\ (g \cup L) \cap aw = {} /\ ga \cap aw = {}
        /\ \A o \in aw : o # Main /\ kind[o] = "allweak"
    BY <1>3, <1>13, <1>14 DEF TriCore
  <2> QED BY <1>12, <1>15, <1>16, <2>1 DEF TriCore
<1> QED BY <1>6, <1>7, <1>10, <1>11, <1>17 DEF W

-----------------------------------------------------------------------------
(* The atomic phase *)

\* What Atomic computes, by the names it has there.
M0       == {o \in Things : ~ White(o)}
Early    == Traverse(gray, M0, entry, FALSE)
M1       == M0 \cup Early
Touched1 == touched \cup {entry[f].key : f \in {x \in Early : IsOpen(x)}}
Leavers  == Leaving(M1)
Remark   == {entry[t].val : t \in Leavers \cap openupval \cap Touched1} \ {None}
Again    == {o \in Early : o # Main /\ kind[o] = "ephemeron"}
LateFrom == grayagain \cup Again \cup (Remark \ M1)
Late     == Traverse(LateFrom, M1, entry, TRUE)
M2       == M1 \cup Late
WeakIn(S, K) == {o \in S : o # Main /\ kind[o] \in K}
Before   == Early \cup Late \cup allweak
Entry2   == clearvalues(entry, WeakIn(Before, {"weakv", "allweak"}), M2)
ToBeFnz  == lists.tobefnz \o Keep(lists.finobj, Objects \ M2)
RisenFrom == (ToSet(ToBeFnz) \ M2) \cup WeakIn(Before, {"ephemeron"})
Risen    == Traverse(RisenFrom, M2, Entry2, TRUE)
M3       == M2 \cup Risen
Entry3   == clearvalues(clearkeys(Entry2, WeakIn(Before \cup Risen, {"ephemeron", "allweak"}), M3),
                        WeakIn(Risen \ M2, {"weakv", "allweak"}), M3)

\* Atomic, field by field.
LEMMA AtomicIs ==
  ASSUME NEW t, t = Atomic
  PROVE  /\ IsSweeper(t) /\ t.sweepgc = sweepgc /\ t.openupval = openupval
         /\ t.lists = [lists EXCEPT !.tobefnz = ToBeFnz, !.finobj = Keep(@, M2)]
         /\ t.entry = Entry3
         /\ t.color = [o \in Things |-> IF o \in Objects \ Allocated THEN "white"
                         ELSE IF o \notin M3 THEN "dead"
                         ELSE IF StaysGray(o) THEN "gray" ELSE "black"]
         /\ t.touched = Touched1 \ Leavers
         /\ t.twups = (twups \ Leavers)
                         \cup {x \in (Late \cup Risen) \cap openupval : kind[x] = "thread"}
BY DEF Atomic, M0, Early, M1, Touched1, Leavers, Remark, Again, LateFrom, Late, M2, WeakIn, Before,
       Entry2, ToBeFnz, RisenFrom, Risen, M3, Entry3, IsSweeper, Sweeper

\* What the atomic phase starts from.
AtomicStart ==
  /\ kind \in Kinds /\ HeapOK(Sweeper) /\ RootsOK(Sweeper, stack, finalizable)
  /\ TriOK(Sweeper, gray, grayagain, allweak)

\* The state the atomic phase starts in, part by part.
LEMMA StartIs ==
  ASSUME AtomicStart
  PROVE  /\ kind \in Kinds /\ lists \in Lists /\ OnePlace(lists)
         /\ color \in [Things -> Colors] /\ entry \in [Objects -> Entries]
         /\ Allocated \subseteq Objects /\ AllocatedIn(Sweeper) = Allocated
         /\ LiveIn(Sweeper) = Allocated
         /\ stack \cup finalizable \subseteq Allocated
         /\ finalizable = ToSet(lists.finobj) \cup ToSet(lists.tobefnz)
         /\ gray \cup grayagain \cup allweak \subseteq Things
         /\ touched \subseteq openupval /\ openupval \subseteq twups
         /\ \A x \in openupval \cup twups : x \in Allocated /\ kind[x] = "thread"
         /\ EntriesOK(entry)
<1>1. /\ lists \in Lists /\ OnePlace(lists) /\ color \in [Things -> Colors]
      /\ entry \in [Objects -> Entries]
  BY DEF AtomicStart, HeapOK, SweeperOK, Sweeper
<1>2. Allocated = AllocatedIn(Sweeper) BY DEF Allocated, AllocatedIn, Sweeper
<1>3. Allocated \subseteq Objects
  <2>1. Sweeper.lists \in Lists BY <1>1 DEF Sweeper
  <2> QED BY <1>2, <2>1, AllocatedType
<1>4. \A o \in Things : color[o] # "dead" BY DEF AtomicStart, TriOK, TriCore, Sweeper
<1>5. LiveIn(Sweeper) = Allocated BY <1>2, <1>3, <1>4 DEF LiveIn, Things, Sweeper
<1>6. /\ stack \cup finalizable \subseteq Allocated
      /\ finalizable = ToSet(lists.finobj) \cup ToSet(lists.tobefnz)
  BY <1>5 DEF AtomicStart, RootsOK, Sweeper
<1>7. gray \cup grayagain \cup allweak \subseteq Things BY DEF AtomicStart, TriOK, TriCore
<1>8. /\ touched \subseteq openupval
      /\ \A x \in openupval \cup twups : x \in Allocated /\ kind[x] = "thread"
      /\ \A x \in openupval \ twups : color[x] = "dead"
  BY <1>2 DEF AtomicStart, HeapOK, UpvaluesOK, Sweeper
<1>9. openupval \subseteq twups
  <2>1. \A x \in openupval : x \in Things BY <1>3, <1>8 DEF Things
  <2> QED BY <1>4, <1>8, <2>1
<1>10. EntriesOK(entry) BY <1>1, <1>3, <1>6 DEF EntriesOK, AtomicStart
<1> QED BY <1>1, <1>2, <1>3, <1>5, <1>6, <1>7, <1>8, <1>9, <1>10 DEF AtomicStart

\* The first clearing empties the values of weak tables that are not marked.
LEMMA Entry2Is ==
  ASSUME EntriesOK(entry)
  PROVE  /\ EntriesOK(Entry2)
         /\ \A o \in Objects :
              Entry2[o] = IF o \in Before /\ kind[o] \in {"weakv", "allweak"} /\ entry[o].val \notin M2
                          THEN Nothing ELSE entry[o]
<1>1. entry \in [Objects -> Entries] /\ stack \subseteq Objects /\ kind \in Kinds BY DEF EntriesOK
<1>2. Nothing \in Entries BY DEF Nothing, Entries, Values
<1>3. \A o \in Objects : o # Main BY NoneIsNoThing
<1>4. \A o \in Objects :
        Entry2[o] = IF o \in Before /\ kind[o] \in {"weakv", "allweak"} /\ entry[o].val \notin M2
                    THEN Nothing ELSE entry[o]
  BY <1>3 DEF Entry2, clearvalues, Clear, WeakIn
<1>5. Entry2 = [o \in Objects |-> Entry2[o]] BY DEF Entry2, clearvalues, Clear
<1>6. \A o \in Objects : Entry2[o] \in Entries BY <1>1, <1>2, <1>4
<1>7. Entry2 \in [Objects -> Entries] BY <1>5, <1>6
<1> QED BY <1>1, <1>4, <1>7 DEF EntriesOK

\* The last clearing leaves neither keys nor values that are not marked.
LEMMA Entry3Is ==
  ASSUME EntriesOK(entry)
  PROVE  /\ Entry3 \in [Objects -> Entries]
         /\ \A o \in Objects : Entry3[o] = Entry2[o] \/ Entry3[o] = Nothing
         /\ \A o \in Objects : kind[o] \notin {"weakv", "ephemeron", "allweak"} => Entry3[o] = entry[o]
         /\ \A o \in (Before \cup Risen) \cap Objects :
              kind[o] \in {"ephemeron", "allweak"} => Entry3[o].key \in M3 \cup {None}
         /\ \A o \in (Risen \ M2) \cap Objects :
              kind[o] \in {"weakv", "allweak"} => Entry3[o].val \in M3 \cup {None}
<1> DEFINE K == {o \in WeakIn(Before \cup Risen, {"ephemeron", "allweak"}) :
                    Entry2[o].key \notin M3 \cup {None}}
           E == Clear(Entry2, K)
           V == {o \in WeakIn(Risen \ M2, {"weakv", "allweak"}) : E[o].val \notin M3}
<1>1. Entry3 = Clear(E, V) BY DEF Entry3, clearvalues, clearkeys
<1>2. \A o \in Objects : E[o] = IF o \in K THEN Nothing ELSE Entry2[o] BY DEF Clear
<1>3. \A o \in Objects : o \in K <=> o \in Before \cup Risen /\ kind[o] \in {"ephemeron", "allweak"}
                                      /\ Entry2[o].key \notin M3 \cup {None}
  BY NoneIsNoThing DEF WeakIn
<1>4. \A o \in Objects : o \in V <=> o \in Risen \ M2 /\ kind[o] \in {"weakv", "allweak"}
                                      /\ E[o].val \notin M3
  BY NoneIsNoThing DEF WeakIn
<1> HIDE DEF K, E, V
<1>5. \A o \in Objects : Entry3[o] = IF o \in V THEN Nothing ELSE E[o] BY <1>1 DEF Clear
<1>6. Entry3 = [o \in Objects |-> Entry3[o]] BY <1>1 DEF Clear
<1>7. Nothing \in Entries /\ Nothing.key = None /\ Nothing.val = None
  BY DEF Nothing, Entries, Values
<1>8. Entry2 \in [Objects -> Entries] BY Entry2Is DEF EntriesOK
<1>9. \A o \in Objects : Entry3[o] = Entry2[o] \/ Entry3[o] = Nothing BY <1>2, <1>5
<1>10. Entry3 \in [Objects -> Entries]
  <2>1. \A o \in Objects : Entry3[o] \in Entries BY <1>7, <1>8, <1>9
  <2> QED BY <1>6, <2>1
<1>11. \A o \in Objects : kind[o] \notin {"weakv", "ephemeron", "allweak"} => Entry3[o] = entry[o]
  <2>1. \A o \in Objects : kind[o] \notin {"weakv", "ephemeron", "allweak"} => Entry2[o] = entry[o]
    BY Entry2Is
  <2> QED BY <1>2, <1>3, <1>4, <1>5, <2>1
<1>12. ASSUME NEW o \in (Before \cup Risen) \cap Objects, kind[o] \in {"ephemeron", "allweak"}
       PROVE  Entry3[o].key \in M3 \cup {None}
  <2>1. E[o].key \in M3 \cup {None} BY <1>2, <1>3, <1>7, <1>12
  <2> QED BY <1>5, <1>7, <2>1
<1>13. ASSUME NEW o \in (Risen \ M2) \cap Objects, kind[o] \in {"weakv", "allweak"}
       PROVE  Entry3[o].val \in M3 \cup {None}
  BY <1>4, <1>5, <1>7, <1>13
<1> QED BY <1>9, <1>10, <1>11, <1>12, <1>13

\* Early is the least set that the gray list leads to.
LEMMA EarlyIs ==
  ASSUME AtomicStart
  PROVE  /\ gray \subseteq Early /\ Early \subseteq Things
         /\ \A o \in Early : MarksEarly(entry, o, Early \cup M0) \subseteq Early \cup M0 \cup {None}
         /\ \A Z \in SUBSET Things :
              /\ gray \subseteq Z
              /\ \A o \in Z : MarksEarly(entry, o, Z \cup M0) \subseteq Z \cup M0 \cup {None}
              => Early \subseteq Z
<1>1. gray \subseteq Things /\ None \notin gray /\ EntriesOK(entry) BY StartIs, NoneIsNoThing
<1>2. gray \subseteq Things \cup {None} /\ gray \ {None} = gray BY <1>1
<1>3. /\ gray \ {None} \subseteq Early /\ Early \subseteq Things
      /\ \A o \in Early : MarksAt(entry, o, Early \cup M0, FALSE) \subseteq Early \cup M0 \cup {None}
      /\ \A Z \in SUBSET Things :
              /\ gray \ {None} \subseteq Z
              /\ \A o \in Z : MarksAt(entry, o, Z \cup M0, FALSE) \subseteq Z \cup M0 \cup {None}
              => Early \subseteq Z
  BY <1>1, <1>2, TraverseIs DEF Early
<1> QED BY <1>2, <1>3 DEF MarksAt

\* Late is the least set that what the atomic phase marks anew leads to.
LEMMA LateIs ==
  ASSUME AtomicStart
  PROVE  /\ LateFrom \subseteq Things /\ LateFrom \subseteq Late /\ Late \subseteq Things
         /\ \A o \in Late : Marks(entry, o, Late \cup M1) \subseteq Late \cup M1 \cup {None}
         /\ \A Z \in SUBSET Things :
              /\ LateFrom \subseteq Z
              /\ \A o \in Z : Marks(entry, o, Z \cup M1) \subseteq Z \cup M1 \cup {None}
              => Late \subseteq Z
<1>1. LateFrom \subseteq Things
  <2>1. Again \subseteq Things BY EarlyIs DEF Again
  <2>2. \A x \in openupval : x \in Objects /\ entry[x].val \in Things \cup {None}
    BY StartIs DEF Entries, Values, Things
  <2>3. Remark \subseteq Things BY <2>2 DEF Remark
  <2> QED BY <2>1, <2>3, StartIs DEF LateFrom
<1>2. LateFrom \subseteq Things \cup {None} /\ LateFrom \ {None} = LateFrom BY <1>1, NoneIsNoThing
<1>3. EntriesOK(entry) BY StartIs
<1>4. /\ LateFrom \ {None} \subseteq Late /\ Late \subseteq Things
      /\ \A o \in Late : MarksAt(entry, o, Late \cup M1, TRUE) \subseteq Late \cup M1 \cup {None}
      /\ \A Z \in SUBSET Things :
              /\ LateFrom \ {None} \subseteq Z
              /\ \A o \in Z : MarksAt(entry, o, Z \cup M1, TRUE) \subseteq Z \cup M1 \cup {None}
              => Late \subseteq Z
  BY <1>2, <1>3, TraverseIs DEF Late
<1> QED BY <1>1, <1>2, <1>4 DEF MarksAt

\* Between the lists of finalizers, the objects found dead.
LEMMA ToBeFnzIs ==
  ASSUME AtomicStart
  PROVE  /\ ToBeFnz \in Seq(Objects) /\ Once(ToBeFnz)
         /\ ToSet(ToBeFnz) = ToSet(lists.tobefnz) \cup (ToSet(lists.finobj) \ M2)
         /\ Keep(lists.finobj, M2) \in Seq(Objects) /\ Once(Keep(lists.finobj, M2))
         /\ ToSet(Keep(lists.finobj, M2)) = ToSet(lists.finobj) \cap M2
<1>1. /\ lists.finobj \in Seq(Objects) /\ lists.tobefnz \in Seq(Objects)
      /\ Once(lists.finobj) /\ Once(lists.tobefnz)
      /\ ToSet(lists.finobj) \cap ToSet(lists.tobefnz) = {}
  BY StartIs, ListFacts
<1> DEFINE k == Keep(lists.finobj, Objects \ M2)
<1>2. k \in Seq(Objects) /\ Once(k) /\ ToSet(k) = ToSet(lists.finobj) \cap (Objects \ M2)
  BY <1>1, KeepIs
<1>3. ToSet(lists.finobj) \subseteq Objects BY <1>1, SetOfSeq
<1>4. ToSet(lists.tobefnz) \cap ToSet(k) = {} BY <1>1, <1>2
<1>5. /\ Keep(lists.finobj, M2) \in Seq(Objects) /\ Once(Keep(lists.finobj, M2))
      /\ ToSet(Keep(lists.finobj, M2)) = ToSet(lists.finobj) \cap M2
  BY <1>1, KeepIs
<1>6. ToBeFnz = lists.tobefnz \o k BY DEF ToBeFnz
<1> HIDE DEF k
<1>7. /\ ToBeFnz \in Seq(Objects) /\ Once(ToBeFnz)
      /\ ToSet(ToBeFnz) = ToSet(lists.tobefnz) \cup ToSet(k)
  BY <1>1, <1>2, <1>4, <1>6, SetOfConcat
<1> QED BY <1>2, <1>3, <1>5, <1>7

\* Risen is the least set that the objects for the finalizers and the ephemerons lead to.
LEMMA RisenIs ==
  ASSUME AtomicStart
  PROVE  /\ RisenFrom \subseteq Things /\ RisenFrom \subseteq Risen /\ Risen \subseteq Things
         /\ \A o \in Risen : Marks(Entry2, o, Risen \cup M2) \subseteq Risen \cup M2 \cup {None}
         /\ \A Z \in SUBSET Things :
              /\ RisenFrom \subseteq Z
              /\ \A o \in Z : Marks(Entry2, o, Z \cup M2) \subseteq Z \cup M2 \cup {None}
              => Risen \subseteq Z
<1>1. RisenFrom \subseteq Things
  <2>1. Before \subseteq Things BY EarlyIs, LateIs, StartIs DEF Before
  <2>2. ToSet(ToBeFnz) \subseteq Things BY ToBeFnzIs, SetOfSeq DEF Things
  <2> QED BY <2>1, <2>2 DEF RisenFrom, WeakIn
<1>2. RisenFrom \subseteq Things \cup {None} /\ RisenFrom \ {None} = RisenFrom BY <1>1, NoneIsNoThing
<1>3. EntriesOK(Entry2) BY StartIs, Entry2Is
<1>4. /\ RisenFrom \ {None} \subseteq Risen /\ Risen \subseteq Things
      /\ \A o \in Risen : MarksAt(Entry2, o, Risen \cup M2, TRUE) \subseteq Risen \cup M2 \cup {None}
      /\ \A Z \in SUBSET Things :
              /\ RisenFrom \ {None} \subseteq Z
              /\ \A o \in Z : MarksAt(Entry2, o, Z \cup M2, TRUE) \subseteq Z \cup M2 \cup {None}
              => Risen \subseteq Z
  BY <1>2, <1>3, TraverseIs DEF Risen
<1> QED BY <1>1, <1>2, <1>4 DEF MarksAt

\* A thread that is marked when the upvalues are marked again has been traversed, or will be.
LEMMA OpenValue ==
  ASSUME AtomicStart, NEW f \in Objects, IsOpenIn(entry, f), entry[f].key \in Touched1
  PROVE  Marks(entry, f, M2) \subseteq M2 \cup {None}
<1> DEFINE x == entry[f].key
<1>1. x \in openupval /\ x \in twups /\ x \in Objects /\ kind[x] = "thread" /\ x # Main /\ f # Main
  <2>1. x \in openupval \cup {None} /\ x # None
    BY DEF AtomicStart, HeapOK, UpvaluesOK, Sweeper, IsOpenIn
  <2> QED BY <2>1, StartIs, NoneIsNoThing
<1>2. Marks(entry, f, M2) = {entry[x].val} BY <1>1 DEF Marks, IsOpenIn, UpvalValue
<1>3. \A X : Marks(entry, x, X) = {entry[x].val} BY <1>1 DEF Marks
<1>4. \A X : MarksEarly(entry, x, X) = {entry[x].val} BY <1>1, <1>3 DEF MarksEarly, IsOpenIn
<1>5. CASE x \in Early BY <1>2, <1>4, <1>5, EarlyIs DEF M1, M2
<1>6. CASE x \in Late BY <1>2, <1>3, <1>6, LateIs DEF M2
<1>7. CASE x \in M0
  <2>1. x \in Things BY <1>1 DEF Things
  <2>2. Sweeper.color[x] # "black"
    BY <1>1, <2>1 DEF AtomicStart, HeapOK, ColorsOK, StaysGray
  <2>3. Sweeper.color[x] = "gray"
    <3>1. Sweeper.color[x] \in Colors
      BY <2>1 DEF AtomicStart, HeapOK, SweeperOK
    <3>2. Sweeper.color[x] \notin {"white", "dead"} BY <1>7 DEF M0, White, Sweeper
    <3> QED BY <2>2, <3>1, <3>2 DEF Colors
  <2>4. x \in gray \cup grayagain \cup allweak
    BY <2>1, <2>3 DEF AtomicStart, TriOK, TriCore
  <2>5. x \notin allweak BY <1>1 DEF AtomicStart, TriOK, TriCore
  <2>6. x \in Early \cup Late BY <2>4, <2>5, EarlyIs, LateIs DEF LateFrom
  <2> QED BY <1>5, <1>6, <2>6
<1>8. CASE x \notin M1
  <2>1. x \in Leavers BY <1>1, <1>8 DEF Leavers, Leaving
  <2>2. entry[x].val \in Remark \cup {None} BY <1>1, <2>1 DEF Remark
  <2>3. entry[x].val \in M1 \cup Late \cup {None} BY <2>2, LateIs DEF LateFrom
  <2> QED BY <1>2, <2>3 DEF M2
<1> QED BY <1>5, <1>6, <1>7, <1>8 DEF M1

\* What is marked is black, or in a gray list; no thread and no weak table is black.
LEMMA MarkedIs ==
  ASSUME AtomicStart, NEW o \in M0
  PROVE  /\ o \in Things
         /\ o \in gray \cup grayagain \cup allweak \/ (o \in Objects /\ color[o] = "black")
         /\ StaysGray(o) => o \in gray \cup grayagain \cup allweak
<1>1. o \in Things /\ color[o] \notin {"white", "dead"} BY DEF M0, White
<1>2. color[o] \in {"gray", "black"} BY <1>1, StartIs DEF Colors
<1>3. color[o] = "gray" <=> o \in gray \cup grayagain \cup allweak
  BY <1>1 DEF AtomicStart, TriOK, TriCore, Sweeper
<1>4. StaysGray(o) => color[o] # "black"
  BY <1>1 DEF AtomicStart, HeapOK, ColorsOK, Sweeper
<1>5. o = Main => StaysGray(o) BY DEF StaysGray
<1> QED BY <1>1, <1>2, <1>3, <1>4, <1>5 DEF Things

\* The main thread is marked.
LEMMA MainMarked ==
  ASSUME AtomicStart
  PROVE  Main \in M0
BY NoneIsNoThing DEF AtomicStart, TriOK, M0, White, Sweeper

\* All that is marked when the ephemerons have converged refers to what is marked.
LEMMA M2Closed ==
  ASSUME AtomicStart, NEW o \in M2
  PROVE  o \in Things /\ Marks(entry, o, M2) \subseteq M2 \cup {None}
<1>0. /\ gray \subseteq Early /\ grayagain \subseteq Late /\ Again \subseteq Late
      /\ Early \subseteq Things /\ Late \subseteq Things /\ M0 \subseteq Things
  BY EarlyIs, LateIs DEF LateFrom, M0
<1>1. o \in Things BY <1>0 DEF M1, M2
<1>2. EntriesOK(entry) /\ kind \in Kinds BY StartIs
<1>3. CASE o \in Late
  <2>1. Marks(entry, o, Late \cup M1) \subseteq Late \cup M1 \cup {None} BY <1>3, LateIs
  <2>2. Late \cup M1 = M2 BY DEF M2
  <2> QED BY <1>1, <2>1, <2>2
<1>4. CASE o \in Early /\ o \notin Late
  <2>1. MarksEarly(entry, o, Early \cup M0) \subseteq M2 \cup {None}
    BY <1>4, EarlyIs DEF M1, M2
  <2>2. CASE IsOpenIn(entry, o)
    <3>1. o \in Objects BY <1>1, <2>2 DEF IsOpenIn, Things
    <3>2. entry[o].key \in Touched1 BY <1>4, <2>2 DEF Touched1, IsOpen
    <3> QED BY <1>1, <2>2, <3>1, <3>2, OpenValue
  <2>3. CASE o # Main /\ kind[o] = "ephemeron" BY <1>0, <1>4, <2>3 DEF Again
  <2>4. CASE ~ IsOpenIn(entry, o) /\ ~ (o # Main /\ kind[o] = "ephemeron")
    <3>1. MarksEarly(entry, o, Early \cup M0) = Marks(entry, o, Early \cup M0)
      BY <2>4 DEF MarksEarly
    <3>2. o # Main => kind[o] \in {"table", "weakv", "allweak", "udata", "lclosure", "thread"}
      BY <1>1, <1>2, <2>4, KindOf DEF Things
    <3>3. Marks(entry, o, Early \cup M0) = Marks(entry, o, M2) BY <3>2 DEF Marks
    <3> QED BY <1>1, <2>1, <3>1, <3>3
  <2> QED BY <2>2, <2>3, <2>4
<1>5. CASE o \in M0 /\ o \notin Early \cup Late
  <2>1. o \in allweak \/ (o \in Objects /\ color[o] = "black" /\ ~ StaysGray(o))
    BY <1>0, <1>5, MarkedIs
  <2>2. CASE o \in allweak
    <3>1. o # Main /\ kind[o] = "allweak" BY <2>2 DEF AtomicStart, TriOK, TriCore
    <3> QED BY <1>1, <3>1 DEF Marks
  <2>3. CASE o \in Objects /\ color[o] = "black" /\ ~ StaysGray(o)
    <3>1. BlackOK(Sweeper, o, {}) BY <2>3 DEF AtomicStart, TriOK, TriCore, Sweeper
    <3>2. CASE IsOpenIn(entry, o)
      <4>1. entry[o].key \in Touched1 BY <3>1, <3>2 DEF BlackOK, Touched1, Sweeper
      <4> QED BY <1>1, <2>3, <3>2, <4>1, OpenValue
    <3>3. CASE ~ IsOpenIn(entry, o)
      <4>1. o # Main /\ kind[o] \in {"table", "udata", "lclosure"}
        BY <1>2, <2>3, KindOf DEF StaysGray
      <4>2. MarksEarly(entry, o, {}) = Marks(entry, o, M2) BY <3>3, <4>1 DEF MarksEarly, Marks
      <4>3. Marks(entry, o, M2) \subseteq Things \cup {None} BY <1>1, <1>2, MarksType
      <4>4. \A v \in Marks(entry, o, M2) \ {None} : v \in Things /\ ~ White(v)
        BY <3>1, <4>2, <4>3 DEF BlackOK, Unmarked, White, Sweeper
      <4> QED BY <1>1, <4>4 DEF M0, M1, M2
    <3> QED BY <3>2, <3>3
  <2> QED BY <2>1, <2>2, <2>3
<1> QED BY <1>3, <1>4, <1>5 DEF M1, M2

\* All the weak tables that are marked have been met.
LEMMA BeforeIs ==
  ASSUME AtomicStart, NEW o \in M2 \cap Objects, kind[o] \in {"weakv", "ephemeron", "allweak"}
  PROVE  o \in Before
<1>1. StaysGray(o) BY DEF StaysGray
<1>2. o \in M0 => o \in gray \cup grayagain \cup allweak BY <1>1, MarkedIs
<1>3. gray \subseteq Early /\ grayagain \subseteq Late BY EarlyIs, LateIs DEF LateFrom
<1> QED BY <1>2, <1>3 DEF M1, M2, Before

\* What the objects that stay hold, stays.
LEMMA M3Closed ==
  ASSUME AtomicStart, NEW o \in M3 \cap Objects
  PROVE  HoldsIn(Entry3, o) \subseteq M3 \cup {None}
<1>1. M3 = M2 \cup Risen BY DEF M3
<1>2. EntriesOK(entry) /\ kind \in Kinds BY StartIs
<1>3. Nothing.key = None /\ Nothing.val = None BY DEF Nothing
<1>4. o # Main BY NoneIsNoThing
<1>5. o \in Risen => Marks(Entry2, o, M3) \subseteq M3 \cup {None}
  <2>1. Risen \cup M2 = M3 BY <1>1
  <2> QED BY <2>1, RisenIs
<1>6. o \in M2 => Marks(entry, o, M2) \subseteq M3 \cup {None} BY <1>1, M2Closed
<1>7. \A x \in Objects : kind[x] \notin {"weakv", "ephemeron", "allweak"} =>
                           Entry3[x] = entry[x] /\ Entry2[x] = entry[x]
  BY <1>2, Entry2Is, Entry3Is
<1>8. Entry3[o] = Entry2[o] \/ Entry3[o] = Nothing BY <1>2, Entry3Is
<1>9. CASE kind[o] = "lclosure"
  <2> DEFINE x == entry[o].key
  <2>1. x \in openupval \cup {None}
    BY <1>9 DEF AtomicStart, HeapOK, UpvaluesOK, Sweeper
  <2>2. Entry3[o] = entry[o] /\ Entry2[o] = entry[o] BY <1>7, <1>9
  <2>3. x # None => Entry3[x] = entry[x] /\ Entry2[x] = entry[x] BY <1>7, <2>1, StartIs
  <2>4. UpvalValue(Entry3, o) = UpvalValue(entry, o) /\ UpvalValue(Entry2, o) = UpvalValue(entry, o)
    BY <2>2, <2>3 DEF UpvalValue
  <2>5. Marks(Entry2, o, M3) = {UpvalValue(Entry2, o)} /\ Marks(entry, o, M2) = {UpvalValue(entry, o)}
    BY <1>4, <1>9 DEF Marks
  <2> QED BY <1>1, <1>5, <1>6, <1>9, <2>4, <2>5 DEF HoldsIn
<1>10. CASE kind[o] \in {"udata", "thread"}
  <2>1. entry[o].key = None BY <1>10 DEF AtomicStart, HeapOK, UpvaluesOK, Sweeper
  <2>2. Entry3[o] = entry[o] /\ Entry2[o] = entry[o] BY <1>7, <1>10
  <2>3. Marks(Entry2, o, M3) = {Entry2[o].val} /\ Marks(entry, o, M2) = {entry[o].val}
    BY <1>4, <1>10 DEF Marks
  <2> QED BY <1>1, <1>5, <1>6, <1>10, <2>1, <2>2, <2>3 DEF HoldsIn
<1>11. CASE kind[o] = "table"
  <2>1. Entry3[o] = entry[o] /\ Entry2[o] = entry[o] BY <1>7, <1>11
  <2>2. Marks(Entry2, o, M3) = {Entry2[o].key, Entry2[o].val} /\ Marks(entry, o, M2) = {entry[o].key, entry[o].val}
    BY <1>4, <1>11 DEF Marks
  <2> QED BY <1>1, <1>5, <1>6, <1>11, <2>1, <2>2 DEF HoldsIn
<1>12. CASE kind[o] = "ephemeron"
  <2>1. o \in Risen
    <3>1. o \in M2 => o \in RisenFrom BY <1>4, <1>12, BeforeIs DEF RisenFrom, WeakIn
    <3> QED BY <1>1, <3>1, RisenIs
  <2>2. Entry3[o].key \in M3 \cup {None} BY <1>2, <1>12, <2>1, Entry3Is
  <2>3. Entry2[o].key \in M3 \cup {None} => Entry2[o].val \in M3 \cup {None}
    BY <1>4, <1>5, <1>12, <2>1 DEF Marks
  <2> QED BY <1>3, <1>8, <1>12, <2>2, <2>3 DEF HoldsIn
<1>13. CASE kind[o] \in {"weakv", "allweak"}
  <2>1. Entry3[o].val \in M3 \cup {None}
    <3>1. CASE o \in M2
      <4>1. o \in Before BY <1>13, <3>1, BeforeIs
      <4>2. Entry2[o].val \in M2 \cup {None} BY <1>2, <1>3, <1>13, <4>1, Entry2Is
      <4> QED BY <1>1, <1>3, <1>8, <4>2
    <3>2. CASE o \notin M2 BY <1>1, <1>2, <1>13, <3>2, Entry3Is
    <3> QED BY <3>1, <3>2
  <2>2. Entry3[o].key \in M3 \cup {None}
    <3>1. CASE kind[o] = "allweak"
      <4>1. o \in Before \cup Risen BY <1>1, <3>1, BeforeIs
      <4> QED BY <1>2, <3>1, <4>1, Entry3Is
    <3>2. CASE kind[o] = "weakv"
      <4>1. Marks(Entry2, o, M3) = {Entry2[o].key} /\ Marks(entry, o, M2) = {entry[o].key}
        BY <1>4, <3>2 DEF Marks
      <4>2. Entry2[o].key = entry[o].key \/ Entry2[o].key = None BY <1>2, <1>3, Entry2Is
      <4> QED BY <1>1, <1>3, <1>5, <1>6, <1>8, <4>1, <4>2
    <3> QED BY <1>13, <3>1, <3>2
  <2> QED BY <1>13, <2>1, <2>2 DEF HoldsIn
<1> QED BY <1>2, <1>9, <1>10, <1>11, <1>12, <1>13, KindOf

\* The atomic phase moves objects from finobj to tobefnz and loses none.
LEMMA AtomicLists ==
  ASSUME AtomicStart, NEW t, t = Atomic
  PROVE  /\ t.lists \in Lists /\ OnePlace(t.lists) /\ AllocatedIn(t) = Allocated
         /\ t.lists.allgc = lists.allgc /\ t.lists.tobefnz = ToBeFnz
         /\ t.lists.finobj = Keep(lists.finobj, M2)
<1> DEFINE k == Keep(lists.finobj, M2)
<1>1. t.lists = [lists EXCEPT !.tobefnz = ToBeFnz, !.finobj = k] BY AtomicIs
<1>2. /\ ToBeFnz \in Seq(Objects) /\ Once(ToBeFnz) /\ k \in Seq(Objects) /\ Once(k)
      /\ ToSet(ToBeFnz) = ToSet(lists.tobefnz) \cup (ToSet(lists.finobj) \ M2)
      /\ ToSet(k) = ToSet(lists.finobj) \cap M2
  BY ToBeFnzIs
<1> HIDE DEF k
<1>3. lists \in Lists /\ OnePlace(lists) BY StartIs
<1>4. /\ lists.allgc \in Seq(Objects) /\ Once(lists.allgc)
      /\ ToSet(lists.allgc) \cap ToSet(lists.finobj) = {}
      /\ ToSet(lists.allgc) \cap ToSet(lists.tobefnz) = {}
      /\ ToSet(lists.finobj) \cap ToSet(lists.tobefnz) = {}
  BY <1>3, ListFacts
<1>5. IsThree(t.lists, lists.allgc, k, ToBeFnz) BY <1>1, <1>3 DEF IsThree, Lists, ListNames
<1>6. t.lists \in Lists /\ t.lists.allgc = lists.allgc /\ t.lists.finobj = k /\ t.lists.tobefnz = ToBeFnz
  BY <1>2, <1>4, <1>5, ListsSet
<1>7. OnePlace(t.lists) BY <1>2, <1>4, <1>6, OnePlaceIs
<1>8. AllocatedIn(t) = ToSet(lists.allgc) \cup ToSet(k) \cup ToSet(ToBeFnz)
  BY <1>6, AllocatedIs
<1>9. Sweeper.lists = lists BY DEF Sweeper
<1>10. AllocatedIn(Sweeper) = ToSet(lists.allgc) \cup ToSet(lists.finobj) \cup ToSet(lists.tobefnz)
  BY <1>3, <1>9, AllocatedIs
<1>11. AllocatedIn(t) = Allocated BY <1>2, <1>8, <1>10, StartIs
<1> QED BY <1>6, <1>7, <1>11 DEF k

\* What is not dead after the atomic phase.
LEMMA AtomicLive ==
  ASSUME AtomicStart, NEW t, t = Atomic
  PROVE  /\ LiveIn(t) = Allocated \cap M3 /\ t.color \in [Things -> Colors]
         /\ \A o \in Objects \ Allocated : t.color[o] = "white"
         /\ \A o \in Things : StaysGray(o) => t.color[o] # "black"
         /\ t.color[Main] # "dead"
         /\ \A o \in Allocated : t.color[o] = "dead" <=> o \notin M3
<1>1. t.color = [o \in Things |-> IF o \in Objects \ Allocated THEN "white"
                         ELSE IF o \notin M3 THEN "dead"
                         ELSE IF StaysGray(o) THEN "gray" ELSE "black"]
  BY AtomicIs
<1>2. AllocatedIn(t) = Allocated /\ Allocated \subseteq Objects BY AtomicLists, StartIs
<1>3. Main \in M3 /\ Main \in Things /\ Main \notin Objects BY MainMarked, NoneIsNoThing DEF M1, M2, M3
<1>4. Objects \subseteq Things BY DEF Things
<1>5. t.color \in [Things -> Colors] BY <1>1 DEF Colors
<1>6. \A o \in Objects \ Allocated : t.color[o] = "white" BY <1>1, <1>4
<1>7. \A o \in Allocated : t.color[o] = "dead" <=> o \notin M3 BY <1>1, <1>2, <1>4
<1>8. \A o \in Things : StaysGray(o) => t.color[o] # "black" BY <1>1
<1>9. t.color[Main] # "dead" BY <1>1, <1>3
<1>10. LiveIn(t) = Allocated \cap M3 BY <1>2, <1>7 DEF LiveIn
<1> QED BY <1>5, <1>6, <1>7, <1>8, <1>9, <1>10

\* The threads that are marked and have open upvalues are in twups after the atomic phase.
LEMMA AtomicUpvalues ==
  ASSUME AtomicStart, NEW t, t = Atomic
  PROVE  UpvaluesOK(t)
<1>1. /\ t.openupval = openupval /\ t.touched = Touched1 \ Leavers
      /\ t.twups = (twups \ Leavers) \cup {x \in (Late \cup Risen) \cap openupval : kind[x] = "thread"}
      /\ t.entry = Entry3
  BY AtomicIs
<1>2. AllocatedIn(t) = Allocated BY AtomicLists
<1>3. /\ openupval \subseteq twups /\ touched \subseteq openupval
      /\ \A x \in openupval \cup twups : x \in Allocated /\ kind[x] = "thread"
  BY StartIs
<1>4. Touched1 \subseteq openupval
  <2>1. ASSUME NEW f \in Early, IsOpen(f) PROVE entry[f].key \in openupval
    <3>1. f \in Objects /\ kind[f] = "lclosure" /\ entry[f].key # None
      BY <2>1, EarlyIs DEF IsOpen, IsOpenIn, Things
    <3> QED BY <3>1 DEF AtomicStart, HeapOK, UpvaluesOK, Sweeper
  <2> QED BY <1>3, <2>1 DEF Touched1
<1>5. \A x \in openupval \ t.twups : t.color[x] = "dead"
  <2>1. ASSUME NEW x \in openupval, x \notin t.twups PROVE x \notin M3
    <3>1. x \in Leavers /\ x \notin Late \cup Risen BY <1>1, <1>3, <2>1
    <3>2. x \notin M1 BY <2>1, <3>1 DEF Leavers, Leaving
    <3> QED BY <3>1, <3>2 DEF M2, M3
  <2> QED BY <1>3, <2>1, AtomicLive
<1>6. \A x \in t.twups : t.color[x] # "dead"
  <2>1. ASSUME NEW x \in t.twups PROVE x \in M3
    <3>1. x \in twups \ Leavers \/ x \in Late \cup Risen BY <1>1
    <3>2. x \in twups \ Leavers => x \in M1 BY DEF Leavers, Leaving
    <3> QED BY <3>1, <3>2 DEF M2, M3
  <2>2. t.twups \subseteq Allocated BY <1>1, <1>3
  <2> QED BY <2>1, <2>2, AtomicLive
<1>7. \A x \in Objects : kind[x] \notin {"weakv", "ephemeron", "allweak"} => Entry3[x] = entry[x]
  BY StartIs, Entry3Is
<1>8. \A f \in Objects : kind[f] = "lclosure" => Entry3[f].key \in openupval \cup {None}
  BY <1>7 DEF AtomicStart, HeapOK, UpvaluesOK, Sweeper
<1>9. \A o \in Objects : kind[o] \in {"udata", "thread"} => Entry3[o].key = None
  BY <1>7 DEF AtomicStart, HeapOK, UpvaluesOK, Sweeper
<1>10. \A x \in openupval \cup t.twups : x \in Allocated /\ kind[x] = "thread" BY <1>1, <1>3
<1> QED BY <1>1, <1>2, <1>4, <1>5, <1>6, <1>8, <1>9, <1>10 DEF UpvaluesOK

\* An entry stays, or is emptied.
LEMMA HoldsLess ==
  ASSUME AtomicStart, NEW o \in Objects
  PROVE  HoldsIn(Entry3, o) \subseteq HoldsIn(entry, o) \cup {None}
<1>1. \A x \in Objects : Entry3[x] = entry[x] \/ Entry3[x] = Nothing
  BY StartIs, Entry2Is, Entry3Is
<1>2. \A x \in Objects : kind[x] \notin {"weakv", "ephemeron", "allweak"} => Entry3[x] = entry[x]
  BY StartIs, Entry3Is
<1>3. CASE kind[o] = "lclosure"
  <2>1. entry[o].key \in openupval \cup {None}
    BY <1>3 DEF AtomicStart, HeapOK, UpvaluesOK, Sweeper
  <2>2. \A x \in openupval : x \in Objects /\ Entry3[x] = entry[x] BY <1>2, StartIs
  <2>3. Entry3[o] = entry[o] BY <1>2, <1>3
  <2>4. UpvalValue(Entry3, o) = UpvalValue(entry, o) BY <2>1, <2>2, <2>3 DEF UpvalValue
  <2> QED BY <1>3, <2>4 DEF HoldsIn
<1>4. CASE kind[o] # "lclosure" BY <1>1, <1>4 DEF HoldsIn, Nothing
<1> QED BY <1>3, <1>4

\* The atomic phase leaves a heap in which nothing refers to what it has found dead.
LEMMA AtomicOK ==
  ASSUME AtomicStart, NEW t, t = Atomic
  PROVE  IsSweeper(t) /\ HeapOK(t) /\ RootsOK(t, stack, finalizable)
<1>1. IsSweeper(t) /\ t.sweepgc = sweepgc /\ t.entry = Entry3 BY AtomicIs
<1>2. SweeperOK(t)
  <2>1. sweepgc \in Values \cup {Header} BY DEF AtomicStart, HeapOK, SweeperOK, Sweeper
  <2>2. Entry3 \in [Objects -> Entries] BY StartIs, Entry3Is
  <2> QED BY <1>1, <2>1, <2>2, AtomicLists, AtomicLive DEF SweeperOK
<1>3. FreeOK(t)
  <2>1. \A o \in Objects \ Allocated : entry[o] = Nothing
    BY StartIs DEF AtomicStart, HeapOK, FreeOK, Sweeper
  <2>2. \A o \in Objects : Entry3[o] = entry[o] \/ Entry3[o] = Nothing
    BY StartIs, Entry2Is, Entry3Is
  <2>3. \A o \in Objects \ Allocated : t.entry[o] = Nothing BY <1>1, <2>1, <2>2
  <2> QED BY <2>3, AtomicLists, AtomicLive DEF FreeOK
<1>4. PointersOK(t)
  <2>1. ASSUME NEW o \in LiveIn(t) PROVE HoldsIn(t.entry, o) \subseteq LiveIn(t) \cup {None}
    <3>1. o \in Allocated /\ o \in M3 /\ o \in Objects BY AtomicLive, StartIs
    <3>2. HoldsIn(Entry3, o) \subseteq M3 \cup {None} BY <3>1, M3Closed
    <3>3. HoldsIn(entry, o) \subseteq Allocated \cup {None}
      BY <3>1, StartIs DEF AtomicStart, HeapOK, PointersOK, Sweeper
    <3>4. HoldsIn(Entry3, o) \subseteq Allocated \cup {None} BY <3>1, <3>3, HoldsLess
    <3> QED BY <1>1, <3>2, <3>4, AtomicLive
  <2> QED BY <2>1 DEF PointersOK
<1>5. ColorsOK(t) BY AtomicLive DEF ColorsOK
<1>6. HeapOK(t) BY <1>2, <1>3, <1>4, <1>5, AtomicUpvalues DEF HeapOK
<1>7. stack \subseteq LiveIn(t)
  <2>1. Main \in M2 BY MainMarked DEF M1, M2
  <2>2. Marks(entry, Main, M2) = stack BY DEF Marks
  <2>3. stack \subseteq M2 \cup {None} /\ stack \subseteq Allocated BY <2>1, <2>2, M2Closed, StartIs
  <2>4. None \notin Allocated BY StartIs, NoneIsNoThing DEF Things
  <2> QED BY <2>3, <2>4, AtomicLive DEF M3
<1>8. ToSet(ToBeFnz) \subseteq M3 BY RisenIs DEF RisenFrom, M3
<1>9. finalizable = ToSet(t.lists.finobj) \cup ToSet(t.lists.tobefnz)
  BY ToBeFnzIs, AtomicLists, StartIs
<1>10. finalizable \subseteq LiveIn(t)
  <2>1. finalizable \subseteq M3 BY <1>8, <1>9, ToBeFnzIs, AtomicLists DEF M3
  <2> QED BY <2>1, AtomicLive, StartIs
<1>11. \A o \in finalizable : kind[o] = "udata" BY DEF AtomicStart, RootsOK
<1> QED BY <1>1, <1>6, <1>7, <1>9, <1>10, <1>11 DEF RootsOK

-----------------------------------------------------------------------------
(* The invariant *)

\* The objects of g are not marked, and nothing else will lead the collector to them.
Apart(s, g) ==
  /\ \A o \in g : Unmarked(s, o)
  /\ \A o \in Things \ g : Marks(s.entry, o, Things \ g) \subseteq (Things \ g) \cup {None}
  /\ g \cap (ToSet(s.lists.finobj) \cup ToSet(s.lists.tobefnz)) = {}
  /\ \A x \in s.touched : s.entry[x].val \notin g

\* What a full collection has to free is on its way.
GarbageOK(s, state, fu, g) ==
  /\ g \subseteq AllocatedIn(s)
  /\ g # {} => fu = "collect" /\ state \in Marking \cup SweepStates
  /\ g # {} /\ state \in Marking => Apart(s, g)
  /\ g # {} /\ state \in SweepStates => \A o \in g : s.color[o] = "dead"

\* Only a finalizer interrupts a full collection, at its end.
ControlOK(state, running, fu, em) ==
  /\ running \in BOOLEAN /\ em \in BOOLEAN /\ fu \in {"no", "finish", "collect"}
  /\ em => fu # "no"
  /\ fu # "no" /\ ~ running /\ ~ em => state = "callfin"

\* The invariant about a heap s in the state of the collector.
StateOK(s, state, g, ga, aw) ==
  /\ IsSweeper(s) /\ HeapOK(s) /\ state \in GCStates
  /\ state \in Marking => TriOK(s, g, ga, aw)
  /\ SweepOK(s, state)

\* The inductive invariant. The roots are not dead and what is not dead refers to nothing
\* dead; marking has TriOK, sweeping SweepOK.  All that is lost when a finalizer takes
\* sweepgc out of tobefnz: nothing is said from there on.
IndInv ==
  /\ kind \in Kinds /\ strayed \in BOOLEAN
  /\ OnTrack => /\ ControlOK(gcstate, gcrunning, full, emergency)
                /\ gray \cup grayagain \cup allweak \subseteq Things
                /\ StateOK(Sweeper, gcstate, gray, grayagain, allweak)
                /\ RootsOK(Sweeper, stack, finalizable)
                /\ GarbageOK(Sweeper, gcstate, full, garbage)

\* The operators read the kinds, and Marks the stack.

\* The traversals read the kinds and, for the main thread, the stack.
LEMMA MarksNext ==
  ASSUME kind' = kind, kind \in Kinds, NEW e, NEW o \in Things, NEW X,
         o # Main \/ stack' = stack
  PROVE  /\ Marks(e, o, X)' = Marks(e, o, X)
         /\ MarksEarly(e, o, X)' = MarksEarly(e, o, X)
         /\ IsOpenIn(e, o)' <=> IsOpenIn(e, o)
<1>1. IsOpenIn(e, o)' <=> IsOpenIn(e, o) BY DEF IsOpenIn
<1>2. Marks(e, o, X)' = Marks(e, o, X)
  <2>1. CASE o = Main BY <2>1 DEF Marks
  <2>2. CASE o # Main
    <3>1. kind[o] \in {"table", "weakv", "ephemeron", "allweak", "udata", "lclosure", "thread"}
      BY <2>2, KindOf DEF Things
    <3>2. kind'[o] = kind[o] OBVIOUS
    <3>3. CASE kind[o] = "table" BY <2>2, <3>2, <3>3 DEF Marks
    <3>4. CASE kind[o] = "udata" BY <2>2, <3>2, <3>4 DEF Marks
    <3>5. CASE kind[o] = "thread" BY <2>2, <3>2, <3>5 DEF Marks
    <3>6. CASE kind[o] = "weakv" BY <2>2, <3>2, <3>6 DEF Marks
    <3>7. CASE kind[o] = "ephemeron" BY <2>2, <3>2, <3>7 DEF Marks
    <3>8. CASE kind[o] = "allweak" BY <2>2, <3>2, <3>8 DEF Marks
    <3>9. CASE kind[o] = "lclosure" BY <2>2, <3>2, <3>9 DEF Marks, UpvalValue
    <3> QED BY <3>1, <3>3, <3>4, <3>5, <3>6, <3>7, <3>8, <3>9
  <2> QED BY <2>1, <2>2
<1> QED BY <1>1, <1>2 DEF MarksEarly

\* An invariant of the record t is the next one of the variables if t is what they become.
LEMMA HeapNext ==
  ASSUME NEW t, HeapOK(t), t = Sweeper', kind' = kind
  PROVE  HeapOK(Sweeper)'
<1>1. SweeperOK(Sweeper)' BY DEF HeapOK, SweeperOK
<1>2. FreeOK(Sweeper)' BY DEF HeapOK, FreeOK, AllocatedIn
<1>3. UpvaluesOK(Sweeper)' BY DEF HeapOK, UpvaluesOK, AllocatedIn
<1>4. \A o : HoldsIn(Sweeper.entry, o)' = HoldsIn(t.entry, o) BY DEF HoldsIn, UpvalValue
<1>5. PointersOK(Sweeper)' BY <1>4 DEF HeapOK, PointersOK, LiveIn, AllocatedIn
<1>6. ColorsOK(Sweeper)' BY DEF HeapOK, ColorsOK, StaysGray
<1> QED BY <1>1, <1>2, <1>3, <1>5, <1>6 DEF HeapOK

\* The same for the roots.
LEMMA RootsNext ==
  ASSUME NEW t, NEW st, NEW fin, RootsOK(t, st, fin), t = Sweeper', st = stack', fin = finalizable',
         kind' = kind
  PROVE  RootsOK(Sweeper, stack, finalizable)'
BY DEF RootsOK, LiveIn, AllocatedIn

\* The same for the tricolor invariant.
LEMMA TriNext ==
  ASSUME NEW t, NEW g, NEW ga, NEW aw, TriOK(t, g, ga, aw), t = Sweeper', kind' = kind, kind \in Kinds,
         g = gray', ga = grayagain', aw = allweak'
  PROVE  TriOK(Sweeper, gray, grayagain, allweak)'
<1>1. \A o \in Objects : o \in Things /\ o # Main BY NoneIsNoThing DEF Things
<1>2. ASSUME NEW o \in Objects
      PROVE  /\ MarksEarly(Sweeper.entry, o, {})' = MarksEarly(t.entry, o, {})
             /\ IsOpenIn(Sweeper.entry, o)' <=> IsOpenIn(t.entry, o)
  <2>1. t.entry = entry' /\ Sweeper.entry = entry BY DEF Sweeper
  <2>2. /\ MarksEarly(entry, o, {})' = MarksEarly(t.entry, o, {})
        /\ IsOpenIn(entry, o)' <=> IsOpenIn(t.entry, o)
    BY <1>1, <2>1, MarksNext
  <2> QED BY <2>1, <2>2 DEF Sweeper
<1>3. \A o \in Objects : BlackOK(t, o, {}) => BlackOK(Sweeper, o, {})'
  BY <1>2 DEF BlackOK, Unmarked
<1> QED BY <1>3 DEF TriOK, TriCore, Unmarked

\* The same for the sweep.
LEMMA SweepNext ==
  ASSUME NEW t, NEW state, SweepOK(t, state), t = Sweeper', state = gcstate'
  PROVE  SweepOK(Sweeper, gcstate)'
<1>1. \A l : SweptSomewhere(t, l) => SweptSomewhere(Sweeper, l)' BY DEF SweptSomewhere, Swept
<1>2. \A S : AllWhite(t, S) => AllWhite(Sweeper, S)' BY DEF AllWhite
<1> QED BY <1>1, <1>2 DEF SweepOK

\* The same for what a full collection owes.
LEMMA GarbageNext ==
  ASSUME NEW t, NEW state, NEW fu, NEW g, GarbageOK(t, state, fu, g), t = Sweeper',
         state = gcstate', fu = full', g = garbage', kind' = kind, kind \in Kinds,
         g = {} \/ stack' = stack
  PROVE  GarbageOK(Sweeper, gcstate, full, garbage)'
<1>1. \A o \in Things : g # {} => Marks(Sweeper.entry, o, Things \ garbage)' = Marks(t.entry, o, Things \ g)
  BY MarksNext
<1>2. g # {} /\ Apart(t, g) => Apart(Sweeper, garbage)' BY <1>1 DEF Apart, Unmarked
<1> QED BY <1>2 DEF GarbageOK, AllocatedIn

\* The same for the heap in the state of the collector.
LEMMA StateNext ==
  ASSUME NEW t, NEW state, NEW g, NEW ga, NEW aw, StateOK(t, state, g, ga, aw),
         t = Sweeper', state = gcstate', g = gray', ga = grayagain', aw = allweak',
         kind' = kind, kind \in Kinds
  PROVE  StateOK(Sweeper, gcstate, gray, grayagain, allweak)'
<1>1. HeapOK(t) => HeapOK(Sweeper)' BY HeapNext
<1>2. SweepOK(t, state) => SweepOK(Sweeper, gcstate)' BY SweepNext
<1>3. TriOK(t, g, ga, aw) => TriOK(Sweeper, gray, grayagain, allweak)' BY TriNext
<1>4. IsSweeper(t) => IsSweeper(Sweeper)' BY DEF IsSweeper
<1> QED BY <1>1, <1>2, <1>3, <1>4 DEF StateOK

\* What the invariant says of the variables.
LEMMA InvFacts ==
  ASSUME IndInv, OnTrack
  PROVE  /\ lists \in Lists /\ OnePlace(lists) /\ color \in [Things -> Colors]
         /\ entry \in [Objects -> Entries] /\ sweepgc \in Values \cup {Header}
         /\ AllocatedIn(Sweeper) = Allocated /\ Allocated \subseteq Objects
         /\ LiveIn(Sweeper) = {o \in Allocated : color[o] # "dead"}
         /\ stack \cup finalizable \subseteq LiveIn(Sweeper)
         /\ finalizable = ToSet(lists.finobj) \cup ToSet(lists.tobefnz)
<1>1. HeapOK(Sweeper) /\ RootsOK(Sweeper, stack, finalizable) BY DEF IndInv, StateOK
<1>2. /\ lists \in Lists /\ OnePlace(lists) /\ color \in [Things -> Colors]
      /\ entry \in [Objects -> Entries] /\ sweepgc \in Values \cup {Header}
  BY <1>1 DEF HeapOK, SweeperOK, Sweeper
<1>3. AllocatedIn(Sweeper) = Allocated BY DEF AllocatedIn, Allocated, Sweeper
<1>4. Allocated \subseteq Objects
  <2>1. Sweeper.lists \in Lists BY <1>2 DEF Sweeper
  <2> QED BY <1>3, <2>1, AllocatedType
<1>5. LiveIn(Sweeper) = {o \in Allocated : color[o] # "dead"} BY <1>3 DEF LiveIn, Sweeper
<1>6. /\ stack \cup finalizable \subseteq LiveIn(Sweeper)
      /\ finalizable = ToSet(lists.finobj) \cup ToSet(lists.tobefnz)
  BY <1>1 DEF RootsOK, Sweeper
<1> QED BY <1>2, <1>3, <1>4, <1>5, <1>6

\* The invariant says that the types are right.
LEMMA InvType ==
  ASSUME IndInv, OnTrack
  PROVE  TypeOK
<1>1. HeapOK(Sweeper) BY DEF IndInv, StateOK
<1>2. /\ touched \subseteq openupval /\ openupval \cup twups \subseteq Allocated
      /\ \A t \in openupval \ twups : color[t] = "dead"
  <2>1. /\ touched \subseteq openupval
        /\ \A t \in openupval \cup twups : t \in AllocatedIn(Sweeper)
        /\ \A t \in openupval \ twups : color[t] = "dead"
    BY <1>1 DEF HeapOK, UpvaluesOK, Sweeper
  <2> QED BY <2>1, InvFacts
<1>3. ASSUME NEW o \in Allocated
      PROVE  Cardinality({n \in DOMAIN lists : o \in ToSet(lists[n])}) = 1
  <2>1. DOMAIN lists = ListNames BY InvFacts DEF Lists
  <2>2. PICK n \in ListNames : o \in ToSet(lists[n]) BY <2>1, <1>3 DEF Allocated
  <2>3. \A m \in ListNames : o \in ToSet(lists[m]) => m = n BY <2>2, InvFacts DEF OnePlace
  <2>4. {m \in DOMAIN lists : o \in ToSet(lists[m])} = {n} BY <2>1, <2>2, <2>3
  <2> QED BY <2>4, FS_Singleton
<1>4. garbage \subseteq Allocated BY InvFacts DEF IndInv, GarbageOK
<1>5. stack \subseteq Allocated BY InvFacts
<1>6. color \in [Things -> {"white", "dead", "gray", "black"}] BY InvFacts DEF Colors
<1>7. entry \in [Objects -> [key : Values, val : Values]] BY InvFacts DEF Entries
<1>8. gcstate \in {"pause", "propagate", "atomic", "swpend", "callfin"} \cup DOMAIN NextSweep
  BY SweepStatesIs DEF IndInv, StateOK, GCStates, Marking
<1>9. /\ gcrunning \in BOOLEAN /\ full \in {"no", "finish", "collect"} /\ emergency \in BOOLEAN
      /\ strayed \in BOOLEAN /\ kind \in Kinds
      /\ gray \cup grayagain \cup allweak \subseteq Things
  BY DEF IndInv, ControlOK
<1> QED BY <1>2, <1>3, <1>4, <1>5, <1>6, <1>7, <1>8, <1>9, InvFacts DEF TypeOK

\* What the program can get at is not dead, by the pointers of what is not dead.
LEMMA AccessibleLives ==
  ASSUME IndInv, OnTrack
  PROVE  Accessible \subseteq LiveIn(Sweeper)
<1> DEFINE L == LiveIn(Sweeper)
           Y == L \ stack
<1>1. stack \subseteq L /\ L \subseteq Objects BY InvFacts
<1>2. None \notin L /\ L \subseteq Things BY <1>1, NoneIsNoThing DEF Things
<1>3. \A o \in L : Holds(o) \subseteq L \cup {None}
  <2>1. PointersOK(Sweeper) BY DEF IndInv, StateOK, HeapOK
  <2> QED BY <2>1 DEF PointersOK, HoldsIn, Holds, Sweeper
<1> HIDE DEF L
<1>4. UNION {Holds(o) : o \in (Y \cup (stack \ {None})) \cap Objects} \subseteq Y \cup stack \cup {None}
  BY <1>1, <1>2, <1>3
<1>5. Y \in SUBSET (Things \ stack) BY <1>2
<1>6. \A o \in Accessible : o \in stack \/ o \in Y BY <1>4, <1>5 DEF Accessible, Closure
<1> QED BY <1>1, <1>6 DEF L

\* The invariant says that nothing accessible is freed.
LEMMA InvAccessible ==
  ASSUME IndInv
  PROVE  NothingAccessibleIsFreed
BY AccessibleLives, InvFacts DEF NothingAccessibleIsFreed

\* The invariant says that no black object points to a white one while marking.
LEMMA InvTricolor ==
  ASSUME IndInv
  PROVE  TricolorInvariant
<1> SUFFICES ASSUME OnTrack, keepinvariant PROVE TricolorInvariant BY DEF TricolorInvariant
<1>1. TriOK(Sweeper, gray, grayagain, allweak) BY DEF keepinvariant, IndInv, StateOK, Marking
<1>2. Allocated \subseteq Objects /\ Objects \subseteq Things BY InvFacts DEF Things
<1>3. /\ \A o \in Things : color[o] = "gray" <=> o \in gray \cup grayagain \cup allweak
      /\ gray \cap grayagain = {} /\ gray \cap allweak = {} /\ grayagain \cap allweak = {}
      /\ \A o \in Objects : color[o] = "black" =>
           \A v \in MarksEarly(entry, o, {}) \ {None} : ~ White(v)
  BY <1>1 DEF TriOK, TriCore, BlackOK, Unmarked, White, Sweeper
<1> QED BY <1>2, <1>3 DEF TricolorInvariant

\* The invariant says that all objects are white when the sweep has ended.
LEMMA InvWhite ==
  ASSUME IndInv, OnTrack
  PROVE  WhiteWhenSweepEnds
<1> SUFFICES ASSUME gcstate \in {"callfin", "pause"}, NEW o \in Allocated \cup {Main}
             PROVE  color[o] = "white"
  BY DEF WhiteWhenSweepEnds
<1>1. SweepOK(Sweeper, gcstate) BY DEF IndInv, StateOK
<1>2. \A n \in ListNames : AllWhite(Sweeper, ToSet(lists[n])) BY <1>1 DEF SweepOK, SweptLists, Sweeper
<1>3. color[Main] = "white" BY <1>1 DEF SweepOK, Sweeper
<1>4. DOMAIN lists = ListNames BY InvFacts DEF Lists
<1> QED BY <1>2, <1>3, <1>4 DEF Allocated, AllWhite, Sweeper

\* The invariant says that a full collection owes nothing when it is over.
LEMMA InvFull ==
  ASSUME IndInv, OnTrack
  PROVE  FullCollectionFrees
BY DEF IndInv, GarbageOK, FullCollectionFrees

-----------------------------------------------------------------------------
(* What is marked is allocated, and what is garbage is not marked *)

\* A traversal marks only what the object holds.
LEMMA MarksHolds ==
  ASSUME kind \in Kinds, NEW o \in Objects, NEW e, NEW X
  PROVE  Marks(e, o, X) \subseteq HoldsIn(e, o) /\ MarksEarly(e, o, X) \subseteq HoldsIn(e, o)
<1>1. o # Main BY NoneIsNoThing
<1>2. kind[o] \in {"table", "weakv", "ephemeron", "allweak", "udata", "lclosure", "thread"} BY KindOf
<1>3. Marks(e, o, X) \subseteq HoldsIn(e, o) BY <1>1, <1>2 DEF Marks, HoldsIn
<1> QED BY <1>3 DEF MarksEarly

\* The state while marking.
MarkingNow ==
  /\ kind \in Kinds /\ HeapOK(Sweeper) /\ stack \subseteq LiveIn(Sweeper)
  /\ \A o \in Things : color[o] # "dead"

\* The state while marking, part by part.
LEMMA MarkingFacts ==
  ASSUME MarkingNow
  PROVE  /\ lists \in Lists /\ OnePlace(lists) /\ color \in [Things -> Colors]
         /\ entry \in [Objects -> Entries] /\ sweepgc \in Values \cup {Header}
         /\ Allocated \subseteq Objects /\ Allocated = AllocatedIn(Sweeper)
         /\ LiveIn(Sweeper) = Allocated /\ EntriesOK(entry)
         /\ stack \subseteq Allocated
<1>1. HeapOK(Sweeper) /\ kind \in Kinds BY DEF MarkingNow
<1>2. /\ lists \in Lists /\ OnePlace(lists) /\ color \in [Things -> Colors]
      /\ entry \in [Objects -> Entries] /\ sweepgc \in Values \cup {Header}
  BY <1>1 DEF HeapOK, SweeperOK, Sweeper
<1>3. AllocatedIn(Sweeper) = Allocated BY DEF AllocatedIn, Allocated, Sweeper
<1>4. Allocated \subseteq Objects
  <2>1. Sweeper.lists \in Lists BY <1>2 DEF Sweeper
  <2> QED BY <1>3, <2>1, AllocatedType
<1>5. \A o \in Allocated : Sweeper.color[o] # "dead"
  BY <1>4 DEF MarkingNow, Sweeper, Things
<1>6. LiveIn(Sweeper) = Allocated BY <1>3, <1>5 DEF LiveIn
<1>7. stack \subseteq Allocated BY <1>6 DEF MarkingNow
<1>8. EntriesOK(entry) BY <1>1, <1>2, <1>4, <1>7 DEF EntriesOK
<1> QED BY <1>2, <1>3, <1>4, <1>6, <1>7, <1>8

\* What an allocated object marks is allocated.
LEMMA MarksLive ==
  ASSUME MarkingNow, NEW o \in Allocated \cup {Main}, NEW X
  PROVE  /\ Marks(entry, o, X) \subseteq Allocated \cup {None}
         /\ MarksEarly(entry, o, X) \subseteq Allocated \cup {None}
<1>1. CASE o = Main
  <2>1. Marks(entry, o, X) = stack BY <1>1 DEF Marks
  <2>2. MarksEarly(entry, o, X) = stack BY <1>1, <2>1 DEF MarksEarly, IsOpenIn
  <2> QED BY <2>1, <2>2, MarkingFacts
<1>2. CASE o \in Allocated
  <2>1. o \in LiveIn(Sweeper) /\ o \in Objects /\ kind \in Kinds
    BY <1>2, MarkingFacts DEF MarkingNow
  <2>2. HoldsIn(entry, o) \subseteq Allocated \cup {None}
    <3>1. PointersOK(Sweeper) BY DEF MarkingNow, HeapOK
    <3>2. HoldsIn(Sweeper.entry, o) \subseteq LiveIn(Sweeper) \cup {None} BY <2>1, <3>1 DEF PointersOK
    <3>3. Sweeper.entry = entry BY DEF Sweeper
    <3> QED BY <3>2, <3>3, MarkingFacts
  <2> QED BY <2>1, <2>2, MarksHolds
<1> QED BY <1>1, <1>2

\* What reallymarkobject marks is allocated.
LEMMA ChainLive ==
  ASSUME MarkingNow, NEW c, NEW S, S \subseteq Allocated \cup {Main, None}
  PROVE  Chain(c, S) \subseteq Allocated \cup {Main}
<1> DEFINE Z == Allocated \cup {Main}
<1>1. Z \subseteq Things /\ None \notin Things /\ Allocated \subseteq Objects
  BY MarkingFacts, NoneIsNoThing DEF Things
<1>2. S \cap WhiteIn(c) \subseteq Z BY <1>1 DEF WhiteIn
<1>3. ASSUME NEW o \in Z, IsUdata(o) PROVE entry[o].val \in Z \cup {None}
  <2>1. o # Main /\ kind[o] = "udata" /\ o \in Allocated BY <1>3 DEF IsUdata
  <2>2. Marks(entry, o, {}) = {entry[o].val} BY <2>1 DEF Marks
  <2> QED BY <2>1, <2>2, MarksLive
<1>4. S \subseteq Things \cup {None} /\ entry \in [Objects -> Entries]
  BY <1>1, MarkingFacts DEF Things
<1>5. \A X \in SUBSET Things :
        /\ S \cap WhiteIn(c) \subseteq X
        /\ \A o \in X : IsUdata(o) => entry[o].val \in X \cup {None}
        => Chain(c, S) \subseteq X
  BY <1>4, ChainIs
<1> HIDE DEF Z
<1>6. Chain(c, S) \subseteq Z BY <1>1, <1>2, <1>3, <1>5
<1> QED BY <1>6 DEF Z

\* reallymarkobject marks no garbage.
LEMMA ChainApart ==
  ASSUME MarkingNow, NEW g, Apart(Sweeper, g), NEW c, NEW S, S \subseteq (Things \ g) \cup {None}
  PROVE  Chain(c, S) \cap g = {}
<1> DEFINE Z == Things \ g
<1>1. S \cap WhiteIn(c) \subseteq Z BY NoneIsNoThing DEF WhiteIn
<1>2. ASSUME NEW o \in Z, IsUdata(o) PROVE entry[o].val \in Z \cup {None}
  <2>1. o # Main /\ kind[o] = "udata" BY <1>2 DEF IsUdata
  <2>2. Marks(entry, o, Z) = {entry[o].val} BY <2>1 DEF Marks
  <2>3. Marks(entry, o, Z) \subseteq Z \cup {None} BY DEF Apart, Sweeper
  <2> QED BY <2>2, <2>3
<1>3. S \subseteq Things \cup {None} /\ entry \in [Objects -> Entries] BY MarkingFacts
<1>4. \A Y \in SUBSET Things :
        /\ S \cap WhiteIn(c) \subseteq Y
        /\ \A o \in Y : IsUdata(o) => entry[o].val \in Y \cup {None}
        => Chain(c, S) \subseteq Y
  BY ONLY <1>3, ChainIs
<1>5. Chain(c, S) \subseteq Z BY <1>1, <1>2, <1>4
<1> QED BY <1>5

\* A step that kills nothing and leaves the lists keeps the roots.
LEMMA RootsSame ==
  ASSUME NEW s, NEW t, NEW st, NEW fin, RootsOK(s, st, fin), LiveIn(t) = LiveIn(s), t.lists = s.lists
  PROVE  RootsOK(t, st, fin)
BY DEF RootsOK

\* The fields of the heap after a step.
LEMMA SweeperIs ==
  ASSUME NEW t, t = Sweeper'
  PROVE  /\ IsSweeper(t) /\ t.lists = lists' /\ t.sweepgc = sweepgc' /\ t.color = color'
         /\ t.entry = entry' /\ t.openupval = openupval' /\ t.touched = touched' /\ t.twups = twups'
BY DEF IsSweeper, Sweeper

\* The fields of the heap before it.
LEMMA SweeperNow ==
  /\ IsSweeper(Sweeper) /\ Sweeper.lists = lists /\ Sweeper.sweepgc = sweepgc
  /\ Sweeper.color = color /\ Sweeper.entry = entry /\ Sweeper.openupval = openupval
  /\ Sweeper.touched = touched /\ Sweeper.twups = twups
BY DEF IsSweeper, Sweeper

\* Marking colors what is allocated and kills nothing; t is the heap after it.
LEMMA MarkHeap ==
  ASSUME MarkingNow, NEW c, c \in [Things -> Colors],
         \A o \in Things : c[o] = color[o] \/ (o \in Allocated \cup {Main} /\ c[o] \in {"gray", "black"}),
         \A o \in Things : StaysGray(o) => c[o] # "black",
         NEW S, S \subseteq Allocated \cup {Main, None},
         NEW t, t.color = Paint(c, Chain(c, S)), t.touched \subseteq t.openupval,
         Same(Sweeper, t), t.lists = lists, t.sweepgc = sweepgc
  PROVE  HeapOK(t) /\ LiveIn(t) = LiveIn(Sweeper) /\ AllocatedIn(t) = Allocated
<1> DEFINE W == Chain(c, S)
<1>1. W \subseteq Allocated \cup {Main} BY ChainLive
<1>2. t.color = [o \in Things |-> IF o \notin W THEN c[o] ELSE IF IsUdata(o) THEN "black" ELSE "gray"]
  BY DEF Paint
<1> HIDE DEF W
<1>3. t.color \in [Things -> Colors] BY <1>2 DEF Colors
<1>4. \A o \in Things : t.color[o] # "dead" BY <1>2 DEF MarkingNow
<1>5. \A o \in Objects \ Allocated : t.color[o] = "white"
  <2>1. \A o \in Objects \ Allocated : o \in Things /\ o # Main BY NoneIsNoThing DEF Things
  <2>2. \A o \in Objects \ Allocated : color[o] = "white"
    BY MarkingFacts, SweeperNow DEF MarkingNow, HeapOK, FreeOK
  <2> QED BY <1>1, <1>2, <2>1, <2>2
<1>6. \A o \in Things : StaysGray(o) => t.color[o] # "black"
  <2>1. \A o \in Things : StaysGray(o) => ~ IsUdata(o) BY DEF StaysGray, IsUdata
  <2> QED BY <1>2, <2>1
<1>7. AllocatedIn(t) = AllocatedIn(Sweeper) BY SweeperNow DEF AllocatedIn
<1>8. Recolors(Sweeper, t)
  BY <1>3, <1>4, <1>5, <1>6, <1>7, MarkingFacts, SweeperNow DEF Recolors, MarkingNow
<1> QED BY <1>7, <1>8, MarkingFacts, HeapRecolor DEF MarkingNow

\* Marking that leaves the garbage white leaves it apart.
LEMMA ApartMark ==
  ASSUME NEW s, NEW t, NEW g, Apart(s, g), t.entry = s.entry, t.lists = s.lists,
         \A x \in t.touched : t.entry[x].val \notin g, \A o \in g : Unmarked(t, o)
  PROVE  Apart(t, g)
BY DEF Apart

\* What a full collection finds unreachable when it starts its cycle.
LEMMA UnreachableIs ==
  ASSUME MarkingNow, touched \subseteq openupval, openupval \subseteq Allocated,
         \A x \in openupval : kind[x] = "thread",
         \A o \in Things : White(o)
  PROVE  Unreachable \subseteq Allocated /\ Apart(Sweeper, Unreachable) /\ Main \notin Unreachable
<1> DEFINE R == {Main} \cup ToSet(lists.finobj) \cup ToSet(lists.tobefnz)
                  \cup {entry[x].val : x \in touched \cap openupval}
           T == Traverse(R, {}, entry, TRUE)
           A == Allocated \cup {Main}
           U == Things \ Unreachable
<1>0. /\ Allocated \subseteq Objects /\ EntriesOK(entry) /\ lists \in Lists
      /\ Main \notin Objects /\ None \notin Things /\ kind \in Kinds
  BY MarkingFacts, NoneIsNoThing DEF EntriesOK
<1>1. A \subseteq Things BY <1>0 DEF Things
<1>2. ASSUME NEW x \in openupval PROVE entry[x].val \in Allocated \cup {None}
  <2>1. x # Main /\ x \in Allocated /\ kind[x] = "thread" BY <1>0, <1>2
  <2>2. Marks(entry, x, {}) = {entry[x].val} BY <2>1 DEF Marks
  <2> QED BY <2>1, <2>2, MarksLive
<1>3. R \subseteq A \cup {None}
  <2>1. ToSet(lists.finobj) \cup ToSet(lists.tobefnz) \subseteq Allocated
    BY <1>0 DEF Allocated, Lists, ListNames
  <2> QED BY <1>2, <2>1
<1>4. R \subseteq Things \cup {None} BY <1>1, <1>3
<1>5. /\ R \ {None} \subseteq T /\ T \subseteq Things
      /\ \A o \in T : MarksAt(entry, o, T \cup {}, TRUE) \subseteq T \cup {} \cup {None}
      /\ \A Z \in SUBSET Things :
              /\ R \ {None} \subseteq Z
              /\ \A o \in Z : MarksAt(entry, o, Z \cup {}, TRUE) \subseteq Z \cup {} \cup {None}
              => T \subseteq Z
  <2> HIDE DEF R
  <2> QED BY <1>0, <1>4, TraverseIs
<1>6. Unreachable = Allocated \ T BY DEF Unreachable
<1>7. ToSet(lists.finobj) \cup ToSet(lists.tobefnz) \subseteq R /\ Main \in R
      /\ \A x \in touched : entry[x].val \in R
  OBVIOUS
<1> HIDE DEF R, T
<1>8. T \cup {} = T OBVIOUS
<1>9. \A o \in T : Marks(entry, o, T) \subseteq T \cup {None} BY <1>5, <1>8 DEF MarksAt
<1>10. \A o \in A : MarksAt(entry, o, A \cup {}, TRUE) \subseteq A \cup {} \cup {None}
  BY MarksLive DEF MarksAt
<1>11. T \subseteq A
  <2> HIDE DEF A
  <2> QED BY <1>1, <1>3, <1>5, <1>10
<1>12. ASSUME NEW o \in U PROVE Marks(entry, o, U) \subseteq U \cup {None}
  <2>1. CASE o \in T
    <3>1. Marks(entry, o, U) = Marks(entry, o, T)
      <4>1. CASE o = Main BY <4>1 DEF Marks
      <4>2. CASE o # Main /\ kind[o] = "ephemeron"
        <5>1. o \in Allocated BY <1>11, <2>1, <4>2
        <5>2. HoldsIn(entry, o) \subseteq Allocated \cup {None}
          <6>1. PointersOK(Sweeper) BY DEF MarkingNow, HeapOK
          <6> QED BY <5>1, <6>1, MarkingFacts, SweeperNow DEF PointersOK
        <5>3. entry[o].key \in Allocated \cup {None} BY <4>2, <5>2 DEF HoldsIn
        <5>4. entry[o].key \in U \cup {None} <=> entry[o].key \in T \cup {None}
          BY <1>0, <1>1, <1>5, <1>6, <5>3
        <5> QED BY <4>2, <5>4 DEF Marks
      <4>3. CASE o # Main /\ kind[o] # "ephemeron"
        <5>1. o \in Objects BY <1>0, <1>11, <2>1, <4>3
        <5>2. kind[o] \in {"table", "weakv", "allweak", "udata", "lclosure", "thread"}
          BY <1>0, <4>3, <5>1, KindOf
        <5> QED BY <4>3, <5>2 DEF Marks
      <4> QED BY <4>1, <4>2, <4>3
    <3> QED BY <1>5, <1>6, <1>9, <2>1, <3>1
  <2>2. CASE o \notin T
    <3>1. Main \in T BY <1>0, <1>5, <1>7 DEF Things
    <3>2. o \in Objects \ Allocated BY <1>6, <2>2, <3>1 DEF Things
    <3>3. entry[o] = Nothing
      BY <3>2, MarkingFacts, SweeperNow DEF MarkingNow, HeapOK, FreeOK
    <3>4. Nothing.key = None /\ Nothing.val = None BY DEF Nothing
    <3>5. HoldsIn(entry, o) \subseteq {None} BY <3>3, <3>4 DEF HoldsIn, UpvalValue
    <3>6. Marks(entry, o, U) \subseteq HoldsIn(entry, o) BY <1>0, <3>2, MarksHolds
    <3> QED BY <3>5, <3>6
  <2> QED BY <2>1, <2>2
<1>13. \A o \in Unreachable : Unmarked(Sweeper, o)
  BY <1>0, <1>6 DEF White, Unmarked, Sweeper, Things
<1>14. Unreachable \cap (ToSet(lists.finobj) \cup ToSet(lists.tobefnz)) = {}
  BY <1>0, <1>1, <1>3, <1>5, <1>6, <1>7
<1>15. \A x \in touched : entry[x].val \notin Unreachable
  BY <1>0, <1>1, <1>5, <1>6, <1>7
<1>16. Main \notin Unreachable BY <1>0, <1>6
<1> QED BY <1>6, <1>12, <1>13, <1>14, <1>15, <1>16, SweeperNow DEF Apart

-----------------------------------------------------------------------------
(* The steps of the collector *)

\* Nothing is claimed once sweepgc has strayed.
LEMMA OffTrack ==
  ASSUME IndInv, ~ OnTrack, kind' = kind, strayed' \in BOOLEAN, strayed => strayed'
  PROVE  IndInv'
BY DEF IndInv, OnTrack

\* No object is given to its finalizer.
NothingNew == ToSet(lists'.tobefnz) \subseteq ToSet(lists.tobefnz)

\* The invariant after a step, from its parts.
LEMMA InvNext ==
  ASSUME IndInv, kind' = kind, strayed' \in BOOLEAN,
         ControlOK(gcstate', gcrunning', full', emergency'),
         gray' \cup grayagain' \cup allweak' \subseteq Things,
         NEW t, t = Sweeper', StateOK(t, gcstate', gray', grayagain', allweak'),
         RootsOK(t, stack', finalizable'), GarbageOK(t, gcstate', full', garbage'),
         garbage' = {} \/ stack' = stack
  PROVE  IndInv'
<1>1. kind \in Kinds /\ kind' \in Kinds BY DEF IndInv
<1>2. StateOK(Sweeper, gcstate, gray, grayagain, allweak)' BY <1>1, StateNext
<1>3. RootsOK(Sweeper, stack, finalizable)' BY RootsNext
<1>4. GarbageOK(Sweeper, gcstate, full, garbage)' BY <1>1, GarbageNext
<1>5. ControlOK(gcstate, gcrunning, full, emergency)' BY DEF ControlOK
<1> QED BY <1>1, <1>2, <1>3, <1>4, <1>5 DEF IndInv

\* On track the lists are swept from sweepgc on.
LEMMA RunsOn ==
  ASSUME IndInv, OnTrack
  PROVE  ~ strayed /\ SweepOK(Sweeper, gcstate)
BY DEF IndInv, StateOK, OnTrack

\* Without dead objects the collector may mark.
LEMMA MarkingStart ==
  ASSUME IndInv, OnTrack, \A o \in Things : color[o] # "dead"
  PROVE  MarkingNow
BY InvFacts DEF IndInv, StateOK, MarkingNow

\* Between two cycles all objects are white.
LEMMA PausedWhite ==
  ASSUME IndInv, OnTrack, gcstate \in {"callfin", "pause"}
  PROVE  \A o \in Things : color[o] = "white"
<1>1. SweepOK(Sweeper, gcstate) BY RunsOn
<1>2. \A n \in ListNames : AllWhite(Sweeper, ToSet(lists[n]))
  BY <1>1, SweeperNow DEF SweepOK, SweptLists
<1>3. color[Main] = "white" BY <1>1, SweeperNow DEF SweepOK
<1>4. \A o \in Allocated : color[o] = "white"
  BY <1>2, InvFacts, SweeperNow DEF AllWhite, Allocated, Lists
<1>5. \A o \in Objects \ Allocated : color[o] = "white"
  BY InvFacts, SweeperNow DEF IndInv, StateOK, HeapOK, FreeOK
<1> QED BY <1>3, <1>4, <1>5 DEF Things

\* restartcollection keeps the invariant; a full collection owes what is then unreachable.
LEMMA StartStep ==
  ASSUME IndInv, OnTrack, StartCollection
  PROVE  IndInv'
<1> DEFINE S == {Main} \cup ToSet(lists.tobefnz)
           W == Chain(color, S)
<1>0. PICK t : t = Sweeper' OBVIOUS
<1>1. /\ CollectorRuns /\ gcstate = "pause" /\ color' = Paint(color, W) /\ gray' = Listed(W)
      /\ grayagain' = {} /\ allweak' = {} /\ gcstate' = "propagate"
      /\ full' = IF full = "finish" THEN "collect" ELSE full
      /\ garbage' = IF full = "finish" THEN Unreachable ELSE garbage
      /\ kind' = kind /\ entry' = entry /\ stack' = stack /\ openupval' = openupval
      /\ touched' = touched /\ twups' = twups /\ lists' = lists /\ finalizable' = finalizable
      /\ sweepgc' = sweepgc /\ gcrunning' = gcrunning /\ emergency' = emergency
      /\ strayed' = strayed
  BY DEF StartCollection, heap, upvalues
<1>2. \A o \in Things : color[o] = "white" BY <1>1, PausedWhite
<1>3. MarkingNow BY <1>2, MarkingStart
<1>4. S \subseteq Allocated \cup {Main, None} /\ S \subseteq Things \cup {None}
  <2>1. ToSet(lists.tobefnz) \subseteq Allocated BY InvFacts DEF Allocated, Lists, ListNames
  <2> QED BY <2>1, MarkingFacts, <1>3, NoneIsNoThing DEF Things
<1>5. Same(Sweeper, t) /\ t.lists = lists /\ t.sweepgc = sweepgc /\ t.touched = touched
      /\ t.color = Paint(color, W)
  BY <1>0, <1>1, SweeperIs, SweeperNow DEF Same
<1>6. HeapOK(Sweeper) /\ RootsOK(Sweeper, stack, finalizable) /\ ~ strayed
      /\ SweepOK(Sweeper, "pause")
  BY <1>1, RunsOn DEF IndInv, StateOK
<1>7. touched \subseteq openupval /\ openupval \subseteq Allocated /\ \A x \in openupval : kind[x] = "thread"
  BY <1>6, InvFacts, SweeperNow DEF HeapOK, UpvaluesOK
<1> HIDE DEF S
<1>8. HeapOK(t) /\ LiveIn(t) = LiveIn(Sweeper) /\ AllocatedIn(t) = Allocated
  <2>1. \A o \in Things : StaysGray(o) => color[o] # "black" BY <1>2
  <2>2. color \in [Things -> Colors] /\ t.touched \subseteq t.openupval
    BY <1>5, <1>7, InvFacts, SweeperNow DEF Same
  <2> QED BY <1>3, <1>4, <1>5, <2>1, <2>2, MarkHeap
<1>9. TriCore(Sweeper, {}, {}, {}, S) BY <1>2, SweeperNow DEF TriCore, Things
<1>10. /\ TriCore(t, {} \cup Listed(W), {}, {}, {})
       /\ \A o \in S \ {None} : ~ Unmarked(t, o)
  <2>1. Marked(Sweeper, t, S) BY <1>5, SweeperNow DEF Marked, Same
  <2>2. /\ entry \in [Objects -> Entries] /\ Sweeper.entry \in [Objects -> Entries]
        /\ Sweeper.color \in [Things -> Colors] /\ kind \in Kinds
    BY InvFacts, SweeperNow DEF IndInv
  <2> QED BY <1>4, <1>9, <2>1, <2>2, MarkStep, SweeperNow
<1>11. TriOK(t, gray', grayagain', allweak')
  <2>1. Main \in W
    <3>1. Main \in S \cap WhiteIn(color) BY <1>2, NoneIsNoThing DEF S, WhiteIn
    <3>2. entry \in [Objects -> Entries] BY InvFacts
    <3> QED BY <1>4, <3>1, <3>2, ChainIs
  <2>2. t.color[Main] = "gray" BY <1>5, <2>1, NoneIsNoThing DEF Paint, IsUdata
  <2>3. \A o \in ToSet(t.lists.tobefnz) : ~ Unmarked(t, o)
    <3>1. ToSet(lists.tobefnz) \subseteq Objects BY InvFacts, ListFacts, SetOfSeq
    <3>2. None \notin Objects BY NoneIsNoThing DEF Things
    <3> QED BY <1>5, <1>10, <3>1, <3>2 DEF S
  <2>4. {} \cup Listed(W) = Listed(W) OBVIOUS
  <2> QED BY <1>1, <1>10, <2>2, <2>3, <2>4 DEF TriOK
<1>12. SweepOK(t, gcstate')
  BY <1>1, <1>5, <1>6, SweeperNow DEF SweepOK, SweepStates
<1>13. StateOK(t, gcstate', gray', grayagain', allweak')
  BY <1>0, <1>1, <1>6, <1>8, <1>11, <1>12, SweeperIs DEF StateOK, GCStates, Marking
<1>14. RootsOK(t, stack', finalizable') BY <1>1, <1>5, <1>6, <1>8, RootsSame, SweeperNow
<1>15. GarbageOK(t, gcstate', full', garbage')
  <2>1. CASE full = "finish"
    <3>1. \A o \in Things : White(o) BY <1>2 DEF White
    <3>2. Unreachable \subseteq Allocated /\ Apart(Sweeper, Unreachable) /\ Main \notin Unreachable
      BY <1>3, <1>7, <3>1, UnreachableIs
    <3> DEFINE g == Unreachable
    <3> HIDE DEF g
    <3>3. g \subseteq Allocated /\ Apart(Sweeper, g) /\ Main \notin g BY <3>2 DEF g
    <3>4. S \subseteq (Things \ g) \cup {None}
      BY <1>4, <3>3 DEF S, Apart, Sweeper
    <3>5. W \cap g = {} BY <1>3, <3>3, <3>4, ChainApart
    <3>6. \A o \in g : Unmarked(t, o)
      BY <1>2, <1>3, <1>5, <3>3, <3>5, MarkingFacts DEF Paint, Unmarked, Things
    <3>7. \A x \in t.touched : t.entry[x].val \notin g
      BY <1>5, <3>3, SweeperNow DEF Apart, Same
    <3>8. Apart(t, g) BY <1>5, <3>3, <3>6, <3>7, ApartMark, SweeperNow DEF Same
    <3>9. full' = "collect" /\ gcstate' = "propagate" /\ garbage' = g BY <1>1, <2>1 DEF g
    <3> QED BY <1>8, <3>3, <3>8, <3>9 DEF GarbageOK, Marking, SweepStates
  <2>2. CASE full # "finish"
    <3>1. garbage = {} BY <1>1 DEF IndInv, GarbageOK, Marking, SweepStates
    <3>2. garbage' = {} BY <1>1, <2>2, <3>1
    <3> QED BY <3>2 DEF GarbageOK
  <2> QED BY <2>1, <2>2
<1>16. ControlOK(gcstate', gcrunning', full', emergency')
  BY <1>1 DEF IndInv, ControlOK, CollectorRuns
<1>17. gray' \cup grayagain' \cup allweak' \subseteq Things BY <1>1, <1>10 DEF TriCore
<1>18. strayed' \in BOOLEAN BY <1>1 DEF IndInv
<1> QED BY <1>0, <1>1, <1>13, <1>14, <1>15, <1>16, <1>17, <1>18, InvNext

\* What the traversal of o marks is not garbage, and may be marked.
LEMMA PropagateFrom ==
  ASSUME MarkingNow, NEW o \in Things, ~ White(o), NEW X
  PROVE  MarksEarly(entry, o, X) \subseteq Allocated \cup {Main, None} /\ o \in Allocated \cup {Main}
<1>1. o \in Allocated \cup {Main}
  <2>1. \A x \in Objects \ Allocated : color[x] = "white"
    BY MarkingFacts, SweeperNow DEF MarkingNow, HeapOK, FreeOK
  <2> QED BY <2>1 DEF Things, White
<1> QED BY <1>1, MarksLive

\* Propagate marks no garbage.
LEMMA PropagateApart ==
  ASSUME MarkingNow, NEW g, g \subseteq Allocated, Apart(Sweeper, g), NEW o \in Things, ~ White(o)
  PROVE  /\ MarksEarly(entry, o, {x \in Things : ~ White(x)}) \subseteq (Things \ g) \cup {None}
         /\ IsOpen(o) => entry[entry[o].key].val \notin g
<1> DEFINE U == Things \ g
           N == {x \in Things : ~ White(x)}
<1>1. N \subseteq U /\ o \in U BY DEF Apart, Unmarked, White, Sweeper
<1>2. Marks(entry, o, U) \subseteq U \cup {None} BY <1>1, SweeperNow DEF Apart
<1>3. MarksAt(entry, o, N, TRUE) \subseteq MarksAt(entry, o, U, TRUE)
  BY <1>1, MarksMonotone, MarkingFacts
<1>4. Marks(entry, o, N) \subseteq U \cup {None} BY <1>2, <1>3 DEF MarksAt
<1>5. MarksEarly(entry, o, N) \subseteq U \cup {None} BY <1>4 DEF MarksEarly
<1>6. IsOpen(o) => entry[entry[o].key].val \notin g
  <2> SUFFICES ASSUME IsOpen(o) PROVE entry[entry[o].key].val \notin g OBVIOUS
  <2>1. o # Main /\ kind[o] = "lclosure" /\ entry[o].key # None BY DEF IsOpen, IsOpenIn
  <2>2. Marks(entry, o, U) = {entry[entry[o].key].val} BY <2>1 DEF Marks, UpvalValue
  <2>3. entry[entry[o].key].val \in U \cup {None} BY <1>2, <2>2
  <2>4. None \notin g
    BY NoneIsNoThing, MarkingFacts DEF Things
  <2> QED BY <2>3, <2>4
<1> QED BY <1>5, <1>6

\* propagatemark keeps the invariant.
LEMMA PropagateStep ==
  ASSUME IndInv, OnTrack, Propagate
  PROVE  IndInv'
<1>0. PICK t : t = Sweeper' OBVIOUS
<1>1. PICK o \in gray :
        LET c == [color EXCEPT ![o] = IF StaysGray(o) THEN "gray" ELSE "black"]
            W == Chain(c, MarksEarly(entry, o, {x \in Things : ~ White(x)}))
            weak == o # Main /\ kind[o] = "allweak"
        IN /\ color' = Paint(c, W)
           /\ gray' = (gray \ {o}) \cup Listed(W)
           /\ grayagain' = IF StaysGray(o) /\ ~ weak THEN grayagain \cup {o} ELSE grayagain
           /\ allweak' = IF weak THEN allweak \cup {o} ELSE allweak
           /\ touched' = IF IsOpen(o) THEN touched \cup {entry[o].key} ELSE touched
  BY DEF Propagate
<1>2. /\ CollectorRuns /\ gcstate = "propagate"
      /\ gcstate' = IF gray' = {} THEN "atomic" ELSE gcstate
      /\ kind' = kind /\ entry' = entry /\ stack' = stack /\ openupval' = openupval
      /\ twups' = twups /\ lists' = lists /\ finalizable' = finalizable
      /\ sweepgc' = sweepgc /\ gcrunning' = gcrunning /\ full' = full /\ emergency' = emergency
      /\ garbage' = garbage /\ strayed' = strayed
  BY DEF Propagate, heap, control, history
<1> DEFINE c == [color EXCEPT ![o] = IF StaysGray(o) THEN "gray" ELSE "black"]
           S == MarksEarly(entry, o, {x \in Things : ~ White(x)})
           W == Chain(c, S)
           weak == o # Main /\ kind[o] = "allweak"
           s == [Sweeper EXCEPT !.color = c, !.touched = touched']
<1>3. /\ color' = Paint(c, W)
      /\ gray' = (gray \ {o}) \cup Listed(W)
      /\ grayagain' = IF StaysGray(o) /\ ~ weak THEN grayagain \cup {o} ELSE grayagain
      /\ allweak' = IF weak THEN allweak \cup {o} ELSE allweak
      /\ touched' = IF IsOpen(o) THEN touched \cup {entry[o].key} ELSE touched
  BY <1>1
<1>4. /\ TriOK(Sweeper, gray, grayagain, allweak) /\ HeapOK(Sweeper) /\ ~ strayed /\ kind \in Kinds
      /\ SweepOK(Sweeper, "propagate") /\ RootsOK(Sweeper, stack, finalizable)
      /\ GarbageOK(Sweeper, gcstate, full, garbage)
  BY <1>2, RunsOn DEF IndInv, StateOK, Marking
<1>5. /\ gray \cup grayagain \cup allweak \subseteq Things
      /\ gray \cap grayagain = {} /\ gray \cap allweak = {} /\ grayagain \cap allweak = {}
      /\ \A x \in Things : color[x] = "gray" <=> x \in gray \cup grayagain \cup allweak
      /\ \A x \in allweak : x # Main /\ kind[x] = "allweak"
      /\ \A x \in Things : color[x] # "dead"
      /\ \A x \in Objects : color[x] = "black" => BlackOK(Sweeper, x, {})
      /\ color[Main] = "gray"
      /\ \A x \in ToSet(lists.tobefnz) : ~ Unmarked(Sweeper, x)
  BY <1>4, SweeperNow DEF TriOK, TriCore
<1>6. MarkingNow BY <1>5, MarkingStart
<1>7. o \in Things /\ color[o] = "gray" /\ ~ White(o) BY <1>5 DEF White
<1>8. S \subseteq Allocated \cup {Main, None} /\ o \in Allocated \cup {Main} BY <1>6, <1>7, PropagateFrom
<1>9. Allocated \subseteq Objects /\ color \in [Things -> Colors] BY InvFacts
<1>10. /\ c \in [Things -> Colors] /\ c[o] = IF StaysGray(o) THEN "gray" ELSE "black"
       /\ \A x \in Things \ {o} : c[x] = color[x]
  BY <1>7, <1>9 DEF Colors
<1>11. /\ s.color = c /\ s.touched = touched' /\ s.entry = entry
  BY DEF Sweeper
<1>12. Same(Sweeper, t) /\ t.lists = lists /\ t.sweepgc = sweepgc /\ t.touched = touched'
      /\ t.color = Paint(c, W) /\ t.entry = entry
  BY <1>0, <1>2, <1>3, SweeperIs, SweeperNow DEF Same
<1>13. touched' \subseteq openupval
  <2>1. touched \subseteq openupval BY <1>4, SweeperNow DEF HeapOK, UpvaluesOK
  <2>2. IsOpen(o) => entry[o].key \in openupval
    BY <1>4, <1>7, SweeperNow DEF IsOpen, IsOpenIn, HeapOK, UpvaluesOK, Things
  <2> QED BY <1>3, <2>1, <2>2
<1> HIDE DEF c, S, s
<1>14. \A x \in Things : StaysGray(x) => c[x] # "black"
  <2>1. \A x \in Things : StaysGray(x) => color[x] # "black"
    BY <1>4, SweeperNow DEF HeapOK, ColorsOK
  <2> QED BY <1>10, <2>1
<1>15. HeapOK(t) /\ LiveIn(t) = LiveIn(Sweeper) /\ AllocatedIn(t) = Allocated
  <2>1. \A x \in Things : c[x] = color[x] \/ (x \in Allocated \cup {Main} /\ c[x] \in {"gray", "black"})
    BY <1>8, <1>10
  <2>2. t.touched \subseteq t.openupval BY <1>12, <1>13, SweeperNow DEF Same
  <2> QED BY <1>6, <1>8, <1>10, <1>12, <1>14, <2>1, <2>2, MarkHeap
<1>16. S \subseteq Things \cup {None} /\ S \subseteq HoldsIn(entry, o) \cup stack
  <2>1. S \subseteq Things \cup {None} BY <1>8, <1>9, NoneIsNoThing DEF Things
  <2>2. o = Main => S \subseteq stack BY DEF S, MarksEarly, Marks, IsOpenIn
  <2>3. o # Main => o \in Objects BY <1>7 DEF Things
  <2> QED BY <1>4, <2>1, <2>2, <2>3, MarksHolds DEF S
<1>17. \A x \in Things : Unmarked(s, x) <=> Unmarked(Sweeper, x)
  BY <1>7, <1>10, <1>11, SweeperNow DEF Unmarked
<1>18. ASSUME NEW x \in Objects, c[x] = "black" PROVE BlackOK(s, x, S)
  <2>0. x \in Things BY DEF Things
  <2>1. CASE x = o
    <3>1. ~ StaysGray(o) BY <1>10, <1>18, <2>1
    <3>2. o # Main /\ kind[o] \in {"table", "udata", "lclosure"}
      BY <1>4, <2>1, <3>1, KindOf DEF StaysGray
    <3>3. MarksEarly(entry, o, {}) = S BY <3>2 DEF S, MarksEarly, Marks
    <3>4. IsOpenIn(entry, o) => entry[o].key \in touched' BY <1>3 DEF IsOpen
    <3> QED BY <1>11, <2>1, <3>3, <3>4 DEF BlackOK
  <2>2. CASE x # o
    <3>1. BlackOK(Sweeper, x, {}) BY <1>5, <1>10, <1>18, <2>0, <2>2
    <3>2. touched \subseteq touched' BY <1>3
    <3>3. MarksEarly(entry, x, {}) \subseteq Things \cup {None}
      <4>1. MarksEarly(entry, x, {}) \subseteq Values BY <1>4, InvFacts, MarksEarlyType
      <4> QED BY <4>1 DEF Values, Things
    <3> QED BY <1>11, <1>17, <3>1, <3>2, <3>3, SweeperNow DEF BlackOK
  <2> QED BY <2>1, <2>2
<1>19. TriCore(s, gray \ {o}, grayagain', allweak', S)
  <2>1. grayagain' \cup allweak' \cup (gray \ {o}) \subseteq Things BY <1>3, <1>5, <1>7
  <2>2. (gray \ {o}) \cap grayagain' = {} /\ (gray \ {o}) \cap allweak' = {} /\ grayagain' \cap allweak' = {}
    BY <1>1, <1>3, <1>5
  <2>3. weak => StaysGray(o) BY DEF StaysGray
  <2>4. \A x \in Things : c[x] = "gray" <=> x \in (gray \ {o}) \cup grayagain' \cup allweak'
    BY <1>1, <1>3, <1>5, <1>10, <2>3
  <2>5. \A x \in allweak' : x # Main /\ kind[x] = "allweak" BY <1>3, <1>5
  <2>6. \A x \in Things : c[x] # "dead" BY <1>5, <1>10
  <2> QED BY <1>11, <1>18, <2>1, <2>2, <2>4, <2>5, <2>6 DEF TriCore
<1>20. /\ TriCore(t, (gray \ {o}) \cup Listed(W), grayagain', allweak', {})
       /\ \A x \in Things : ~ Unmarked(s, x) => t.color[x] = c[x]
  <2>1. Marked(s, t, S) BY <1>11, <1>12 DEF Marked
  <2>2. entry \in [Objects -> Entries] BY InvFacts
  <2>3. s.color \in [Things -> Colors] /\ s.entry \in [Objects -> Entries] BY <1>10, <1>11, <2>2
  <2>4. \A x \in Objects : kind[x] = "udata" /\ Unmarked(s, x) => s.entry[x].val = entry[x].val BY <1>11
  <2>5. Chain(s.color, S) = W BY <1>11
  <2> HIDE DEF W
  <2>6. /\ TriCore(t, (gray \ {o}) \cup Listed(Chain(s.color, S)), grayagain', allweak', {})
        /\ \A x \in Things : ~ Unmarked(s, x) => t.color[x] = s.color[x]
    BY <1>4, <1>16, <1>19, <2>1, <2>2, <2>3, <2>4, MarkStep, ZenonT(30)
  <2> QED BY <1>11, <2>5, <2>6
<1>21. TriOK(t, gray', grayagain', allweak')
  <2>1. t.color[Main] = "gray"
    <3>1. Main \in Things /\ ~ Unmarked(s, Main)
      BY <1>5, <1>17, NoneIsNoThing, SweeperNow DEF Unmarked
    <3>2. c[Main] = "gray" BY <1>5, <1>10, <3>1 DEF StaysGray
    <3> QED BY <1>20, <3>1, <3>2
  <2>2. \A x \in ToSet(t.lists.tobefnz) : ~ Unmarked(t, x)
    <3>1. ToSet(lists.tobefnz) \subseteq Things BY InvFacts, ListFacts, SetOfSeq DEF Things
    <3>2. \A x \in ToSet(lists.tobefnz) : ~ Unmarked(s, x) BY <1>5, <1>17, <3>1
    <3>3. \A x \in ToSet(lists.tobefnz) : t.color[x] = s.color[x] BY <1>11, <1>20, <3>1, <3>2
    <3> QED BY <1>12, <3>2, <3>3 DEF Unmarked
  <2> QED BY <1>3, <1>20, <2>1, <2>2 DEF TriOK
<1>22. gcstate' \in Marking BY <1>2 DEF Marking
<1>23. SweepOK(t, gcstate')
  <2>1. sweepgc = None BY <1>4, SweeperNow DEF SweepOK, SweepStates
  <2> QED BY <1>2, <1>12, <2>1 DEF SweepOK, SweepStates
<1>24. StateOK(t, gcstate', gray', grayagain', allweak')
  BY <1>0, <1>2, <1>4, <1>15, <1>21, <1>22, <1>23, SweeperIs DEF StateOK, GCStates
<1>25. RootsOK(t, stack', finalizable') BY <1>2, <1>4, <1>12, <1>15, RootsSame, SweeperNow
<1>26. GarbageOK(t, gcstate', full', garbage')
  <2>1. CASE garbage = {} BY <1>2, <2>1 DEF GarbageOK
  <2>2. CASE garbage # {}
    <3>1. garbage \subseteq Allocated /\ Apart(Sweeper, garbage) /\ full = "collect"
      BY <1>2, <1>4, <2>2, InvFacts DEF GarbageOK, Marking
    <3>2. S \subseteq (Things \ garbage) \cup {None} /\ (IsOpen(o) => entry[entry[o].key].val \notin garbage)
      BY <1>6, <1>7, <3>1, PropagateApart DEF S
    <3>3. W \cap garbage = {} BY <1>6, <3>1, <3>2, ChainApart
    <3>4. \A x \in garbage : Unmarked(t, x)
      <4>1. \A x \in garbage : Unmarked(Sweeper, x) /\ x \in Things
        BY <1>9, <3>1 DEF Apart, Things
      <4>2. \A x \in garbage : t.color[x] = c[x] BY <1>12, <3>3, <4>1 DEF Paint
      <4> QED BY <1>11, <1>17, <4>1, <4>2 DEF Unmarked
    <3>5. \A x \in t.touched : t.entry[x].val \notin garbage
      BY <1>3, <1>12, <3>1, <3>2, SweeperNow DEF Apart
    <3>6. Apart(t, garbage) BY <1>12, <3>1, <3>4, <3>5, ApartMark, SweeperNow
    <3> QED BY <1>2, <1>15, <1>22, <3>1, <3>6 DEF GarbageOK, Marking, SweepStates
  <2> QED BY <2>1, <2>2
<1>27. ControlOK(gcstate', gcrunning', full', emergency')
  BY <1>2 DEF IndInv, ControlOK, CollectorRuns
<1>28. gray' \cup grayagain' \cup allweak' \subseteq Things BY <1>21 DEF TriOK, TriCore
<1>29. strayed' \in BOOLEAN BY <1>2 DEF IndInv
<1> QED BY <1>0, <1>2, <1>24, <1>25, <1>26, <1>27, <1>28, <1>29, InvNext

\* Becomes, field by field.
LEMMA BecomesIs ==
  ASSUME NEW r, IsSweeper(r), Becomes(r), NEW t, t = Sweeper'
  PROVE  t = r /\ garbage' = garbage \cap AllocatedIn(r) /\ strayed' = strayed
<1>1. /\ t.lists = r.lists /\ t.sweepgc = r.sweepgc /\ t.color = r.color /\ t.entry = r.entry
      /\ t.openupval = r.openupval /\ t.touched = r.touched /\ t.twups = r.twups
  BY SweeperIs DEF Becomes
<1>2. IsSweeper(t) BY SweeperIs
<1>3. t = r BY <1>1, <1>2 DEF IsSweeper
<1> QED BY <1>3 DEF Becomes, AllocatedIn

\* What is garbage is not marked in the atomic phase.
LEMMA AtomicApart ==
  ASSUME AtomicStart, MarkingNow, NEW g, g \subseteq Allocated, Apart(Sweeper, g)
  PROVE  M3 \cap g = {}
<1> DEFINE U == Things \ g
<1>1. \A o \in U : Marks(entry, o, U) \subseteq U \cup {None} BY SweeperNow DEF Apart
<1>2. \A o \in U : MarksEarly(entry, o, U) \subseteq U \cup {None} BY <1>1 DEF MarksEarly
<1>3. \A o \in g : White(o) BY DEF Apart, Unmarked, White, Sweeper
<1>4. M0 \subseteq U BY <1>3 DEF M0
<1>5. /\ gray \cup grayagain \cup allweak \subseteq U
  <2>1. /\ gray \cup grayagain \cup allweak \subseteq Things
        /\ \A o \in gray \cup grayagain \cup allweak : color[o] = "gray"
    BY SweeperNow DEF AtomicStart, TriOK, TriCore
  <2> QED BY <1>3, <2>1 DEF White
<1>6. None \notin g /\ g \subseteq Things /\ Allocated \subseteq Objects /\ kind \in Kinds
  BY NoneIsNoThing, MarkingFacts DEF Things, MarkingNow
<1> HIDE DEF U
<1>7. U \in SUBSET Things BY DEF U
<1>8. U \cup M0 = U BY <1>4
<1>9. Early \subseteq U BY <1>2, <1>5, <1>7, <1>8, EarlyIs
<1>10. M1 \subseteq U /\ U \cup M1 = U BY <1>4, <1>9 DEF M1
<1>11. \A x \in Touched1 : entry[x].val \notin g
  <2>1. \A x \in touched : entry[x].val \notin g BY SweeperNow DEF Apart
  <2>2. ASSUME NEW f \in Early, IsOpen(f) PROVE entry[entry[f].key].val \notin g
    <3>1. f # Main /\ kind[f] = "lclosure" /\ entry[f].key # None BY <2>2 DEF IsOpen, IsOpenIn
    <3>2. Marks(entry, f, U) = {entry[entry[f].key].val} BY <3>1 DEF Marks, UpvalValue
    <3>3. entry[entry[f].key].val \in U \cup {None} BY <1>1, <1>9, <2>2, <3>2 DEF U
    <3> QED BY <1>6, <3>3 DEF U
  <2> QED BY <2>1, <2>2 DEF Touched1
<1>12. LateFrom \subseteq U
  <2>1. Remark \cap g = {} BY <1>11 DEF Remark
  <2>2. Again \subseteq U BY <1>9 DEF Again
  <2>3. LateFrom \subseteq Things BY LateIs
  <2> QED BY <1>5, <2>1, <2>2, <2>3 DEF LateFrom, U
<1>13. \A o \in U : Marks(entry, o, U \cup M1) \subseteq U \cup M1 \cup {None} BY <1>1, <1>10 DEF U
<1>14. Late \subseteq U BY <1>7, <1>12, <1>13, LateIs
<1>15. M2 \subseteq U /\ U \cup M2 = U BY <1>10, <1>14 DEF M2
<1>16. Before \subseteq U BY <1>5, <1>9, <1>14 DEF Before
<1>17. RisenFrom \subseteq U
  <2>1. ToSet(ToBeFnz) \cap g = {} BY ToBeFnzIs, SweeperNow DEF Apart
  <2>2. RisenFrom \subseteq Things BY RisenIs
  <2> QED BY <1>16, <2>1, <2>2 DEF RisenFrom, WeakIn, U
<1>18. ASSUME NEW o \in U PROVE Marks(Entry2, o, U) \subseteq U \cup {None}
  <2>0. EntriesOK(entry) BY MarkingFacts
  <2>1. CASE o = Main
    <3>1. Marks(Entry2, o, U) = Marks(entry, o, U) BY <2>1 DEF Marks
    <3> QED BY <1>1, <1>18, <3>1 DEF U
  <2>2. CASE o # Main
    <3>0. o \in Objects BY <1>18, <2>2 DEF U, Things
    <3>1. CASE kind[o] \in {"weakv", "allweak"}
      <4>1. Entry2[o] = entry[o] \/ Entry2[o] = Nothing BY <2>0, <3>0, Entry2Is
      <4>2. Nothing.key = None BY DEF Nothing
      <4>3. CASE kind[o] = "allweak"
        <5>1. Marks(Entry2, o, U) = {} BY <2>2, <4>3 DEF Marks
        <5> QED BY <5>1
      <4>4. CASE kind[o] = "weakv"
        <5>1. Marks(Entry2, o, U) = {Entry2[o].key} /\ Marks(entry, o, U) = {entry[o].key}
          BY <2>2, <4>4 DEF Marks
        <5>2. Marks(entry, o, U) \subseteq U \cup {None} BY <1>1, <1>18 DEF U
        <5> QED BY <4>1, <4>2, <5>1, <5>2
      <4> QED BY <3>1, <4>3, <4>4
    <3>2. CASE kind[o] = "lclosure"
      <4>1. \A x \in Objects : kind[x] \notin {"weakv", "allweak"} => Entry2[x] = entry[x] BY <2>0, Entry2Is
      <4>2. entry[o].key \in openupval \cup {None}
        BY <3>0, <3>2, SweeperNow DEF AtomicStart, HeapOK, UpvaluesOK
      <4>3. \A x \in openupval : x \in Objects /\ kind[x] = "thread" BY StartIs
      <4>4. UpvalValue(Entry2, o) = UpvalValue(entry, o) BY <3>0, <3>2, <4>1, <4>2, <4>3 DEF UpvalValue
      <4>5. Marks(Entry2, o, U) = {UpvalValue(Entry2, o)} /\ Marks(entry, o, U) = {UpvalValue(entry, o)}
        BY <2>2, <3>2 DEF Marks
      <4> QED BY <1>1, <1>18, <4>4, <4>5 DEF U
    <3>3. CASE kind[o] \notin {"weakv", "allweak", "lclosure"}
      <4>1. Entry2[o] = entry[o] BY <2>0, <3>0, <3>3, Entry2Is
      <4>2. kind[o] \in {"table", "ephemeron", "udata", "thread"} BY <1>6, <3>0, <3>3, KindOf
      <4>3. Marks(Entry2, o, U) = Marks(entry, o, U) BY <2>2, <4>1, <4>2 DEF Marks
      <4> QED BY <1>1, <1>18, <4>3 DEF U
    <3> QED BY <3>1, <3>2, <3>3
  <2> QED BY <2>1, <2>2
<1>19. Risen \subseteq U BY <1>7, <1>15, <1>17, <1>18, RisenIs
<1> QED BY <1>15, <1>19 DEF M3, U

\* A step of a sweep keeps what is not dead, and frees some of what is.
LEMMA SweptGarbage ==
  ASSUME NEW s, NEW r, NEW n, KeepsHeap(s, r, n), NEW g, g \cap LiveIn(s) = {}
  PROVE  \A o \in g \cap AllocatedIn(r) : r.color[o] = "dead"
BY DEF KeepsHeap, LiveIn

\* The atomic phase, with the entry into the sweep, keeps the invariant.
LEMMA AtomicStepOK ==
  ASSUME IndInv, OnTrack, AtomicStep
  PROVE  IndInv'
<1>0. PICK t : t = Sweeper' OBVIOUS
<1>1. PICK a : a = Atomic OBVIOUS
<1>2. PICK r : r = EnterSweep(a) OBVIOUS
<1>3. /\ CollectorRuns /\ gcstate = "atomic" /\ Becomes(r) /\ gcstate' = "swpallgc"
      /\ gray' = {} /\ grayagain' = {} /\ allweak' = {}
      /\ kind' = kind /\ stack' = stack /\ finalizable' = finalizable
      /\ gcrunning' = gcrunning /\ full' = full /\ emergency' = emergency
  BY <1>1, <1>2 DEF AtomicStep, control
<1>4. /\ AtomicStart /\ ~ strayed /\ kind \in Kinds /\ GarbageOK(Sweeper, gcstate, full, garbage)
  BY <1>3, RunsOn DEF IndInv, StateOK, Marking, AtomicStart
<1>5. MarkingNow
  BY <1>4, MarkingStart, SweeperNow DEF AtomicStart, TriOK, TriCore
<1>6. IsSweeper(a) /\ HeapOK(a) /\ RootsOK(a, stack, finalizable) BY <1>1, <1>4, AtomicOK
<1>7. SweepsOn(a, r, "allgc") /\ SweepOK(r, "swpallgc") BY <1>2, <1>4, <1>6, EnterSweepOK
<1>8. IsSweeper(r) /\ KeepsHeap(a, r, "allgc") BY <1>7 DEF SweepsOn
<1>9. t = r /\ garbage' = garbage \cap AllocatedIn(r) /\ strayed' = strayed
  BY <1>0, <1>3, <1>8, BecomesIs
<1>10. StateOK(t, gcstate', gray', grayagain', allweak')
  BY <1>3, <1>4, <1>7, <1>8, <1>9 DEF StateOK, KeepsHeap, GCStates, Marking, SweepStates
<1>11. RootsOK(t, stack', finalizable')
  <2>1. "allgc" \in ListNames BY DEF ListNames
  <2> QED BY <1>3, <1>6, <1>8, <1>9, <2>1, KeptRoots
<1>12. GarbageOK(t, gcstate', full', garbage')
  <2>1. CASE garbage = {}
    <3>1. garbage' = {} BY <1>9, <2>1
    <3> QED BY <3>1 DEF GarbageOK
  <2>2. CASE garbage # {}
    <3>1. garbage \subseteq Allocated /\ Apart(Sweeper, garbage) /\ full = "collect"
      BY <1>3, <1>4, <2>2, InvFacts DEF GarbageOK, Marking
    <3>2. M3 \cap garbage = {} BY <1>4, <1>5, <3>1, AtomicApart
    <3>3. garbage \cap LiveIn(a) = {} BY <1>1, <1>4, <3>2, AtomicLive
    <3>4. \A o \in garbage' : t.color[o] = "dead" BY <1>8, <1>9, <3>3, SweptGarbage
    <3> QED BY <1>3, <1>9, <3>1, <3>4 DEF GarbageOK, SweepStates, Marking
  <2> QED BY <2>1, <2>2
<1>13. ControlOK(gcstate', gcrunning', full', emergency')
  BY <1>3 DEF IndInv, ControlOK, CollectorRuns
<1>14. strayed' \in BOOLEAN /\ gray' \cup grayagain' \cup allweak' \subseteq Things
  BY <1>3, <1>9 DEF IndInv
<1> QED BY <1>0, <1>3, <1>10, <1>11, <1>12, <1>13, <1>14, InvNext

\* A step of the sweep keeps the invariant, and finalizes nothing.
LEMMA SweepStep ==
  ASSUME IndInv, OnTrack, Sweep
  PROVE  IndInv' /\ NothingNew
<1>0. PICK t : t = Sweeper' OBVIOUS
<1>1. PICK u : u = IF sweepgc = None THEN Sweeper ELSE SweepOne(Sweeper, gcstate) OBVIOUS
<1>2. PICK r : r = IF u.sweepgc = None /\ gcstate # "swptobefnz" THEN [u EXCEPT !.sweepgc = Header]
                   ELSE u
  OBVIOUS
<1>3. /\ CollectorRuns /\ gcstate \in SweepStates /\ Becomes(r)
      /\ gcstate' = IF u.sweepgc = None THEN NextSweep[gcstate] ELSE gcstate
      /\ gray' = gray /\ grayagain' = grayagain /\ allweak' = allweak
      /\ kind' = kind /\ stack' = stack /\ finalizable' = finalizable
      /\ gcrunning' = gcrunning /\ full' = full /\ emergency' = emergency
  BY <1>1, <1>2, SweepStatesIs DEF Sweep, control, marking
<1>4. /\ HeapOK(Sweeper) /\ ~ strayed /\ kind \in Kinds /\ SweepOK(Sweeper, gcstate)
      /\ GarbageOK(Sweeper, gcstate, full, garbage) /\ RootsOK(Sweeper, stack, finalizable)
  BY <1>3, RunsOn DEF IndInv, StateOK
<1>5. IsSweeper(r) /\ KeepsHeap(Sweeper, r, ListOf(gcstate)) /\ SweepOK(r, gcstate')
  <2>1. u = IF Sweeper.sweepgc = None THEN Sweeper ELSE SweepOne(Sweeper, gcstate)
    BY <1>1, SweeperNow
  <2> QED BY <1>2, <1>3, <1>4, <2>1, SweepStepOK, SweeperNow
<1>6. t = r /\ garbage' = garbage \cap AllocatedIn(r) /\ strayed' = strayed
  BY <1>0, <1>3, <1>5, BecomesIs
<1>7. gcstate' \in SweepStates \cup {"swpend"}
  BY <1>3 DEF SweepStates, NextSweep
<1>8. StateOK(t, gcstate', gray', grayagain', allweak')
  BY <1>4, <1>5, <1>6, <1>7 DEF StateOK, KeepsHeap, GCStates, Marking, SweepStates
<1>9. ListOf(gcstate) \in ListNames BY <1>3 DEF ListOf, ListNames, SweepStates
<1>10. RootsOK(t, stack', finalizable') BY <1>3, <1>4, <1>5, <1>6, <1>9, KeptRoots
<1>11. GarbageOK(t, gcstate', full', garbage')
  <2>1. CASE garbage = {}
    <3>1. garbage' = {} BY <1>6, <2>1
    <3> QED BY <3>1 DEF GarbageOK
  <2>2. CASE garbage # {}
    <3>1. full = "collect" /\ \A o \in garbage : Sweeper.color[o] = "dead"
      BY <1>3, <1>4, <2>2 DEF GarbageOK
    <3>2. garbage \cap LiveIn(Sweeper) = {} BY <3>1 DEF LiveIn
    <3>3. \A o \in garbage' : t.color[o] = "dead" BY <1>5, <1>6, <3>2, SweptGarbage
    <3>4. CASE gcstate' = "swpend"
      <4>1. \A n \in ListNames : AllWhite(t, ToSet(t.lists[n]))
        BY <1>5, <1>6, <3>4 DEF SweepOK, SweptLists
      <4>2. t.lists \in Lists BY <1>5, <1>6 DEF KeepsHeap, HeapOK, SweeperOK
      <4>3. \A o \in AllocatedIn(t) : t.color[o] = "white"
        BY <4>1, <4>2, AllocatedMember DEF AllWhite
      <4>4. garbage' = {} BY <1>6, <3>3, <4>3
      <4> QED BY <4>4 DEF GarbageOK
    <3>5. CASE gcstate' \in SweepStates
      BY <1>3, <1>6, <3>1, <3>3, <3>5 DEF GarbageOK, SweepStates, Marking
    <3> QED BY <1>7, <3>4, <3>5
  <2> QED BY <2>1, <2>2
<1>12. ControlOK(gcstate', gcrunning', full', emergency')
  BY <1>3 DEF IndInv, ControlOK, CollectorRuns
<1>13. strayed' \in BOOLEAN /\ gray' \cup grayagain' \cup allweak' \subseteq Things
  BY <1>3, <1>6 DEF IndInv
<1>14. NothingNew
  <2>1. t.lists = lists' BY <1>0, SweeperIs
  <2>2. "tobefnz" \in ListNames BY DEF ListNames
  <2> QED BY <1>4, <1>5, <1>6, <1>9, <2>1, <2>2, KeptLists, SweeperNow DEF NothingNew
<1> QED BY <1>0, <1>3, <1>8, <1>10, <1>11, <1>12, <1>13, <1>14, InvNext

\* The end of the sweep keeps the invariant: all lists are white and free of the dead.
LEMMA EndSweepStep ==
  ASSUME IndInv, OnTrack, EndSweep
  PROVE  IndInv'
<1>0. PICK t : t = Sweeper' OBVIOUS
<1>1. /\ CollectorRuns /\ gcstate = "swpend" /\ color' = [color EXCEPT ![Main] = "white"]
      /\ gcstate' = "callfin"
      /\ kind' = kind /\ entry' = entry /\ stack' = stack /\ openupval' = openupval
      /\ touched' = touched /\ twups' = twups /\ lists' = lists /\ finalizable' = finalizable
      /\ sweepgc' = sweepgc /\ gray' = gray /\ grayagain' = grayagain /\ allweak' = allweak
      /\ gcrunning' = gcrunning /\ full' = full /\ emergency' = emergency
      /\ garbage' = garbage /\ strayed' = strayed
  BY DEF EndSweep, heap, upvalues, marking, control, history
<1>2. /\ HeapOK(Sweeper) /\ ~ strayed /\ SweepOK(Sweeper, "swpend")
      /\ RootsOK(Sweeper, stack, finalizable) /\ GarbageOK(Sweeper, gcstate, full, garbage)
  BY <1>1, RunsOn DEF IndInv, StateOK
<1>3. Main \in Things /\ Main \notin Objects BY NoneIsNoThing
<1>4. color \in [Things -> Colors] /\ AllocatedIn(Sweeper) = Allocated /\ lists \in Lists
      /\ OnePlace(lists) /\ sweepgc \in Values \cup {Header}
  BY InvFacts
<1>5. /\ color' \in [Things -> Colors] /\ color'[Main] = "white"
      /\ \A o \in Things \ {Main} : color'[o] = color[o]
  BY <1>1, <1>3, <1>4 DEF Colors
<1>6. /\ IsSweeper(t) /\ t.lists = Sweeper.lists /\ t.sweepgc = Sweeper.sweepgc /\ t.color = color'
      /\ t.touched = Sweeper.touched /\ Same(Sweeper, t)
  BY <1>0, <1>1, SweeperIs, SweeperNow DEF Same
<1>7. AllocatedIn(t) = AllocatedIn(Sweeper) BY <1>6 DEF AllocatedIn
<1>8. Recolors(Sweeper, t)
  <2>1. /\ color[Main] # "dead" /\ touched \subseteq openupval
        /\ \A o \in Things : StaysGray(o) => color[o] # "black"
        /\ \A o \in Objects \ Allocated : color[o] = "white"
    BY <1>2, <1>4, SweeperNow DEF HeapOK, ColorsOK, UpvaluesOK, FreeOK
  <2>2. /\ \A o \in Things : t.color[o] = "dead" <=> Sweeper.color[o] = "dead"
        /\ \A o \in Things : StaysGray(o) => t.color[o] # "black"
    BY <1>5, <1>6, <2>1, SweeperNow
  <2>3. \A o \in Objects \ Allocated : t.color[o] = "white"
    BY <1>3, <1>5, <1>6, <2>1 DEF Things
  <2> QED BY <1>4, <1>5, <1>6, <1>7, <2>1, <2>2, <2>3, SweeperNow DEF Recolors, Same
<1>9. HeapOK(t) /\ LiveIn(t) = LiveIn(Sweeper) BY <1>2, <1>8, HeapRecolor
<1>10. WhiteStays(Sweeper, t) BY <1>5, <1>6, SweeperNow DEF WhiteStays
<1>11. SweepOK(t, "swpend")
  BY <1>2, <1>4, <1>6, <1>10, SweepSame, SweeperNow DEF GCStates
<1>12. SweepOK(t, "callfin")
  BY <1>5, <1>6, <1>11 DEF SweepOK, SweptLists, SweepStates
<1>13. StateOK(t, gcstate', gray', grayagain', allweak')
  BY <1>1, <1>2, <1>6, <1>9, <1>12 DEF StateOK, GCStates, Marking
<1>14. RootsOK(t, stack', finalizable') BY <1>1, <1>2, <1>6, <1>9, RootsSame
<1>15. garbage' = {} BY <1>1, <1>2 DEF GarbageOK, Marking, SweepStates
<1>16. GarbageOK(t, gcstate', full', garbage') BY <1>15 DEF GarbageOK
<1>17. ControlOK(gcstate', gcrunning', full', emergency')
  BY <1>1 DEF IndInv, ControlOK, CollectorRuns
<1>18. strayed' \in BOOLEAN /\ gray' \cup grayagain' \cup allweak' \subseteq Things
  BY <1>1 DEF IndInv
<1> QED BY <1>0, <1>1, <1>13, <1>14, <1>15, <1>16, <1>17, <1>18, InvNext

\* The end of a cycle keeps the invariant.
LEMMA EndCollectionStep ==
  ASSUME IndInv, OnTrack, EndCollection
  PROVE  IndInv'
<1>0. PICK t : t = Sweeper' OBVIOUS
<1>1. /\ CollectorRuns /\ gcstate = "callfin" /\ gcstate' = "pause"
      /\ full' = IF full = "collect" THEN "no" ELSE full
      /\ emergency' = (emergency /\ full # "collect")
      /\ kind' = kind /\ entry' = entry /\ stack' = stack /\ openupval' = openupval
      /\ touched' = touched /\ twups' = twups /\ lists' = lists /\ finalizable' = finalizable
      /\ color' = color
      /\ sweepgc' = sweepgc /\ gray' = gray /\ grayagain' = grayagain /\ allweak' = allweak
      /\ gcrunning' = gcrunning /\ garbage' = garbage /\ strayed' = strayed
  BY DEF EndCollection, heap, upvalues, marking, history
<1>2. /\ HeapOK(Sweeper) /\ ~ strayed /\ SweepOK(Sweeper, "callfin")
      /\ RootsOK(Sweeper, stack, finalizable) /\ GarbageOK(Sweeper, gcstate, full, garbage)
  BY <1>1, RunsOn DEF IndInv, StateOK
<1>3. t = Sweeper BY <1>0, <1>1 DEF Sweeper
<1>4. SweepOK(Sweeper, "pause") BY <1>2 DEF SweepOK, SweptLists, SweepStates
<1>5. StateOK(t, gcstate', gray', grayagain', allweak')
  BY <1>1, <1>2, <1>3, <1>4, SweeperNow DEF StateOK, GCStates, Marking
<1>6. RootsOK(t, stack', finalizable') BY <1>1, <1>2, <1>3
<1>7. garbage' = {} BY <1>1, <1>2 DEF GarbageOK, Marking, SweepStates
<1>8. GarbageOK(t, gcstate', full', garbage') BY <1>7 DEF GarbageOK
<1>9. ControlOK(gcstate', gcrunning', full', emergency')
  BY <1>1 DEF IndInv, ControlOK, CollectorRuns
<1>10. strayed' \in BOOLEAN /\ gray' \cup grayagain' \cup allweak' \subseteq Things
  BY <1>1 DEF IndInv
<1> QED BY <1>0, <1>1, <1>5, <1>6, <1>7, <1>8, <1>9, <1>10, InvNext

\* A step that leaves the heap and the collector where they are.
LEMMA StillStep ==
  ASSUME IndInv, OnTrack,
         lists' = lists, sweepgc' = sweepgc, color' = color, heap' = heap, upvalues' = upvalues,
         finalizable' = finalizable, gcstate' = gcstate, marking' = marking, history' = history,
         full' = full, emergency' = emergency, ControlOK(gcstate', gcrunning', full', emergency'),
         stack' \subseteq LiveIn(Sweeper), garbage = {} \/ stack' = stack
  PROVE  IndInv'
<1>0. PICK t : t = Sweeper' OBVIOUS
<1>1. /\ kind' = kind /\ entry' = entry /\ openupval' = openupval /\ touched' = touched
      /\ twups' = twups /\ gray' = gray /\ grayagain' = grayagain /\ allweak' = allweak
      /\ garbage' = garbage /\ strayed' = strayed
  BY DEF heap, upvalues, marking, history
<1>2. t = Sweeper BY <1>0, <1>1 DEF Sweeper
<1>3. StateOK(t, gcstate', gray', grayagain', allweak') BY <1>1, <1>2 DEF IndInv
<1>4. RootsOK(t, stack', finalizable') BY <1>2 DEF IndInv, RootsOK
<1>5. GarbageOK(t, gcstate', full', garbage') BY <1>1, <1>2 DEF IndInv
<1>6. strayed' \in BOOLEAN /\ gray' \cup grayagain' \cup allweak' \subseteq Things
  BY <1>1 DEF IndInv
<1>7. garbage' = {} \/ stack' = stack BY <1>1
<1> QED BY <1>0, <1>1, <1>3, <1>4, <1>5, <1>6, <1>7, InvNext

\* The return of a finalizer keeps the invariant.
LEMMA FinalizerReturnsStep ==
  ASSUME IndInv, OnTrack, FinalizerReturns
  PROVE  IndInv'
<1>1. /\ gcrunning' = TRUE /\ gcstate' = gcstate /\ full' = full /\ emergency' = emergency
      /\ stack' = stack
  BY DEF FinalizerReturns
<1>2. ControlOK(gcstate', gcrunning', full', emergency') BY <1>1 DEF IndInv, ControlOK
<1>3. stack' \subseteq LiveIn(Sweeper) BY <1>1, InvFacts
<1> QED BY <1>1, <1>2, <1>3, StillStep DEF FinalizerReturns

\* While the program runs there is no garbage left to collect.
LEMMA ProgramGarbage ==
  ASSUME IndInv, OnTrack, ProgramRuns
  PROVE  garbage = {}
BY DEF IndInv, GarbageOK, ControlOK, ProgramRuns, Marking, SweepStates

\* luaC_fullgc may start in any state: it sweeps what is marked before it marks.
LEMMA StartFullStep ==
  ASSUME IndInv, OnTrack, NEW isemergency \in BOOLEAN, StartFull(isemergency)
  PROVE  IndInv' /\ NothingNew
<1>0. PICK t : t = Sweeper' OBVIOUS
<1>1. PICK r : r = EnterSweep(Sweeper) OBVIOUS
<1>2. /\ ProgramRuns /\ full = "no" /\ (gcrunning \/ isemergency)
      /\ full' = "finish" /\ emergency' = isemergency
      /\ kind' = kind /\ stack' = stack /\ finalizable' = finalizable
      /\ gray' = gray /\ grayagain' = grayagain /\ allweak' = allweak /\ gcrunning' = gcrunning
  BY DEF StartFull, marking
<1>3. /\ HeapOK(Sweeper) /\ ~ strayed /\ SweepOK(Sweeper, gcstate) /\ kind \in Kinds
      /\ RootsOK(Sweeper, stack, finalizable)
      /\ StateOK(Sweeper, gcstate, gray, grayagain, allweak)
  BY <1>2, RunsOn DEF IndInv, StateOK
<1>4. garbage = {} BY <1>2, ProgramGarbage
<1>5. ControlOK(gcstate', gcrunning', full', emergency')
  BY <1>2 DEF IndInv, ControlOK
<1>6. gray' \cup grayagain' \cup allweak' \subseteq Things BY <1>2 DEF IndInv
<1>7. CASE keepinvariant
  <2>1. Becomes(r) /\ gcstate' = "swpallgc" BY <1>1, <1>7 DEF StartFull
  <2>2. SweepsOn(Sweeper, r, "allgc") /\ SweepOK(r, "swpallgc") BY <1>1, <1>3, EnterSweepOK, SweeperNow
  <2>3. IsSweeper(r) /\ KeepsHeap(Sweeper, r, "allgc") BY <2>2 DEF SweepsOn
  <2>4. t = r /\ garbage' = {} /\ strayed' = strayed BY <1>0, <1>4, <2>1, <2>3, BecomesIs
  <2>5. StateOK(t, gcstate', gray', grayagain', allweak')
    BY <1>3, <2>1, <2>2, <2>3, <2>4 DEF StateOK, KeepsHeap, GCStates, Marking, SweepStates
  <2>6. RootsOK(t, stack', finalizable')
    <3>1. "allgc" \in ListNames BY DEF ListNames
    <3> QED BY <1>2, <1>3, <2>3, <2>4, <3>1, KeptRoots
  <2>7. GarbageOK(t, gcstate', full', garbage') BY <2>4 DEF GarbageOK
  <2>8. strayed' \in BOOLEAN BY <2>4 DEF IndInv
  <2>9. NothingNew
    <3>1. t.lists = lists' BY <1>0, SweeperIs
    <3>2. "tobefnz" \in ListNames \ {"allgc"} BY DEF ListNames
    <3>3. lists'.tobefnz = lists.tobefnz BY <2>3, <2>4, <3>1, <3>2, SweeperNow DEF KeepsHeap
    <3> QED BY <3>3 DEF NothingNew
  <2> QED BY <1>0, <1>2, <1>5, <1>6, <2>4, <2>5, <2>6, <2>7, <2>8, <2>9, InvNext
<1>8. CASE ~ keepinvariant
  <2>1. /\ lists' = lists /\ sweepgc' = sweepgc /\ color' = color /\ entry' = entry
        /\ openupval' = openupval /\ touched' = touched /\ twups' = twups
        /\ garbage' = garbage /\ strayed' = strayed /\ gcstate' = gcstate
    BY <1>8 DEF StartFull, upvalues, history
  <2>2. t = Sweeper BY <1>0, <2>1 DEF Sweeper
  <2>3. StateOK(t, gcstate', gray', grayagain', allweak') BY <1>2, <1>3, <2>1, <2>2
  <2>4. RootsOK(t, stack', finalizable') BY <1>2, <1>3, <2>2
  <2>5. GarbageOK(t, gcstate', full', garbage') BY <1>4, <2>1 DEF GarbageOK
  <2>6. strayed' \in BOOLEAN BY <2>1 DEF IndInv
  <2>7. NothingNew BY <2>1 DEF NothingNew
  <2> QED BY <1>0, <1>2, <1>5, <1>6, <2>3, <2>4, <2>5, <2>6, <2>7, InvNext
<1> QED BY <1>7, <1>8

\* sweepgc is in tobefnz only while that list is swept.
LEMMA StraysLate ==
  ASSUME NEW s, HeapOK(s), NEW state \in GCStates, SweepOK(s, state), s.sweepgc \in ToSet(s.lists.tobefnz)
  PROVE  state = "swptobefnz"
<1>1. s.lists \in Lists /\ OnePlace(s.lists) BY DEF HeapOK, SweeperOK
<1>2. /\ s.lists.allgc \in Seq(Objects) /\ s.lists.finobj \in Seq(Objects) /\ s.lists.tobefnz \in Seq(Objects)
      /\ ToSet(s.lists.allgc) \cap ToSet(s.lists.tobefnz) = {}
      /\ ToSet(s.lists.finobj) \cap ToSet(s.lists.tobefnz) = {}
  BY <1>1, ListFacts
<1>3. s.sweepgc \in Objects BY <1>2, SetOfSeq
<1>4. s.sweepgc # None /\ s.sweepgc # Header BY <1>3, AddressAssumption
<1>5. ASSUME NEW l \in Seq(Objects), SweptSomewhere(s, l) PROVE s.sweepgc \in ToSet(l)
  <2>1. PICK p \in 0 .. Len(l) : Swept(s, l, p) BY <1>5 DEF SweptSomewhere
  <2>2. p \in DOMAIN l /\ s.sweepgc = l[p] BY <1>4, <2>1 DEF Swept
  <2> QED BY <2>2, SetOfSeq
<1>6. state \in SweepStates BY <1>4 DEF SweepOK
<1>7. SweptSomewhere(s, s.lists[ListOf(state)]) BY <1>6 DEF SweepOK
<1>8. state # "swpallgc" BY <1>2, <1>5, <1>7 DEF ListOf
<1>9. state # "swpfinobj" BY <1>2, <1>5, <1>7 DEF ListOf
<1> QED BY <1>6, <1>8, <1>9 DEF SweepStates

\* A black object of the steps of marking has no interest in the lists.
LEMMA TriSame ==
  ASSUME NEW s, NEW t, NEW g, NEW ga, NEW aw, TriOK(s, g, ga, aw), t.color = s.color,
         t.entry = s.entry, t.touched = s.touched, ToSet(t.lists.tobefnz) \subseteq ToSet(s.lists.tobefnz)
  PROVE  TriOK(t, g, ga, aw)
BY DEF TriOK, TriCore, BlackOK, Unmarked

\* GCTM keeps the invariant, or sweepgc has strayed.
LEMMA CallFinalizerStep ==
  ASSUME IndInv, OnTrack, CallFinalizer
  PROVE  IndInv' /\ NothingNew
<1>0. PICK t : t = Sweeper' OBVIOUS
<1>1. PICK o : o = Head(lists.tobefnz) OBVIOUS
<1>2. /\ CollectorRuns /\ ~ emergency /\ lists.tobefnz # << >>
      /\ IF full = "no" THEN gcstate # "pause" ELSE gcstate = "callfin"
      /\ lists' = [lists EXCEPT !.tobefnz = Tail(@), !.allgc = <<o>> \o @]
      /\ finalizable' = finalizable \ {o}
      /\ color' = IF issweepphase THEN [color EXCEPT ![o] = "white"] ELSE color
      /\ stack' = stack \cup {o}
      /\ strayed' = (strayed \/ sweepgc = o)
      /\ gcrunning' = FALSE
      /\ kind' = kind /\ entry' = entry /\ openupval' = openupval
      /\ touched' = touched /\ twups' = twups /\ gcstate' = gcstate
      /\ sweepgc' = sweepgc /\ gray' = gray /\ grayagain' = grayagain /\ allweak' = allweak
      /\ full' = full /\ emergency' = emergency /\ garbage' = garbage
  BY <1>1 DEF CallFinalizer, heap, upvalues, marking
<1>3. /\ HeapOK(Sweeper) /\ ~ strayed /\ SweepOK(Sweeper, gcstate) /\ gcstate \in GCStates
      /\ RootsOK(Sweeper, stack, finalizable) /\ GarbageOK(Sweeper, gcstate, full, garbage)
      /\ gcstate \in Marking => TriOK(Sweeper, gray, grayagain, allweak)
  BY <1>2, RunsOn DEF IndInv, StateOK
<1>4. /\ lists \in Lists /\ OnePlace(lists) /\ color \in [Things -> Colors]
      /\ sweepgc \in Values \cup {Header} /\ AllocatedIn(Sweeper) = Allocated
      /\ LiveIn(Sweeper) = {x \in Allocated : color[x] # "dead"}
      /\ stack \cup finalizable \subseteq LiveIn(Sweeper) /\ Allocated \subseteq Objects
      /\ finalizable = ToSet(lists.finobj) \cup ToSet(lists.tobefnz)
  BY InvFacts
<1>5. /\ lists' \in Lists /\ OnePlace(lists') /\ o \in ToSet(lists.tobefnz)
      /\ lists'.allgc = <<o>> \o lists.allgc /\ lists'.finobj = lists.finobj
      /\ lists'.tobefnz = Tail(lists.tobefnz)
      /\ ToSet(lists'.allgc) = {o} \cup ToSet(lists.allgc)
      /\ ToSet(lists'.tobefnz) = ToSet(lists.tobefnz) \ {o}
  <2>1. Calls(lists, lists', o) BY <1>2 DEF Calls
  <2>2. lists \in Lists /\ OnePlace(lists) /\ lists.tobefnz # << >> /\ o = Head(lists.tobefnz)
    BY <1>1, <1>2, <1>4
  <2> QED BY ONLY <2>1, <2>2, ListsCall
<1>6. /\ IsSweeper(t) /\ t.lists = lists' /\ t.sweepgc = sweepgc /\ t.color = color'
      /\ t.touched = touched /\ Same(Sweeper, t) /\ t.entry = entry
  BY <1>0, <1>2, SweeperIs, SweeperNow DEF Same
<1>7. AllocatedIn(t) = Allocated
  <2>1. AllocatedIn(t) = ToSet(lists'.allgc) \cup ToSet(lists'.finobj) \cup ToSet(lists'.tobefnz)
    BY <1>5, <1>6, AllocatedIs
  <2>2. AllocatedIn(Sweeper) = ToSet(lists.allgc) \cup ToSet(lists.finobj) \cup ToSet(lists.tobefnz)
    BY <1>4, SweeperNow, AllocatedIs
  <2> QED BY <1>4, <1>5, <2>1, <2>2
<1>8. o \in LiveIn(Sweeper) /\ o \in Objects /\ o \in Things /\ color[o] # "dead"
  BY <1>4, <1>5 DEF Things
<1>9. /\ color' \in [Things -> Colors] /\ color'[o] \in {color[o], "white"}
      /\ \A x \in Things \ {o} : color'[x] = color[x]
      /\ issweepphase => color'[o] = "white"
      /\ ~ issweepphase => color' = color
  BY <1>2, <1>4, <1>8 DEF Colors
<1>10. Recolors(Sweeper, t)
  <2>1. /\ touched \subseteq openupval
        /\ \A x \in Things : StaysGray(x) => color[x] # "black"
        /\ \A x \in Objects \ Allocated : color[x] = "white"
    BY <1>3, <1>4, SweeperNow DEF HeapOK, ColorsOK, UpvaluesOK, FreeOK
  <2>2. /\ \A x \in Things : t.color[x] = "dead" <=> Sweeper.color[x] = "dead"
        /\ \A x \in Things : StaysGray(x) => t.color[x] # "black"
    BY <1>6, <1>8, <1>9, <2>1, SweeperNow
  <2>3. \A x \in Objects \ Allocated : t.color[x] = "white"
    BY <1>4, <1>6, <1>8, <1>9, <2>1 DEF Things
  <2> QED BY <1>4, <1>5, <1>6, <1>7, <1>9, <2>1, <2>2, <2>3, SweeperNow DEF Recolors, Same
<1>11. HeapOK(t) /\ LiveIn(t) = LiveIn(Sweeper) BY <1>3, <1>10, HeapRecolor
<1>12. RootsOK(t, stack', finalizable')
  <2>1. ToSet(lists.finobj) \cap ToSet(lists.tobefnz) = {} BY <1>4, ListFacts
  <2>2. finalizable' = ToSet(t.lists.finobj) \cup ToSet(t.lists.tobefnz)
    BY <1>2, <1>4, <1>5, <1>6, <2>1
  <2>3. stack' \cup finalizable' \subseteq LiveIn(t) BY <1>2, <1>4, <1>8, <1>11
  <2>4. \A x \in finalizable' : kind[x] = "udata" BY <1>2, <1>3 DEF RootsOK
  <2> QED BY <2>2, <2>3, <2>4 DEF RootsOK
<1>13. WhiteStays(Sweeper, t) BY <1>6, <1>8, <1>9, SweeperNow DEF WhiteStays
<1>14. gcstate \notin Marking => t.color[o] = "white"
  <2>1. CASE gcstate \in {"callfin", "pause"}
    <3>1. color[o] = "white" BY <1>2, <1>8, <2>1, PausedWhite
    <3> QED BY <1>6, <1>9, <3>1
  <2>2. CASE gcstate \in SweepStates \cup {"swpend"}
    BY <1>6, <1>9, <2>2 DEF issweepphase, SweepStates
  <2> QED BY <1>3, <2>1, <2>2 DEF GCStates
<1>15. ASSUME sweepgc # o PROVE SweepOK(t, gcstate')
  <2> DEFINE s == Sweeper
  <2>1. /\ s.lists \in Lists /\ t.lists \in Lists /\ s.lists.tobefnz # << >>
        /\ o = Head(s.lists.tobefnz) /\ s.sweepgc # o
        /\ t.lists.allgc = <<o>> \o s.lists.allgc /\ t.lists.finobj = s.lists.finobj
        /\ t.lists.tobefnz = Tail(s.lists.tobefnz) /\ t.sweepgc = s.sweepgc
    BY <1>1, <1>2, <1>4, <1>5, <1>6, <1>15, SweeperNow
  <2>2. WhiteStays(s, t) /\ SweepOK(s, gcstate) /\ gcstate \in GCStates BY <1>3, <1>13
  <2> HIDE DEF s
  <2>3. SweepOK(t, gcstate) BY <1>14, <2>1, <2>2, SweepCall
  <2> QED BY <1>2, <2>3
<1>16. gcstate' \in Marking => TriOK(t, gray', grayagain', allweak')
  <2> SUFFICES ASSUME gcstate \in Marking PROVE TriOK(t, gray, grayagain, allweak) BY <1>2
  <2>1. ~ issweepphase BY DEF issweepphase, Marking
  <2>2. t.color = color BY <1>6, <1>9, <2>1
  <2> QED BY <1>3, <1>5, <1>6, <2>2, TriSame, SweeperNow
<1>17. sweepgc # o => StateOK(t, gcstate', gray', grayagain', allweak')
  BY <1>2, <1>3, <1>6, <1>11, <1>15, <1>16 DEF StateOK
<1>18. garbage' = {} BY <1>2, <1>3 DEF GarbageOK, Marking, SweepStates
<1>19. GarbageOK(t, gcstate', full', garbage') BY <1>18 DEF GarbageOK
<1>20. ControlOK(gcstate', gcrunning', full', emergency')
  BY <1>2 DEF IndInv, ControlOK, CollectorRuns
<1>21. strayed' \in BOOLEAN /\ gray' \cup grayagain' \cup allweak' \subseteq Things
  BY <1>2 DEF IndInv
<1>22. NothingNew BY <1>5 DEF NothingNew
<1>23. CASE sweepgc = o
  <2>1. IndInv' BY <1>2, <1>21, <1>23 DEF IndInv, OnTrack
  <2> QED BY <1>22, <2>1
<1>24. CASE sweepgc # o
  <2>1. IndInv' BY <1>0, <1>2, <1>12, <1>17, <1>18, <1>19, <1>20, <1>21, <1>24, InvNext
  <2> QED BY <1>22, <2>1
<1> QED BY <1>23, <1>24

-----------------------------------------------------------------------------
(* The steps of the program *)

\* The program changes neither the control of the collector nor its state.
LEMMA ProgramStep ==
  ASSUME IndInv, OnTrack, ProgramRuns, kind' = kind, strayed' = strayed, gcstate' = gcstate,
         control' = control, garbage' = {}, gray' \cup grayagain' \cup allweak' \subseteq Things,
         NEW t, t = Sweeper', HeapOK(t), SweepOK(t, gcstate),
         gcstate \in Marking => TriOK(t, gray', grayagain', allweak'),
         RootsOK(t, stack', finalizable')
  PROVE  IndInv'
<1>1. ~ strayed /\ gcstate \in GCStates /\ IsSweeper(t)
  BY RunsOn, SweeperIs DEF IndInv, StateOK
<1>2. gcrunning' = gcrunning /\ full' = full /\ emergency' = emergency BY DEF control
<1>3. StateOK(t, gcstate', gray', grayagain', allweak') BY <1>1 DEF StateOK
<1>4. GarbageOK(t, gcstate', full', garbage') BY DEF GarbageOK
<1>5. ControlOK(gcstate', gcrunning', full', emergency') BY <1>2 DEF IndInv
<1>6. strayed' \in BOOLEAN BY DEF IndInv
<1> QED BY <1>3, <1>4, <1>5, <1>6, InvNext

\* What the program starts from.
ProgramNow ==
  /\ HeapOK(Sweeper) /\ ~ strayed /\ SweepOK(Sweeper, gcstate) /\ gcstate \in GCStates
  /\ RootsOK(Sweeper, stack, finalizable) /\ kind \in Kinds
  /\ gcstate \in Marking => TriOK(Sweeper, gray, grayagain, allweak)
  /\ gray \cup grayagain \cup allweak \subseteq Things /\ garbage = {}

\* The program runs on a heap as the collector has left it.
LEMMA ProgramStart ==
  ASSUME IndInv, OnTrack, ProgramRuns
  PROVE  ProgramNow
BY RunsOn, ProgramGarbage DEF IndInv, StateOK, ProgramNow

\* The program drops a value.
LEMMA PopStep ==
  ASSUME IndInv, OnTrack, NEW o, Pop(o)
  PROVE  IndInv'
<1>1. /\ ProgramRuns /\ stack' = stack \ {o} /\ heap' = heap /\ collector' = collector
  BY DEF Pop
<1>2. /\ lists' = lists /\ sweepgc' = sweepgc /\ color' = color /\ upvalues' = upvalues
      /\ finalizable' = finalizable /\ gcstate' = gcstate /\ marking' = marking
      /\ history' = history /\ full' = full /\ emergency' = emergency /\ gcrunning' = gcrunning
  BY <1>1 DEF collector, control
<1>3. garbage = {} BY <1>1, ProgramGarbage
<1>4. ControlOK(gcstate', gcrunning', full', emergency') BY <1>2 DEF IndInv
<1>5. stack' \subseteq LiveIn(Sweeper) BY <1>1, InvFacts
<1> QED BY <1>1, <1>2, <1>3, <1>4, <1>5, StillStep

\* The program loads what an object holds.
LEMMA LoadStep ==
  ASSUME IndInv, OnTrack, NEW o, Load(o)
  PROVE  IndInv'
<1>1. PICK v \in Holds(o) : v # None /\ stack' = stack \cup {v} BY DEF Load
<1>2. ProgramRuns /\ heap' = heap /\ collector' = collector /\ o \in stack BY DEF Load
<1>3. /\ lists' = lists /\ sweepgc' = sweepgc /\ color' = color /\ upvalues' = upvalues
      /\ finalizable' = finalizable /\ gcstate' = gcstate /\ marking' = marking
      /\ history' = history /\ full' = full /\ emergency' = emergency /\ gcrunning' = gcrunning
  BY <1>2 DEF collector, control
<1>4. garbage = {} BY <1>2, ProgramGarbage
<1>5. ControlOK(gcstate', gcrunning', full', emergency') BY <1>3 DEF IndInv
<1>6. v \in LiveIn(Sweeper)
  <2>1. o \in LiveIn(Sweeper) BY <1>2, InvFacts
  <2>2. PointersOK(Sweeper) BY DEF IndInv, StateOK, HeapOK
  <2> QED BY <1>1, <2>1, <2>2, SweeperNow DEF PointersOK, HoldsIn, Holds
<1>7. stack' \subseteq LiveIn(Sweeper) BY <1>1, <1>6, InvFacts
<1> QED BY <1>2, <1>3, <1>4, <1>5, <1>7, StillStep

\* What a black object refers to is in its own entry.
LEMMA BlackSame ==
  ASSUME kind \in Kinds, NEW s, NEW t, NEW o \in Objects, t.entry[o] = s.entry[o], NEW X
  PROVE  /\ MarksEarly(t.entry, o, X) = MarksEarly(s.entry, o, X)
         /\ IsOpenIn(t.entry, o) <=> IsOpenIn(s.entry, o)
<1>1. IsOpenIn(t.entry, o) <=> IsOpenIn(s.entry, o) BY DEF IsOpenIn
<1>2. o # Main BY NoneIsNoThing
<1>3. kind[o] \in {"table", "weakv", "ephemeron", "allweak", "udata", "lclosure", "thread"} BY KindOf
<1>4. CASE kind[o] = "table" BY <1>1, <1>2, <1>4 DEF MarksEarly, Marks
<1>5. CASE kind[o] = "udata" BY <1>1, <1>2, <1>5 DEF MarksEarly, Marks
<1>6. CASE kind[o] = "thread" BY <1>1, <1>2, <1>6 DEF MarksEarly, Marks
<1>7. CASE kind[o] = "weakv" BY <1>1, <1>2, <1>7 DEF MarksEarly, Marks
<1>8. CASE kind[o] = "ephemeron" BY <1>1, <1>2, <1>8 DEF MarksEarly, Marks
<1>9. CASE kind[o] = "allweak" BY <1>1, <1>2, <1>9 DEF MarksEarly, Marks
<1>10. CASE kind[o] = "lclosure" BY <1>1, <1>2, <1>10 DEF MarksEarly, Marks, UpvalValue, IsOpenIn
<1> QED BY <1>1, <1>3, <1>4, <1>5, <1>6, <1>7, <1>8, <1>9, <1>10

\* A write after which the objects of S still have to be marked.
LEMMA TriWrite ==
  ASSUME kind \in Kinds, NEW s, NEW t, NEW g, NEW ga, NEW aw, NEW S, TriCore(s, g, ga, aw, {}),
         t.color = s.color,
         \A o \in Objects : s.color[o] = "black" =>
            \/ BlackOK(t, o, S)
            \/ /\ t.entry[o] = s.entry[o]
               /\ IsOpenIn(t.entry, o) /\ t.entry[o].key \in s.touched => t.entry[o].key \in t.touched
  PROVE  TriCore(t, g, ga, aw, S)
<1>1. ASSUME NEW o \in Objects, t.color[o] = "black" PROVE BlackOK(t, o, S)
  <2>1. CASE BlackOK(t, o, S) BY <2>1
  <2>2. CASE /\ t.entry[o] = s.entry[o]
             /\ IsOpenIn(t.entry, o) /\ t.entry[o].key \in s.touched => t.entry[o].key \in t.touched
    <3>1. BlackOK(s, o, {}) BY <1>1 DEF TriCore
    <3>2. /\ MarksEarly(t.entry, o, {}) = MarksEarly(s.entry, o, {})
          /\ IsOpenIn(t.entry, o) <=> IsOpenIn(s.entry, o)
      BY <2>2, BlackSame
    <3> QED BY <2>2, <3>1, <3>2 DEF BlackOK, Unmarked
  <2> QED BY <1>1, <2>1, <2>2
<1> QED BY <1>1 DEF TriCore

\* A new object, which refers to nothing or is a closure over the local of a thread.
LEMMA GrowStep ==
  ASSUME IndInv, OnTrack, ProgramRuns, NEW o \in Objects \ Allocated, NEW th \in stack \cup {None},
         th # None => kind[th] = "thread" /\ kind[o] = "lclosure",
         Grows(lists, lists', o), color' = color, stack' = stack \cup {o},
         entry' = [entry EXCEPT ![o] = [key |-> th, val |-> None]],
         openupval' = openupval \cup ({th} \ {None}), twups' = twups \cup ({th} \ {None}),
         touched \subseteq touched', touched' \subseteq openupval',
         kind' = kind, finalizable' = finalizable, gcstate' = gcstate, sweepgc' = sweepgc,
         marking' = marking, control' = control, history' = history
  PROVE  IndInv'
<1>0. PICK t : t = Sweeper' OBVIOUS
<1>1. ProgramNow BY ProgramStart
<1>2. gray' = gray /\ grayagain' = grayagain /\ allweak' = allweak /\ strayed' = strayed
      /\ garbage' = {}
  BY <1>1 DEF marking, history, ProgramNow
<1>3. /\ lists \in Lists /\ OnePlace(lists) /\ AllocatedIn(Sweeper) = Allocated
      /\ stack \cup finalizable \subseteq LiveIn(Sweeper)
      /\ finalizable = ToSet(lists.finobj) \cup ToSet(lists.tobefnz)
      /\ entry \in [Objects -> Entries] /\ Allocated \subseteq Objects
  BY InvFacts
<1>4. /\ t.lists = lists' /\ t.sweepgc = sweepgc /\ t.color = color
      /\ t.openupval = openupval' /\ t.touched = touched' /\ t.twups = twups' /\ t.entry = entry'
  BY <1>0, SweeperIs
<1>5. /\ t.lists \in Lists /\ OnePlace(t.lists)
      /\ t.lists.allgc = <<o>> \o lists.allgc /\ t.lists.finobj = lists.finobj
      /\ t.lists.tobefnz = lists.tobefnz
      /\ ToSet(t.lists.allgc) = {o} \cup ToSet(lists.allgc)
  <2>1. \A n \in ListNames : o \notin ToSet(lists[n])
    BY <1>3, AllocatedMember, SweeperNow
  <2>2. Grows(lists, t.lists, o) BY <1>4
  <2> QED BY ONLY <1>3, <2>1, <2>2, ListsNew, ZenonT(30)
<1>6. AllocatedIn(t) = AllocatedIn(Sweeper) \cup {o}
  <2>1. AllocatedIn(t) = ToSet(t.lists.allgc) \cup ToSet(t.lists.finobj) \cup ToSet(t.lists.tobefnz)
    BY <1>5, AllocatedIs
  <2>2. AllocatedIn(Sweeper) = ToSet(lists.allgc) \cup ToSet(lists.finobj) \cup ToSet(lists.tobefnz)
    BY <1>3, SweeperNow, AllocatedIs
  <2> QED BY <1>5, <2>1, <2>2
<1>7. HeapOK(t) /\ LiveIn(t) = LiveIn(Sweeper) \cup {o} /\ t.color[o] = "white"
  <2>1. th \in LiveIn(Sweeper) \cup {None} BY <1>3
  <2>2. o \in Objects \ AllocatedIn(Sweeper) BY <1>3
  <2>3. HeapOK(Sweeper) /\ kind \in Kinds BY <1>1 DEF ProgramNow
  <2>4. /\ t.entry = [Sweeper.entry EXCEPT ![o] = [key |-> th, val |-> None]]
        /\ t.color = Sweeper.color /\ t.sweepgc = Sweeper.sweepgc
        /\ t.openupval = Sweeper.openupval \cup ({th} \ {None})
        /\ t.twups = Sweeper.twups \cup ({th} \ {None}) /\ t.touched \subseteq t.openupval
    BY <1>4, SweeperNow
  <2>5. th # None => kind[th] = "thread" /\ kind[o] = "lclosure" OBVIOUS
  <2>6. t.lists \in Lists /\ OnePlace(t.lists) BY <1>5
  <2> QED BY ONLY <1>6, <2>1, <2>2, <2>3, <2>4, <2>5, <2>6, HeapNew, SMTT(60)
<1>8. SweepOK(t, gcstate)
  <2>1. WhiteStays(Sweeper, t) BY <1>4, SweeperNow DEF WhiteStays
  <2>2. /\ Sweeper.lists \in Lists /\ t.lists.allgc = <<o>> \o Sweeper.lists.allgc
        /\ t.lists.finobj = Sweeper.lists.finobj /\ t.lists.tobefnz = Sweeper.lists.tobefnz
        /\ t.sweepgc = Sweeper.sweepgc /\ t.color[o] = "white" /\ t.lists \in Lists
    BY <1>3, <1>4, <1>5, <1>7, SweeperNow
  <2>3. SweepOK(Sweeper, gcstate) /\ gcstate \in GCStates BY <1>1 DEF ProgramNow
  <2>4. o \in Objects OBVIOUS
  <2> QED BY ONLY <2>1, <2>2, <2>3, <2>4, SweepNew
<1>9. gcstate \in Marking => TriOK(t, gray', grayagain', allweak')
  <2> SUFFICES ASSUME gcstate \in Marking PROVE TriOK(t, gray, grayagain, allweak) BY <1>2
  <2>1. TriOK(Sweeper, gray, grayagain, allweak) BY <1>1 DEF ProgramNow
  <2>2. \A x \in Objects \ {o} : t.entry[x] = Sweeper.entry[x] BY <1>3, <1>4, SweeperNow
  <2>3. Sweeper.color[o] = "white" /\ t.color = Sweeper.color /\ Sweeper.touched \subseteq t.touched
    BY <1>4, <1>7, SweeperNow
  <2>4. TriCore(t, gray, grayagain, allweak, {})
    BY <1>1, <2>1, <2>2, <2>3, TriWrite DEF TriOK, ProgramNow
  <2> QED BY <1>5, <2>1, <2>3, <2>4, SweeperNow DEF TriOK, Unmarked
<1>10. RootsOK(t, stack', finalizable')
  <2>1. \A x \in finalizable : kind[x] = "udata" BY <1>1 DEF ProgramNow, RootsOK
  <2> QED BY <1>3, <1>5, <1>7, <2>1 DEF RootsOK
<1>11. gray' \cup grayagain' \cup allweak' \subseteq Things BY <1>1, <1>2 DEF ProgramNow
<1> QED BY <1>0, <1>2, <1>7, <1>8, <1>9, <1>10, <1>11, ProgramStep

\* A free address is white, and refers to nothing.
LEMMA FreeNow ==
  ASSUME IndInv, OnTrack, NEW o \in Objects \ Allocated
  PROVE  /\ color = [color EXCEPT ![o] = "white"]
         /\ entry = [entry EXCEPT ![o] = [key |-> None, val |-> None]]
<1>1. FreeOK(Sweeper) /\ AllocatedIn(Sweeper) = Allocated
  BY InvFacts DEF IndInv, StateOK, HeapOK
<1>2. color[o] = "white" /\ entry[o] = [key |-> None, val |-> None]
  BY <1>1, SweeperNow DEF FreeOK, Nothing
<1> QED BY <1>2, InvFacts DEF Things

\* A new object is white, in each state of the collector.
LEMMA NewStep ==
  ASSUME IndInv, OnTrack, NEW o \in Objects, New(o)
  PROVE  IndInv'
<1>1. /\ ProgramRuns /\ o \notin Allocated /\ lists' = [lists EXCEPT !.allgc = <<o>> \o @]
      /\ color' = [color EXCEPT ![o] = "white"] /\ stack' = stack \cup {o}
      /\ heap' = heap /\ upvalues' = upvalues /\ finalizable' = finalizable /\ gcstate' = gcstate
      /\ sweepgc' = sweepgc /\ marking' = marking /\ control' = control /\ history' = history
  BY DEF New
<1>2. Grows(lists, lists', o) BY <1>1 DEF Grows
<1>3. /\ kind' = kind /\ entry' = entry /\ openupval' = openupval /\ touched' = touched
      /\ twups' = twups
  BY <1>1 DEF heap, upvalues
<1>4. color' = color BY <1>1, FreeNow
<1>5. entry' = [entry EXCEPT ![o] = [key |-> None, val |-> None]] BY <1>1, <1>3, FreeNow
<1>6. touched \subseteq openupval BY DEF IndInv, StateOK, HeapOK, UpvaluesOK, Sweeper
<1>7. /\ openupval' = openupval \cup ({None} \ {None}) /\ twups' = twups \cup ({None} \ {None})
      /\ touched \subseteq touched' /\ touched' \subseteq openupval'
  BY <1>3, <1>6
<1>8. None \in stack \cup {None} /\ o \in Objects \ Allocated BY <1>1
<1>9. /\ ProgramRuns /\ stack' = stack \cup {o} /\ kind' = kind
      /\ finalizable' = finalizable /\ gcstate' = gcstate /\ sweepgc' = sweepgc
      /\ marking' = marking /\ control' = control /\ history' = history
  BY <1>1, <1>3
<1> QED BY ONLY IndInv, OnTrack, <1>2, <1>4, <1>5, <1>7, <1>8, <1>9, GrowStep

\* A new closure opens an upvalue, and puts its thread into twups.
LEMMA CaptureStep ==
  ASSUME IndInv, OnTrack, NEW th \in Objects, NEW f \in Objects, Capture(th, f)
  PROVE  IndInv'
<1>1. /\ ProgramRuns /\ f \notin Allocated /\ lists' = [lists EXCEPT !.allgc = <<f>> \o @]
      /\ th \in stack /\ kind[th] = "thread" /\ kind[f] = "lclosure"
      /\ color' = [color EXCEPT ![f] = "white"] /\ stack' = stack \cup {f}
      /\ entry' = [entry EXCEPT ![f] = [key |-> th, val |-> None]]
      /\ openupval' = openupval \cup {th} /\ twups' = twups \cup {th}
      /\ touched' = IF th \in openupval THEN touched ELSE touched \cup {th}
      /\ kind' = kind /\ finalizable' = finalizable /\ gcstate' = gcstate
      /\ sweepgc' = sweepgc /\ marking' = marking /\ control' = control /\ history' = history
  BY DEF Capture
<1>2. Grows(lists, lists', f) BY <1>1 DEF Grows
<1>3. color' = color BY <1>1, FreeNow
<1>4. th # None BY NoneIsNoThing DEF Things
<1>5. touched \subseteq openupval BY DEF IndInv, StateOK, HeapOK, UpvaluesOK, Sweeper
<1>6. /\ openupval' = openupval \cup ({th} \ {None}) /\ twups' = twups \cup ({th} \ {None})
      /\ touched \subseteq touched' /\ touched' \subseteq openupval'
  BY <1>1, <1>4, <1>5
<1>7. /\ th \in stack \cup {None} /\ f \in Objects \ Allocated
      /\ (th # None => kind[th] = "thread" /\ kind[f] = "lclosure")
  BY <1>1
<1>8. /\ ProgramRuns /\ stack' = stack \cup {f} /\ kind' = kind
      /\ entry' = [entry EXCEPT ![f] = [key |-> th, val |-> None]]
      /\ finalizable' = finalizable /\ gcstate' = gcstate /\ sweepgc' = sweepgc
      /\ marking' = marking /\ control' = control /\ history' = history
  BY <1>1
<1> QED BY ONLY IndInv, OnTrack, <1>2, <1>3, <1>6, <1>7, <1>8, GrowStep

\* The heap with the colors that a step leaves.
Painted(m) ==
  /\ Same(Sweeper, m) /\ m.lists = lists /\ m.sweepgc = sweepgc /\ m.touched = touched
  /\ m.color = color'

\* The heap with its new colors, as a record.
LEMMA PaintedExists == \E m : Painted(m)
<1> DEFINE m == [lists |-> lists, sweepgc |-> sweepgc, color |-> color', entry |-> entry,
                 openupval |-> openupval, touched |-> touched, twups |-> twups]
<1>1. Painted(m) BY SweeperNow DEF Painted, Same
<1> QED BY <1>1

\* A write, with the colors that its barrier leaves.
Write(o, r) ==
  /\ entry' = [entry EXCEPT ![o] = r] /\ kind' = kind /\ stack' = stack /\ upvalues' = upvalues
  /\ lists' = lists /\ finalizable' = finalizable /\ gcstate' = gcstate /\ sweepgc' = sweepgc
  /\ control' = control /\ history' = history

\* A write and its barrier keep the invariant, from what the barrier does to the colors.
LEMMA WriteStep ==
  ASSUME IndInv, OnTrack, ProgramRuns, NEW o \in Allocated, NEW r \in Entries, Write(o, r),
         {r.key, r.val} \subseteq LiveIn(Sweeper) \cup {None},
         kind[o] \in {"udata", "thread", "lclosure"} => r.key = None,
         NEW m, Painted(m), HeapOK(m), LiveIn(m) = LiveIn(Sweeper),
         gcstate \notin Marking => \A x \in Things : color[x] = "white" => color'[x] = "white",
         gray' \cup grayagain' \cup allweak' \subseteq Things,
         NEW t, t = Sweeper', gcstate \in Marking => TriOK(t, gray', grayagain', allweak')
  PROVE  IndInv'
<1>1. ProgramNow BY ProgramStart
<1>2. /\ entry' = [entry EXCEPT ![o] = r] /\ kind' = kind /\ stack' = stack /\ upvalues' = upvalues
      /\ lists' = lists /\ finalizable' = finalizable /\ gcstate' = gcstate /\ sweepgc' = sweepgc
      /\ control' = control /\ history' = history
  BY DEF Write
<1>3. strayed' = strayed /\ garbage' = {} BY <1>1, <1>2 DEF history, ProgramNow
<1>4. /\ t.lists = lists /\ t.sweepgc = sweepgc /\ t.color = color'
      /\ t.openupval = openupval /\ t.touched = touched /\ t.twups = twups /\ t.entry = entry'
  BY <1>2, SweeperIs DEF upvalues
<1>5. AllocatedIn(m) = Allocated BY InvFacts, SweeperNow DEF Painted, AllocatedIn
<1>6. HeapOK(t) /\ LiveIn(t) = LiveIn(m) /\ AllocatedIn(t) = AllocatedIn(m)
  <2>1. /\ t.entry = [m.entry EXCEPT ![o] = r]
        /\ t.lists = m.lists /\ t.color = m.color /\ t.sweepgc = m.sweepgc
        /\ t.openupval = m.openupval /\ t.touched = m.touched /\ t.twups = m.twups
    BY <1>2, <1>4, SweeperNow DEF Painted, Same
  <2>2. kind \in Kinds BY <1>1 DEF ProgramNow
  <2>3. /\ HeapOK(m) /\ {r.key, r.val} \subseteq LiveIn(m) \cup {None} /\ o \in AllocatedIn(m)
        /\ r \in Entries
    BY <1>5
  <2>4. kind[o] \in {"udata", "thread", "lclosure"} => r.key = None OBVIOUS
  <2> QED BY ONLY <2>1, <2>2, <2>3, <2>4, HeapWrite
<1>7. SweepOK(t, gcstate)
  <2>1. SweepOK(Sweeper, gcstate) /\ gcstate \in GCStates BY <1>1 DEF ProgramNow
  <2>2. CASE gcstate \in Marking
    BY <1>4, <2>1, <2>2, SweeperNow DEF SweepOK, Marking, SweepStates
  <2>3. CASE gcstate \notin Marking
    <3>1. WhiteStays(Sweeper, t) BY <1>4, <2>3, SweeperNow DEF WhiteStays
    <3> QED BY <1>4, <2>1, <3>1, InvFacts, SweepSame, SweeperNow
  <2> QED BY <2>2, <2>3
<1>8. RootsOK(t, stack', finalizable')
  <2>1. RootsOK(Sweeper, stack, finalizable) BY <1>1 DEF ProgramNow
  <2>2. LiveIn(t) = LiveIn(Sweeper) /\ t.lists = Sweeper.lists BY <1>4, <1>6, SweeperNow
  <2> QED BY <1>2, <2>1, <2>2, RootsSame
<1> QED BY <1>2, <1>3, <1>6, <1>7, <1>8, ProgramStep

\* What a painting has to leave alone.
LEMMA PaintedOK ==
  ASSUME IndInv, OnTrack, NEW m, Painted(m), color' \in [Things -> Colors],
         \A x \in Things : \/ color'[x] = color[x]
                           \/ /\ color[x] # "dead" /\ color'[x] # "dead" /\ x \in Allocated
                              /\ color'[x] # "black"
  PROVE  HeapOK(m) /\ LiveIn(m) = LiveIn(Sweeper)
<1>1. HeapOK(Sweeper) BY DEF IndInv, StateOK
<1>2. /\ AllocatedIn(m) = AllocatedIn(Sweeper) /\ Same(Sweeper, m) /\ m.color = color'
      /\ m.lists \in Lists /\ OnePlace(m.lists) /\ m.sweepgc \in Values \cup {Header}
      /\ AllocatedIn(Sweeper) = Allocated
  BY InvFacts, SweeperNow DEF Painted, AllocatedIn
<1>3. m.touched \subseteq m.openupval
  BY <1>1, SweeperNow DEF Painted, Same, HeapOK, UpvaluesOK
<1>4. \A o \in Things : m.color[o] = "dead" <=> Sweeper.color[o] = "dead" BY <1>2, SweeperNow
<1>5. \A o \in Objects \ AllocatedIn(Sweeper) : m.color[o] = "white"
  <2>1. \A o \in Objects \ AllocatedIn(Sweeper) : color[o] = "white" BY <1>1, SweeperNow DEF HeapOK, FreeOK
  <2> QED BY <1>2, <2>1 DEF Things
<1>6. \A o \in Things : StaysGray(o) => m.color[o] # "black"
  <2>1. \A o \in Things : StaysGray(o) => color[o] # "black" BY <1>1, SweeperNow DEF HeapOK, ColorsOK
  <2> QED BY <1>2, <2>1
<1>7. Recolors(Sweeper, m) BY <1>2, <1>3, <1>4, <1>5, <1>6 DEF Recolors
<1> QED BY <1>1, <1>7, HeapRecolor

\* The barrier leaves the colors alone.
LEMMA PaintedNone ==
  ASSUME IndInv, OnTrack, NEW m, Painted(m), color' = color
  PROVE  HeapOK(m) /\ LiveIn(m) = LiveIn(Sweeper)
BY PaintedOK, InvFacts

\* A value written to what has no key.
LEMMA ValWritten ==
  ASSUME entry \in [Objects -> Entries], NEW o \in Objects, entry[o].key = None, NEW v
  PROVE  [entry EXCEPT ![o].val = v] = [entry EXCEPT ![o] = [key |-> None, val |-> v]]
<1>1. PICK e : e = entry[o] OBVIOUS
<1>2. e \in Entries /\ e.key = None BY <1>1
<1>3. [e EXCEPT !.val = v] = [key |-> None, val |-> v] BY <1>2 DEF Entries
<1> QED BY <1>1, <1>3

\* A write to the stack of a thread, which no barrier follows: a thread is never black.
LEMMA SetLocalStep ==
  ASSUME IndInv, OnTrack, NEW th, NEW v, SetLocal(th, v)
  PROVE  IndInv'
<1>0. PICK t : t = Sweeper' OBVIOUS
<1>1. PICK m : Painted(m) BY PaintedExists
<1>2. /\ ProgramRuns /\ {th, v} \subseteq stack \cup {None} /\ th # None /\ kind[th] = "thread"
      /\ entry' = [entry EXCEPT ![th].val = v]
      /\ kind' = kind /\ stack' = stack /\ collector' = collector
  BY DEF SetLocal
<1>3. /\ color' = color /\ gray' = gray /\ grayagain' = grayagain /\ allweak' = allweak
      /\ upvalues' = upvalues /\ lists' = lists /\ finalizable' = finalizable
      /\ gcstate' = gcstate /\ sweepgc' = sweepgc /\ control' = control /\ history' = history
      /\ touched' = touched
  BY <1>2 DEF collector, marking, upvalues
<1>4. ProgramNow BY <1>2, ProgramStart
<1>5. th \in Allocated /\ th \in LiveIn(Sweeper) /\ v \in LiveIn(Sweeper) \cup {None} /\ th \in Objects
      /\ entry \in [Objects -> Entries]
  BY <1>2, InvFacts
<1>6. entry[th].key = None BY <1>2, <1>4, <1>5, SweeperNow DEF ProgramNow, HeapOK, UpvaluesOK
<1> DEFINE r == [key |-> None, val |-> v]
<1>7. Write(th, r)
  <2>1. [entry EXCEPT ![th].val = v] = [entry EXCEPT ![th] = r] BY <1>5, <1>6, ValWritten
  <2> QED BY <1>2, <1>3, <2>1 DEF Write
<1>8. r \in Entries BY <1>5, InvFacts DEF Entries, Values
<1>9. HeapOK(m) /\ LiveIn(m) = LiveIn(Sweeper) BY <1>1, <1>3, PaintedNone
<1>10. gcstate \in Marking => TriOK(t, gray', grayagain', allweak')
  <2> SUFFICES ASSUME gcstate \in Marking PROVE TriOK(t, gray, grayagain, allweak) BY <1>3
  <2>1. TriOK(Sweeper, gray, grayagain, allweak) /\ kind \in Kinds BY <1>4 DEF ProgramNow
  <2>2. t.color = Sweeper.color /\ t.touched = Sweeper.touched /\ t.lists = Sweeper.lists
    BY <1>0, <1>3, SweeperIs, SweeperNow
  <2>3. Sweeper.color[th] # "black"
    BY <1>2, <1>4, <1>5, SweeperNow DEF ProgramNow, HeapOK, ColorsOK, StaysGray, Things
  <2>4. \A o \in Objects \ {th} : t.entry[o] = Sweeper.entry[o]
    BY <1>0, <1>2, <1>5, SweeperIs, SweeperNow
  <2>5. TriCore(t, gray, grayagain, allweak, {}) BY <2>1, <2>2, <2>3, <2>4, TriWrite DEF TriOK
  <2> QED BY <2>1, <2>2, <2>5 DEF TriOK, Unmarked
<1>11. {r.key, r.val} \subseteq LiveIn(Sweeper) \cup {None} /\ r.key = None BY <1>5
<1>12. gray' \cup grayagain' \cup allweak' \subseteq Things BY <1>3, <1>4 DEF ProgramNow
<1>13. \A x \in Things : color[x] = "white" => color'[x] = "white" BY <1>3
<1> HIDE DEF r
<1> QED BY <1>0, <1>1, <1>2, <1>5, <1>7, <1>8, <1>9, <1>10, <1>11, <1>12, <1>13, WriteStep

\* A black object turns gray again, in the list grayagain.
LEMMA TriBack ==
  ASSUME kind \in Kinds, NEW s, NEW t, NEW g, NEW ga, NEW aw, TriOK(s, g, ga, aw), NEW o \in Objects,
         s.color \in [Things -> Colors], s.color[o] = "black",
         t.color = [s.color EXCEPT ![o] = "gray"], t.touched = s.touched,
         t.lists = s.lists, \A x \in Objects \ {o} : t.entry[x] = s.entry[x],
         s.lists.tobefnz \in Seq(Objects), s.entry \in [Objects -> Entries]
  PROVE  TriOK(t, g, ga \cup {o}, aw)
<1>1. o \in Things /\ o # Main /\ Values \subseteq Things \cup {None}
  BY NoneIsNoThing DEF Things, Values
<1>2. t.color[o] = "gray" /\ \A x \in Things \ {o} : t.color[x] = s.color[x] BY <1>1
<1>3. \A x \in Things : ~ Unmarked(s, x) => ~ Unmarked(t, x) BY <1>2 DEF Unmarked
<1>4. TriCore(s, g, ga, aw, {}) /\ s.color[Main] = "gray"
      /\ \A x \in ToSet(s.lists.tobefnz) : ~ Unmarked(s, x)
  BY DEF TriOK
<1>5. o \notin g \cup ga \cup aw BY <1>1, <1>4 DEF TriCore
<1>6. ASSUME NEW x \in Objects, t.color[x] = "black" PROVE BlackOK(t, x, {})
  <2>1. x # o /\ x \in Things BY <1>2, <1>6 DEF Things
  <2>2. BlackOK(s, x, {}) BY <1>2, <1>4, <1>6, <2>1 DEF TriCore
  <2>3. t.entry[x] = s.entry[x] BY <2>1
  <2>4. /\ MarksEarly(t.entry, x, {}) = MarksEarly(s.entry, x, {})
        /\ IsOpenIn(t.entry, x) <=> IsOpenIn(s.entry, x)
    <3>1. kind \in Kinds /\ x \in Objects OBVIOUS
    <3> QED BY ONLY <2>3, <3>1, BlackSame
  <2>5. MarksEarly(s.entry, x, {}) \subseteq Values BY MarksEarlyType
  <2> QED BY <1>1, <1>3, <2>2, <2>3, <2>4, <2>5 DEF BlackOK
<1>7. \A x \in Things : t.color[x] = "gray" <=> x \in g \cup (ga \cup {o}) \cup aw
  BY <1>2, <1>4 DEF TriCore
<1>8. \A x \in Things : t.color[x] # "dead" BY <1>2, <1>4 DEF TriCore
<1>9. TriCore(t, g, ga \cup {o}, aw, {})
  <2>1. /\ g \cup (ga \cup {o}) \cup aw \subseteq Things
        /\ g \cap (ga \cup {o}) = {} /\ g \cap aw = {} /\ (ga \cup {o}) \cap aw = {}
        /\ \A x \in aw : x # Main /\ kind[x] = "allweak"
    BY <1>1, <1>4, <1>5 DEF TriCore
  <2> QED BY <1>6, <1>7, <1>8, <2>1 DEF TriCore
<1>10. ToSet(s.lists.tobefnz) \subseteq Things BY SetOfSeq DEF Things
<1>11. t.color[Main] = "gray" /\ \A x \in ToSet(t.lists.tobefnz) : ~ Unmarked(t, x)
  BY <1>1, <1>2, <1>3, <1>4, <1>10, NoneIsNoThing
<1> QED BY <1>9, <1>11 DEF TriOK

\* A write to a table, with luaC_barrierback.
LEMMA SetTableStep ==
  ASSUME IndInv, OnTrack, NEW o, NEW k, NEW v, SetTable(o, k, v)
  PROVE  IndInv'
<1>0. PICK t : t = Sweeper' OBVIOUS
<1>1. PICK m : Painted(m) BY PaintedExists
<1>2. PICK r : r = IF v = None THEN Nothing ELSE [key |-> k, val |-> v] OBVIOUS
<1>3. /\ ProgramRuns /\ {o, k, v} \subseteq stack \cup {None} /\ o # None
      /\ kind[o] \in {"table", "weakv", "ephemeron", "allweak"}
      /\ entry' = [entry EXCEPT ![o] = r] /\ BarrierBack(o, {k, v})
      /\ kind' = kind /\ stack' = stack /\ upvalues' = upvalues /\ lists' = lists
      /\ finalizable' = finalizable
      /\ gcstate' = gcstate /\ sweepgc' = sweepgc /\ control' = control /\ history' = history
  BY <1>2 DEF SetTable
<1>4. ProgramNow BY <1>3, ProgramStart
<1>5. /\ o \in Allocated /\ o \in LiveIn(Sweeper) /\ {k, v} \subseteq LiveIn(Sweeper) \cup {None}
      /\ o \in Objects /\ LiveIn(Sweeper) \subseteq Objects
      /\ entry \in [Objects -> Entries] /\ color \in [Things -> Colors] /\ lists \in Lists
      /\ OnePlace(lists)
  BY <1>3, InvFacts
<1>6. /\ r \in Entries /\ {r.key, r.val} \subseteq LiveIn(Sweeper) \cup {None}
      /\ r.key \in {k, None} /\ r.val \in {v, None}
  BY <1>2, <1>5 DEF Entries, Values, Nothing
<1>7. Write(o, r) BY <1>3 DEF Write
<1>8. /\ t.color = color' /\ t.touched = Sweeper.touched /\ t.lists = Sweeper.lists
      /\ t.entry = [Sweeper.entry EXCEPT ![o] = r]
  BY <1>0, <1>3, SweeperIs, SweeperNow DEF upvalues
<1>9. o \in Things /\ o # Main BY <1>5, NoneIsNoThing DEF Things
<1>10. \A x \in Objects \ {o} : t.entry[x] = Sweeper.entry[x] BY <1>5, <1>8, SweeperNow
<1>11. gcstate \in Marking => TriOK(Sweeper, gray, grayagain, allweak) BY <1>4 DEF ProgramNow
<1>12. kind[o] \notin {"udata", "thread", "lclosure"} BY <1>3
<1>13. gray \cup grayagain \cup allweak \subseteq Things /\ kind \in Kinds BY <1>4 DEF ProgramNow
<1>14. keepinvariant <=> gcstate \in Marking BY DEF keepinvariant, Marking
<1>15. CASE color[o] = "black" /\ \E x \in {k, v} \ {None} : White(x)
  <2>1. /\ color' = [color EXCEPT ![o] = "gray"]
        /\ grayagain' = IF keepinvariant THEN grayagain \cup {o} ELSE grayagain
        /\ gray' = gray /\ allweak' = allweak
    BY <1>3, <1>15 DEF BarrierBack
  <2>2. /\ color' \in [Things -> Colors] /\ color'[o] = "gray"
        /\ \A x \in Things \ {o} : color'[x] = color[x]
    BY <1>5, <1>9, <2>1 DEF Colors
  <2>3. HeapOK(m) /\ LiveIn(m) = LiveIn(Sweeper) BY <1>1, <1>5, <1>15, <2>2, PaintedOK
  <2>4. gcstate \in Marking => TriOK(t, gray', grayagain', allweak')
    <3> SUFFICES ASSUME gcstate \in Marking PROVE TriOK(t, gray, grayagain \cup {o}, allweak)
      BY <1>14, <2>1
    <3>1. /\ Sweeper.color \in [Things -> Colors] /\ Sweeper.color[o] = "black"
          /\ t.color = [Sweeper.color EXCEPT ![o] = "gray"]
          /\ Sweeper.lists.tobefnz \in Seq(Objects) /\ Sweeper.entry \in [Objects -> Entries]
      BY <1>5, <1>8, <1>15, <2>1, SweeperNow, ListFacts
    <3>2. TriOK(Sweeper, gray, grayagain, allweak) BY <1>11
    <3> QED BY ONLY <1>5, <1>8, <1>10, <1>13, <3>1, <3>2, TriBack
  <2>5. gray' \cup grayagain' \cup allweak' \subseteq Things BY <1>9, <1>13, <2>1
  <2>6. \A x \in Things : color[x] = "white" => color'[x] = "white" BY <1>15, <2>2
  <2> QED BY <1>0, <1>1, <1>3, <1>5, <1>6, <1>7, <1>12, <2>3, <2>4, <2>5, <2>6, WriteStep
<1>16. CASE ~ (color[o] = "black" /\ \E x \in {k, v} \ {None} : White(x))
  <2>1. color' = color /\ gray' = gray /\ grayagain' = grayagain /\ allweak' = allweak
    BY <1>3, <1>16 DEF BarrierBack, BarrierNone, marking
  <2>2. HeapOK(m) /\ LiveIn(m) = LiveIn(Sweeper) BY <1>1, <2>1, PaintedNone
  <2>3. gcstate \in Marking => TriOK(t, gray', grayagain', allweak')
    <3> SUFFICES ASSUME gcstate \in Marking PROVE TriOK(t, gray, grayagain, allweak) BY <2>1
    <3>1. TriOK(Sweeper, gray, grayagain, allweak) BY <1>11
    <3>2. t.color = Sweeper.color BY <1>8, <2>1, SweeperNow
    <3>3. Sweeper.color[o] = "black" => BlackOK(t, o, {})
      <4> SUFFICES ASSUME color[o] = "black" PROVE BlackOK(t, o, {}) BY SweeperNow
      <4>1. \A x \in {k, v} \ {None} : ~ Unmarked(t, x)
        BY <1>16, <3>2, SweeperNow DEF White, Unmarked
      <4>2. t.entry[o] = r BY <1>5, <1>8, SweeperNow
      <4>3. MarksEarly(t.entry, o, {}) \subseteq {r.key, r.val} /\ ~ IsOpenIn(t.entry, o)
        BY <1>3, <1>9, <4>2 DEF MarksEarly, Marks, IsOpenIn
      <4> QED BY <1>6, <4>1, <4>3 DEF BlackOK
    <3>4. TriCore(t, gray, grayagain, allweak, {})
      BY <1>8, <1>10, <1>13, <3>1, <3>2, <3>3, TriWrite DEF TriOK
    <3> QED BY <1>8, <3>1, <3>2, <3>4 DEF TriOK, Unmarked
  <2>4. gray' \cup grayagain' \cup allweak' \subseteq Things BY <1>13, <2>1
  <2>5. \A x \in Things : color[x] = "white" => color'[x] = "white" BY <2>1
  <2> QED BY <1>0, <1>1, <1>3, <1>5, <1>6, <1>7, <1>12, <2>2, <2>3, <2>4, <2>5, WriteStep
<1> QED BY <1>15, <1>16

\* The barriers that mark what is written.
LEMMA PaintedMark ==
  ASSUME IndInv, OnTrack, ProgramNow, gcstate \in Marking, NEW v \in LiveIn(Sweeper), MarkNow(v),
         NEW m, Painted(m)
  PROVE  HeapOK(m) /\ LiveIn(m) = LiveIn(Sweeper)
<1>1. TriOK(Sweeper, gray, grayagain, allweak) BY DEF ProgramNow
<1>2. \A o \in Things : color[o] # "dead" BY <1>1, SweeperNow DEF TriOK, TriCore
<1>3. MarkingNow BY <1>2, MarkingStart
<1>4. color' = Paint(color, Chain(color, {v})) BY DEF MarkNow
<1>5. {v} \subseteq Allocated \cup {Main, None} BY InvFacts
<1>6. HeapOK(Sweeper) BY DEF ProgramNow
<1>7. /\ color \in [Things -> Colors] /\ m.touched \subseteq m.openupval
      /\ \A o \in Things : StaysGray(o) => color[o] # "black"
  BY <1>6, SweeperNow DEF HeapOK, SweeperOK, UpvaluesOK, ColorsOK, Painted, Same
<1>8. /\ m.color = Paint(color, Chain(color, {v}))
      /\ Same(Sweeper, m) /\ m.lists = lists /\ m.sweepgc = sweepgc
  BY <1>4 DEF Painted
<1> QED BY ONLY <1>3, <1>5, <1>7, <1>8, MarkHeap

\* The heap t before its barrier.
Unpainted(t, w) == w.color = color /\ w.entry = t.entry /\ w.touched = t.touched

\* The heap before the barrier, as a record.
LEMMA UnpaintedExists == ASSUME NEW t PROVE \E w : Unpainted(t, w)
<1> DEFINE w == [color |-> color, entry |-> t.entry, touched |-> t.touched]
<1>1. Unpainted(t, w) BY DEF Unpainted
<1> QED BY <1>1

\* A barrier that marks what is written pays what the tricolor invariant owes.
LEMMA TriMark ==
  ASSUME IndInv, OnTrack, TriOK(Sweeper, gray, grayagain, allweak), NEW v \in Objects, MarkNow(v),
         NEW t, t = Sweeper', t.entry \in [Objects -> Entries], lists' = lists,
         NEW w, Unpainted(t, w), TriCore(w, gray, grayagain, allweak, {v}),
         \A o \in Objects : kind[o] = "udata" /\ White(o) => t.entry[o].val = entry[o].val
  PROVE  TriOK(t, gray', grayagain', allweak') /\ gray' \cup grayagain' \cup allweak' \subseteq Things
<1> DEFINE L == Listed(Chain(color, {v}))
<1>1. /\ color' = Paint(color, Chain(color, {v})) /\ gray' = gray \cup L
      /\ grayagain' = grayagain /\ allweak' = allweak
  BY DEF MarkNow
<1>2. t.color = color' /\ t.lists = lists BY SweeperIs
<1>3. w.color = color /\ w.entry = t.entry /\ w.touched = t.touched BY DEF Unpainted
<1>4. Marked(w, t, {v}) BY <1>1, <1>2, <1>3 DEF Marked
<1>5. /\ {v} \subseteq Things \cup {None} /\ w.color \in [Things -> Colors]
      /\ w.entry \in [Objects -> Entries] /\ kind \in Kinds /\ entry \in [Objects -> Entries]
  BY <1>3, InvFacts DEF Things, IndInv
<1>6. \A o \in Objects : kind[o] = "udata" /\ Unmarked(w, o) => w.entry[o].val = entry[o].val
  BY <1>3 DEF Unmarked, White
<1>7. /\ TriCore(t, gray \cup Listed(Chain(w.color, {v})), grayagain, allweak, {})
      /\ \A o \in Things : ~ Unmarked(w, o) => t.color[o] = w.color[o]
  <2>1. TriCore(w, gray, grayagain, allweak, {v}) OBVIOUS
  <2> QED BY ONLY <1>4, <1>5, <1>6, <2>1, MarkStep, ZenonT(30)
<1>8. TriCore(t, gray', grayagain', allweak', {}) BY <1>1, <1>3, <1>7
<1>9. Main \in Things /\ ToSet(lists.tobefnz) \subseteq Things
  BY InvFacts, ListFacts, SetOfSeq, NoneIsNoThing DEF Things
<1>10. color[Main] = "gray" /\ \A o \in ToSet(lists.tobefnz) : ~ Unmarked(w, o)
  BY <1>3, SweeperNow DEF TriOK, Unmarked
<1>11. t.color[Main] = "gray" BY <1>3, <1>7, <1>9, <1>10 DEF Unmarked
<1>12. \A o \in ToSet(t.lists.tobefnz) : ~ Unmarked(t, o)
  BY <1>2, <1>7, <1>9, <1>10 DEF Unmarked
<1> HIDE DEF L
<1>13. gray' \cup grayagain' \cup allweak' \subseteq Things BY <1>8 DEF TriCore
<1> QED BY <1>8, <1>11, <1>12, <1>13 DEF TriOK

\* luaC_barrier on a userdata.
LEMMA SetUservalueStep ==
  ASSUME IndInv, OnTrack, NEW u, NEW v, SetUservalue(u, v)
  PROVE  IndInv'
<1>0. PICK t : t = Sweeper' OBVIOUS
<1>1. PICK m : Painted(m) BY PaintedExists
<1>2. PICK r : r = [key |-> None, val |-> v] OBVIOUS
<1>3. /\ ProgramRuns /\ {u, v} \subseteq stack \cup {None} /\ u # None /\ kind[u] = "udata"
      /\ entry' = [entry EXCEPT ![u].val = v] /\ BarrierForward(u, v)
      /\ kind' = kind /\ stack' = stack /\ upvalues' = upvalues /\ lists' = lists
      /\ finalizable' = finalizable
      /\ gcstate' = gcstate /\ sweepgc' = sweepgc /\ control' = control /\ history' = history
  BY DEF SetUservalue
<1>4. ProgramNow BY <1>3, ProgramStart
<1>5. /\ u \in Allocated /\ u \in LiveIn(Sweeper) /\ v \in LiveIn(Sweeper) \cup {None}
      /\ u \in Objects /\ LiveIn(Sweeper) \subseteq Objects
      /\ entry \in [Objects -> Entries] /\ color \in [Things -> Colors]
  BY <1>3, InvFacts
<1>6. /\ r \in Entries /\ {r.key, r.val} \subseteq LiveIn(Sweeper) \cup {None}
      /\ r.key = None /\ r.val = v
  BY <1>2, <1>5 DEF Entries, Values
<1>7. entry[u].key = None BY <1>3, <1>4, <1>5, SweeperNow DEF ProgramNow, HeapOK, UpvaluesOK
<1>8. entry' = [entry EXCEPT ![u] = r] BY ONLY <1>2, <1>3, <1>5, <1>7, ValWritten
<1>9. Write(u, r) BY <1>3, <1>8 DEF Write
<1>10. /\ t.color = color' /\ t.touched = Sweeper.touched /\ t.lists = Sweeper.lists
       /\ t.entry = entry'
  BY <1>0, <1>3, SweeperIs, SweeperNow DEF upvalues
<1>11. /\ t.entry[u] = r /\ \A x \in Objects \ {u} : t.entry[x] = entry[x]
       /\ t.entry \in [Objects -> Entries]
  BY <1>5, <1>6, <1>8, <1>10
<1>12. u \in Things /\ u # Main BY <1>5, NoneIsNoThing DEF Things
<1>13. gcstate \in Marking => TriOK(Sweeper, gray, grayagain, allweak) BY <1>4 DEF ProgramNow
<1>14. gray \cup grayagain \cup allweak \subseteq Things /\ kind \in Kinds BY <1>4 DEF ProgramNow
<1>15. keepinvariant <=> gcstate \in Marking BY DEF keepinvariant, Marking
<1>16. PICK w : Unpainted(t, w) BY UnpaintedExists
<1>17. w.color = Sweeper.color /\ w.entry = t.entry /\ w.touched = Sweeper.touched
  BY <1>10, <1>16, SweeperNow DEF Unpainted
<1>18. MarksEarly(w.entry, u, {}) = {v} /\ ~ IsOpenIn(w.entry, u)
  BY <1>3, <1>6, <1>11, <1>12, <1>17 DEF MarksEarly, Marks, IsOpenIn
<1>19. CASE color[u] = "black" /\ v # None /\ White(v) /\ keepinvariant
  <2>1. MarkNow(v) /\ v \in LiveIn(Sweeper) /\ v \in Objects BY <1>3, <1>5, <1>19 DEF BarrierForward
  <2>2. HeapOK(m) /\ LiveIn(m) = LiveIn(Sweeper) BY <1>1, <1>4, <1>15, <1>19, <2>1, PaintedMark
  <2>3. TriCore(w, gray, grayagain, allweak, {v})
    <3>1. BlackOK(w, u, {v}) BY <1>18 DEF BlackOK
    <3>2. \A x \in Objects \ {u} : w.entry[x] = Sweeper.entry[x] BY <1>11, <1>17, SweeperNow
    <3> QED BY <1>13, <1>14, <1>15, <1>17, <1>19, <3>1, <3>2, TriWrite DEF TriOK
  <2>4. \A o \in Objects : kind[o] = "udata" /\ White(o) => t.entry[o].val = entry[o].val
    BY <1>11, <1>19 DEF White
  <2>5. TriOK(Sweeper, gray, grayagain, allweak) /\ lists' = lists BY <1>3, <1>13, <1>15, <1>19
  <2>6. TriOK(t, gray', grayagain', allweak') /\ gray' \cup grayagain' \cup allweak' \subseteq Things
    BY <1>0, <1>11, <1>16, <2>1, <2>3, <2>4, <2>5, TriMark
  <2> QED BY <1>0, <1>1, <1>3, <1>5, <1>6, <1>9, <1>15, <1>19, <2>2, <2>6, WriteStep
<1>20. CASE color[u] = "black" /\ v # None /\ White(v) /\ ~ keepinvariant
  <2>1. /\ color' = [color EXCEPT ![u] = "white"]
        /\ grayagain' = grayagain /\ gray' = gray /\ allweak' = allweak
    BY <1>3, <1>20 DEF BarrierForward, marking
  <2>2. /\ color' \in [Things -> Colors] /\ color'[u] = "white"
        /\ \A x \in Things \ {u} : color'[x] = color[x]
    BY <1>5, <1>12, <2>1 DEF Colors
  <2>3. HeapOK(m) /\ LiveIn(m) = LiveIn(Sweeper) BY <1>1, <1>5, <1>20, <2>2, PaintedOK
  <2>4. gray' \cup grayagain' \cup allweak' \subseteq Things BY <1>14, <2>1
  <2>5. \A x \in Things : color[x] = "white" => color'[x] = "white" BY <2>2
  <2> QED BY <1>0, <1>1, <1>3, <1>5, <1>6, <1>9, <1>15, <1>20, <2>3, <2>4, <2>5, WriteStep
<1>21. CASE ~ (color[u] = "black" /\ v # None /\ White(v))
  <2>1. color' = color /\ gray' = gray /\ grayagain' = grayagain /\ allweak' = allweak
    BY <1>3, <1>21 DEF BarrierForward, BarrierNone, marking
  <2>2. HeapOK(m) /\ LiveIn(m) = LiveIn(Sweeper) BY <1>1, <2>1, PaintedNone
  <2>3. gcstate \in Marking => TriOK(t, gray', grayagain', allweak')
    <3> SUFFICES ASSUME gcstate \in Marking PROVE TriOK(t, gray, grayagain, allweak) BY <2>1
    <3>1. TriOK(Sweeper, gray, grayagain, allweak) BY <1>13
    <3>2. t.color = Sweeper.color BY <1>10, <2>1, SweeperNow
    <3>3. Sweeper.color[u] = "black" => BlackOK(t, u, {})
      BY <1>17, <1>18, <1>21, <3>2, SweeperNow DEF BlackOK, White, Unmarked
    <3>4. \A x \in Objects \ {u} : t.entry[x] = Sweeper.entry[x] BY <1>11, SweeperNow
    <3>5. TriCore(t, gray, grayagain, allweak, {})
      BY <1>10, <1>14, <3>1, <3>2, <3>3, <3>4, TriWrite DEF TriOK
    <3> QED BY <1>10, <3>1, <3>2, <3>5 DEF TriOK, Unmarked
  <2>4. gray' \cup grayagain' \cup allweak' \subseteq Things BY <1>14, <2>1
  <2>5. \A x \in Things : color[x] = "white" => color'[x] = "white" BY <2>1
  <2> QED BY <1>0, <1>1, <1>3, <1>5, <1>6, <1>9, <2>2, <2>3, <2>4, <2>5, WriteStep
<1> QED BY <1>19, <1>20, <1>21

\* OP_SETUPVAL: the write is to the thread of an open upvalue, or into the closure.
LEMMA SetUpvalueStep ==
  ASSUME IndInv, OnTrack, NEW f, NEW v, SetUpvalue(f, v)
  PROVE  IndInv'
<1>0. PICK t : t = Sweeper' OBVIOUS
<1>1. PICK m : Painted(m) BY PaintedExists
<1>2. PICK r : r = [key |-> None, val |-> v] OBVIOUS
<1>3. PICK p : p = IF IsOpen(f) THEN entry[f].key ELSE f OBVIOUS
<1>4. /\ ProgramRuns /\ {f, v} \subseteq stack \cup {None} /\ f # None /\ kind[f] = "lclosure"
      /\ entry' = IF IsOpen(f) THEN [entry EXCEPT ![entry[f].key].val = v]
                  ELSE [entry EXCEPT ![f].val = v]
      /\ IF keepinvariant /\ v # None /\ ~ IsOpen(f) THEN MarkNow(v) ELSE BarrierNone
      /\ kind' = kind /\ stack' = stack /\ upvalues' = upvalues /\ lists' = lists
      /\ finalizable' = finalizable
      /\ gcstate' = gcstate /\ sweepgc' = sweepgc /\ control' = control /\ history' = history
  BY DEF SetUpvalue
<1>5. ProgramNow BY <1>4, ProgramStart
<1>6. /\ f \in Allocated /\ f \in LiveIn(Sweeper) /\ v \in LiveIn(Sweeper) \cup {None}
      /\ f \in Objects /\ LiveIn(Sweeper) \subseteq Objects
      /\ entry \in [Objects -> Entries] /\ color \in [Things -> Colors]
      /\ Allocated \subseteq Objects /\ AllocatedIn(Sweeper) = Allocated
  BY <1>4, InvFacts
<1>7. f # Main /\ \A x \in Objects : x \in Things /\ x # Main BY <1>6, NoneIsNoThing DEF Things
<1>8. /\ p \in Allocated /\ entry[p].key = None /\ kind[p] \in {"thread", "lclosure"}
      /\ entry' = [entry EXCEPT ![p].val = v] /\ p \in Objects
      /\ IsOpen(f) => kind[p] = "thread"
      /\ ~ IsOpen(f) => p = f
  <2>1. /\ \A x \in openupval : x \in Allocated /\ kind[x] = "thread"
        /\ entry[f].key \in openupval \cup {None}
        /\ \A x \in Objects : kind[x] = "thread" => entry[x].key = None
    BY <1>4, <1>5, <1>6, SweeperNow DEF ProgramNow, HeapOK, UpvaluesOK
  <2>2. CASE IsOpen(f)
    <3>1. entry[f].key # None BY <2>2 DEF IsOpen, IsOpenIn
    <3> QED BY <1>3, <1>4, <1>6, <2>1, <2>2, <3>1
  <2>3. CASE ~ IsOpen(f)
    <3>1. entry[f].key = None BY <1>4, <1>7, <2>3 DEF IsOpen, IsOpenIn
    <3> QED BY <1>3, <1>4, <1>6, <2>3, <3>1
  <2> QED BY <2>2, <2>3
<1>9. entry' = [entry EXCEPT ![p] = r] BY ONLY <1>2, <1>6, <1>8, ValWritten
<1>10. Write(p, r) BY <1>4, <1>9 DEF Write
<1>11. /\ r \in Entries /\ {r.key, r.val} \subseteq LiveIn(Sweeper) \cup {None}
       /\ r.key = None /\ r.val = v
  BY <1>2, <1>6 DEF Entries, Values
<1>12. /\ t.color = color' /\ t.touched = Sweeper.touched /\ t.lists = Sweeper.lists
       /\ t.entry = entry'
  BY <1>0, <1>4, SweeperIs, SweeperNow DEF upvalues
<1>13. /\ t.entry[p] = r /\ \A x \in Objects \ {p} : t.entry[x] = entry[x]
       /\ t.entry \in [Objects -> Entries]
  BY <1>6, <1>8, <1>9, <1>11, <1>12
<1>14. gcstate \in Marking => TriOK(Sweeper, gray, grayagain, allweak) BY <1>5 DEF ProgramNow
<1>15. gray \cup grayagain \cup allweak \subseteq Things /\ kind \in Kinds BY <1>5 DEF ProgramNow
<1>16. keepinvariant <=> gcstate \in Marking BY DEF keepinvariant, Marking
<1>17. PICK w : Unpainted(t, w) BY UnpaintedExists
<1>18. w.color = Sweeper.color /\ w.entry = t.entry /\ w.touched = Sweeper.touched
  BY <1>12, <1>17, SweeperNow DEF Unpainted
<1>19. ~ IsOpen(f) => MarksEarly(t.entry, p, {}) = {v} /\ ~ IsOpenIn(t.entry, p)
  BY <1>4, <1>7, <1>8, <1>11, <1>13 DEF MarksEarly, Marks, IsOpenIn, UpvalValue
<1>20. IsOpen(f) => color[p] # "black"
  <2>1. \A x \in Things : StaysGray(x) => color[x] # "black"
    BY <1>5, SweeperNow DEF ProgramNow, HeapOK, ColorsOK
  <2> QED BY <1>7, <1>8, <2>1 DEF StaysGray
<1>21. CASE keepinvariant /\ v # None /\ ~ IsOpen(f)
  <2>1. MarkNow(v) /\ v \in LiveIn(Sweeper) /\ v \in Objects BY <1>4, <1>6, <1>21
  <2>2. HeapOK(m) /\ LiveIn(m) = LiveIn(Sweeper) BY <1>1, <1>5, <1>16, <1>21, <2>1, PaintedMark
  <2>3. TriCore(w, gray, grayagain, allweak, {v})
    <3>1. BlackOK(w, p, {v}) BY <1>18, <1>19, <1>21 DEF BlackOK
    <3>2. \A x \in Objects \ {p} : w.entry[x] = Sweeper.entry[x] BY <1>13, <1>18, SweeperNow
    <3> QED BY <1>14, <1>15, <1>16, <1>18, <1>21, <3>1, <3>2, TriWrite DEF TriOK
  <2>4. \A o \in Objects : kind[o] = "udata" /\ White(o) => t.entry[o].val = entry[o].val
    BY <1>8, <1>13
  <2>5. TriOK(Sweeper, gray, grayagain, allweak) /\ lists' = lists BY <1>4, <1>14, <1>16, <1>21
  <2>6. TriOK(t, gray', grayagain', allweak') /\ gray' \cup grayagain' \cup allweak' \subseteq Things
    BY <1>0, <1>13, <1>17, <2>1, <2>3, <2>4, <2>5, TriMark
  <2> QED BY <1>0, <1>1, <1>4, <1>8, <1>10, <1>11, <1>16, <1>21, <2>2, <2>6, WriteStep
<1>22. CASE ~ (keepinvariant /\ v # None /\ ~ IsOpen(f))
  <2>1. color' = color /\ gray' = gray /\ grayagain' = grayagain /\ allweak' = allweak
    BY <1>4, <1>22 DEF BarrierNone, marking
  <2>2. HeapOK(m) /\ LiveIn(m) = LiveIn(Sweeper) BY <1>1, <2>1, PaintedNone
  <2>3. gcstate \in Marking => TriOK(t, gray', grayagain', allweak')
    <3> SUFFICES ASSUME gcstate \in Marking PROVE TriOK(t, gray, grayagain, allweak) BY <2>1
    <3>1. TriOK(Sweeper, gray, grayagain, allweak) BY <1>14
    <3>2. t.color = Sweeper.color BY <1>12, <2>1, SweeperNow
    <3>3. Sweeper.color[p] = "black" => BlackOK(t, p, {})
      BY <1>16, <1>19, <1>20, <1>22, SweeperNow DEF BlackOK
    <3>4. \A x \in Objects \ {p} : t.entry[x] = Sweeper.entry[x] BY <1>13, SweeperNow
    <3>5. TriCore(t, gray, grayagain, allweak, {})
      BY <1>12, <1>15, <3>1, <3>2, <3>3, <3>4, TriWrite DEF TriOK
    <3> QED BY <1>12, <3>1, <3>2, <3>5 DEF TriOK, Unmarked
  <2>4. gray' \cup grayagain' \cup allweak' \subseteq Things BY <1>15, <2>1
  <2>5. \A x \in Things : color[x] = "white" => color'[x] = "white" BY <2>1
  <2> QED BY <1>0, <1>1, <1>4, <1>8, <1>10, <1>11, <2>2, <2>3, <2>4, <2>5, WriteStep
<1> QED BY <1>21, <1>22

\* luaF_close, with luaC_upvalbarrier on the closures that take the value.
LEMMA CloseUpvalueStep ==
  ASSUME IndInv, OnTrack, NEW th, CloseUpvalue(th)
  PROVE  IndInv'
<1>0. PICK t : t = Sweeper' OBVIOUS
<1>1. PICK m : Painted(m) BY PaintedExists
<1>2. PICK v : v = entry[th].val OBVIOUS
<1> DEFINE Closed == \E f \in Allocated : IsOpen(f) /\ entry[f].key = th
           Close(e) == [o \in Objects |->
              IF o = th THEN Nothing
              ELSE IF kind[o] = "lclosure" /\ e[o].key = th THEN e[th] ELSE e[o]]
<1>3. /\ ProgramRuns /\ th \in stack \cap openupval
      /\ entry' = Close(entry)
      /\ openupval' = openupval \ {th} /\ touched' = touched \ {th} /\ twups' = twups
      /\ IF keepinvariant /\ v # None /\ Closed THEN MarkNow(v) ELSE BarrierNone
      /\ kind' = kind /\ stack' = stack /\ lists' = lists /\ finalizable' = finalizable
      /\ gcstate' = gcstate /\ sweepgc' = sweepgc /\ control' = control /\ history' = history
  BY <1>2 DEF CloseUpvalue
<1>4. ProgramNow BY <1>3, ProgramStart
<1>5. strayed' = strayed /\ garbage' = {} BY <1>3, <1>4 DEF history, ProgramNow
<1>6. /\ th \in Allocated /\ th \in LiveIn(Sweeper) /\ th \in Objects
      /\ LiveIn(Sweeper) \subseteq Objects /\ lists \in Lists
      /\ entry \in [Objects -> Entries] /\ color \in [Things -> Colors]
      /\ AllocatedIn(Sweeper) = Allocated
  BY <1>3, InvFacts
<1>7. \A x \in Objects : x \in Things /\ x # Main /\ x # None BY NoneIsNoThing DEF Things
<1>8. kind[th] = "thread" /\ entry[th].key = None /\ v \in LiveIn(Sweeper) \cup {None}
  <2>1. UpvaluesOK(Sweeper) /\ PointersOK(Sweeper) BY <1>4 DEF ProgramNow, HeapOK
  <2>2. kind[th] = "thread" /\ entry[th].key = None BY <1>3, <1>6, <2>1, SweeperNow DEF UpvaluesOK
  <2> QED BY <1>2, <1>6, <2>1, <2>2, SweeperNow DEF PointersOK, HoldsIn
<1> HIDE DEF Closed, Close
<1>9. /\ \A o \in Objects : kind[o] = "lclosure" /\ entry[o].key = th => entry'[o] = entry[th]
      /\ \A o \in Objects \ {th} : ~ (kind[o] = "lclosure" /\ entry[o].key = th) => entry'[o] = entry[o]
      /\ entry'[th] = Nothing
  BY <1>3, <1>6, <1>8 DEF Close
<1>10. entry' \in [Objects -> Entries] BY <1>3, <1>6 DEF Close, Entries, Nothing, Values
<1>11. /\ t.lists = Sweeper.lists /\ t.sweepgc = Sweeper.sweepgc /\ t.color = color'
       /\ t.openupval = openupval \ {th} /\ t.touched = touched \ {th} /\ t.twups = twups
       /\ t.entry = entry'
  BY <1>0, <1>3, SweeperIs, SweeperNow
<1>12. gcstate \in Marking => TriOK(Sweeper, gray, grayagain, allweak) BY <1>4 DEF ProgramNow
<1>13. gray \cup grayagain \cup allweak \subseteq Things /\ kind \in Kinds BY <1>4 DEF ProgramNow
<1>14. keepinvariant <=> gcstate \in Marking BY DEF keepinvariant, Marking
<1>15. PICK w : Unpainted(t, w) BY UnpaintedExists
<1>16. w.color = Sweeper.color /\ w.entry = entry' /\ w.touched = touched \ {th}
  BY <1>11, <1>15, SweeperNow DEF Unpainted
<1>17. color[th] # "black"
  BY <1>4, <1>6, <1>7, <1>8, SweeperNow DEF ProgramNow, HeapOK, ColorsOK, StaysGray
<1>18. ASSUME NEW e, e = entry', NEW o \in Objects, kind[o] = "lclosure", entry[o].key = th
       PROVE  MarksEarly(e, o, {}) = {v} /\ ~ IsOpenIn(e, o)
  BY <1>2, <1>7, <1>8, <1>9, <1>18 DEF MarksEarly, Marks, IsOpenIn, UpvalValue
<1>19. \A o \in Objects \ {th} : IsOpenIn(entry', o) => entry'[o].key # th
  <2> SUFFICES ASSUME NEW o \in Objects \ {th}, IsOpenIn(entry', o), entry'[o].key = th
               PROVE FALSE
    OBVIOUS
  <2>1. kind[o] = "lclosure" /\ entry'[o].key # None BY DEF IsOpenIn
  <2> QED BY <1>8, <1>9, <2>1
<1>20. \A o \in Objects : color[o] = "black" /\ kind[o] = "lclosure" /\ entry[o].key = th => Closed
  <2>1. \A o \in Objects \ Allocated : color[o] = "white"
    BY <1>4, <1>6, SweeperNow DEF ProgramNow, HeapOK, FreeOK
  <2> QED BY <1>6, <1>7, <2>1 DEF Closed, IsOpen, IsOpenIn
<1>21. /\ HeapOK(m) /\ LiveIn(m) = LiveIn(Sweeper)
       /\ gcstate \in Marking => TriOK(t, gray', grayagain', allweak')
       /\ gray' \cup grayagain' \cup allweak' \subseteq Things
       /\ gcstate \notin Marking => color' = color
  <2>1. CASE keepinvariant /\ v # None /\ Closed
    <3>1. MarkNow(v) /\ v \in LiveIn(Sweeper) /\ v \in Objects BY <1>3, <1>6, <1>8, <2>1
    <3>2. HeapOK(m) /\ LiveIn(m) = LiveIn(Sweeper) BY <1>1, <1>4, <1>14, <2>1, <3>1, PaintedMark
    <3>3. TriCore(w, gray, grayagain, allweak, {v})
      <4>1. \A o \in Objects : kind[o] = "lclosure" /\ entry[o].key = th => BlackOK(w, o, {v})
        BY <1>16, <1>18 DEF BlackOK
      <4>2. ASSUME NEW o \in Objects, o # th, ~ (kind[o] = "lclosure" /\ entry[o].key = th)
            PROVE  /\ w.entry[o] = Sweeper.entry[o]
                   /\ IsOpenIn(w.entry, o) /\ w.entry[o].key \in Sweeper.touched
                        => w.entry[o].key \in w.touched
        BY <1>9, <1>16, <1>19, <4>2, SweeperNow
      <4>3. \A o \in Objects : Sweeper.color[o] = "black" =>
              \/ BlackOK(w, o, {v})
              \/ /\ w.entry[o] = Sweeper.entry[o]
                 /\ IsOpenIn(w.entry, o) /\ w.entry[o].key \in Sweeper.touched
                      => w.entry[o].key \in w.touched
        BY <1>17, <4>1, <4>2, SweeperNow
      <4>4. TriCore(Sweeper, gray, grayagain, allweak, {}) BY <1>12, <1>14, <2>1 DEF TriOK
      <4> QED BY ONLY <1>13, <1>16, <4>3, <4>4, TriWrite
    <3>4. \A o \in Objects : kind[o] = "udata" /\ White(o) => t.entry[o].val = entry[o].val
      BY <1>8, <1>9, <1>11
    <3>5. TriOK(Sweeper, gray, grayagain, allweak) /\ lists' = lists BY <1>3, <1>12, <1>14, <2>1
    <3>6. TriOK(t, gray', grayagain', allweak') /\ gray' \cup grayagain' \cup allweak' \subseteq Things
      BY <1>0, <1>10, <1>11, <1>15, <3>1, <3>3, <3>4, <3>5, TriMark
    <3> QED BY <1>14, <2>1, <3>2, <3>6
  <2>2. CASE ~ (keepinvariant /\ v # None /\ Closed)
    <3>1. color' = color /\ gray' = gray /\ grayagain' = grayagain /\ allweak' = allweak
      BY <1>3, <2>2 DEF BarrierNone, marking
    <3>2. HeapOK(m) /\ LiveIn(m) = LiveIn(Sweeper) BY <1>1, <3>1, PaintedNone
    <3>3. gcstate \in Marking => TriOK(t, gray', grayagain', allweak')
      <4> SUFFICES ASSUME gcstate \in Marking PROVE TriOK(t, gray, grayagain, allweak) BY <3>1
      <4>1. TriOK(Sweeper, gray, grayagain, allweak) BY <1>12
      <4>2. t.color = Sweeper.color BY <1>11, <3>1, SweeperNow
      <4>3. \A o \in Objects : color[o] = "black" /\ kind[o] = "lclosure" /\ entry[o].key = th
              => BlackOK(t, o, {})
        BY <1>11, <1>14, <1>18, <1>20, <2>2 DEF BlackOK
      <4>4. ASSUME NEW o \in Objects, o # th, ~ (kind[o] = "lclosure" /\ entry[o].key = th)
            PROVE  /\ t.entry[o] = Sweeper.entry[o]
                   /\ IsOpenIn(t.entry, o) /\ t.entry[o].key \in Sweeper.touched
                        => t.entry[o].key \in t.touched
        BY <1>9, <1>11, <1>19, <4>4, SweeperNow
      <4>5. \A o \in Objects : Sweeper.color[o] = "black" =>
              \/ BlackOK(t, o, {})
              \/ /\ t.entry[o] = Sweeper.entry[o]
                 /\ IsOpenIn(t.entry, o) /\ t.entry[o].key \in Sweeper.touched
                      => t.entry[o].key \in t.touched
        BY <1>17, <4>3, <4>4, SweeperNow
      <4>6. TriCore(Sweeper, gray, grayagain, allweak, {}) BY <4>1 DEF TriOK
      <4>7. TriCore(t, gray, grayagain, allweak, {})
        BY ONLY <1>13, <4>2, <4>5, <4>6, TriWrite
      <4> QED BY <1>11, <4>1, <4>2, <4>7 DEF TriOK, Unmarked
    <3>4. gray' \cup grayagain' \cup allweak' \subseteq Things BY <1>13, <3>1
    <3> QED BY <3>1, <3>2, <3>3, <3>4
  <2> QED BY <2>1, <2>2
<1>22. HeapOK(t) /\ LiveIn(t) = LiveIn(m)
  <2>1. /\ m.entry = entry /\ m.openupval = openupval /\ m.twups = twups /\ m.touched = touched
        /\ m.lists = lists /\ m.sweepgc = sweepgc /\ m.color = color'
    BY <1>1, SweeperNow DEF Painted, Same
  <2>2. t.entry = [o \in Objects |-> IF o = th THEN Nothing
                      ELSE IF kind[o] = "lclosure" /\ m.entry[o].key = th THEN m.entry[th]
                      ELSE m.entry[o]]
    BY <1>3, <1>11, <2>1 DEF Close
  <2>3. /\ t.lists = m.lists /\ t.color = m.color /\ t.sweepgc = m.sweepgc
        /\ t.openupval = m.openupval \ {th} /\ t.touched = m.touched \ {th} /\ t.twups = m.twups
        /\ th \in LiveIn(m) /\ th \in m.openupval /\ HeapOK(m)
    BY <1>3, <1>6, <1>11, <1>21, <2>1, SweeperNow
  <2> QED BY ONLY <1>13, <2>2, <2>3, HeapClose
<1>23. SweepOK(t, gcstate)
  <2>1. SweepOK(Sweeper, gcstate) /\ gcstate \in GCStates BY <1>4 DEF ProgramNow
  <2>2. CASE gcstate \in Marking
    BY <1>11, <2>1, <2>2 DEF SweepOK, Marking, SweepStates
  <2>3. CASE gcstate \notin Marking
    <3>1. WhiteStays(Sweeper, t) BY <1>11, <1>21, <2>3, SweeperNow DEF WhiteStays
    <3> QED BY <1>6, <1>11, <2>1, <3>1, SweepSame, SweeperNow
  <2> QED BY <2>2, <2>3
<1>24. RootsOK(t, stack', finalizable')
  <2>1. RootsOK(Sweeper, stack, finalizable) BY <1>4 DEF ProgramNow
  <2>2. LiveIn(t) = LiveIn(Sweeper) /\ t.lists = Sweeper.lists BY <1>11, <1>21, <1>22
  <2> QED BY <1>3, <2>1, <2>2, RootsSame
<1> QED BY <1>0, <1>3, <1>5, <1>21, <1>22, <1>23, <1>24, ProgramStep

\* sweepgc is in allgc only while that list is swept.
LEMMA SweptAllgc ==
  ASSUME NEW s, HeapOK(s), NEW state \in GCStates, SweepOK(s, state), s.sweepgc \in ToSet(s.lists.allgc)
  PROVE  state = "swpallgc"
<1>1. s.lists \in Lists /\ OnePlace(s.lists) BY DEF HeapOK, SweeperOK
<1>2. /\ s.lists.allgc \in Seq(Objects) /\ s.lists.finobj \in Seq(Objects) /\ s.lists.tobefnz \in Seq(Objects)
      /\ ToSet(s.lists.allgc) \cap ToSet(s.lists.tobefnz) = {}
      /\ ToSet(s.lists.allgc) \cap ToSet(s.lists.finobj) = {}
  BY <1>1, ListFacts
<1>3. s.sweepgc \in Objects BY <1>2, SetOfSeq
<1>4. s.sweepgc # None /\ s.sweepgc # Header BY <1>3, AddressAssumption
<1>5. ASSUME NEW l \in Seq(Objects), SweptSomewhere(s, l) PROVE s.sweepgc \in ToSet(l)
  <2>1. PICK p \in 0 .. Len(l) : Swept(s, l, p) BY <1>5 DEF SweptSomewhere
  <2>2. p \in DOMAIN l /\ s.sweepgc = l[p] BY <1>4, <2>1 DEF Swept
  <2> QED BY <2>2, SetOfSeq
<1>6. state \in SweepStates BY <1>4 DEF SweepOK
<1>7. SweptSomewhere(s, s.lists[ListOf(state)]) BY <1>6 DEF SweepOK
<1>8. state # "swptobefnz" BY <1>2, <1>5, <1>7 DEF ListOf
<1>9. state # "swpfinobj" BY <1>2, <1>5, <1>7 DEF ListOf
<1> QED BY <1>6, <1>8, <1>9 DEF SweepStates

\* luaC_checkfinalizer leaves s before it moves the object u: u is white unless the
\* collector is marking, and sweepgc is not in it.
ReadyToMove(s, u) ==
  /\ IsSweeper(s) /\ HeapOK(s) /\ LiveIn(s) = LiveIn(Sweeper) /\ SweepOK(s, gcstate)
  /\ s.sweepgc # u /\ u \in ToSet(s.lists.allgc)
  /\ s.lists.finobj = lists.finobj /\ s.lists.tobefnz = lists.tobefnz
  /\ gcstate \notin Marking => s.color[u] = "white"
  /\ gcstate \in Marking => s = Sweeper

\* luaC_checkfinalizer takes sweepgc out of the object it is about to move.
LEMMA CheckFinalizer ==
  ASSUME IndInv, OnTrack, ProgramRuns, NEW u \in stack \ finalizable, kind[u] = "udata",
         NEW w, w = [Sweeper EXCEPT !.color[u] = "white"],
         NEW s, s = IF ~ issweepphase THEN Sweeper
                    ELSE IF sweepgc = u THEN sweeptolive(w, gcstate) ELSE w
  PROVE  ReadyToMove(s, u)
<1>1. ProgramNow BY ProgramStart
<1>2. /\ HeapOK(Sweeper) /\ SweepOK(Sweeper, gcstate) /\ gcstate \in GCStates /\ kind \in Kinds
  BY <1>1 DEF ProgramNow
<1>3. /\ lists \in Lists /\ OnePlace(lists) /\ color \in [Things -> Colors]
      /\ sweepgc \in Values \cup {Header} /\ AllocatedIn(Sweeper) = Allocated
      /\ u \in LiveIn(Sweeper) /\ u \in Allocated /\ u \in Objects /\ color[u] # "dead"
      /\ finalizable = ToSet(lists.finobj) \cup ToSet(lists.tobefnz)
  BY InvFacts
<1>4. u \in ToSet(lists.allgc)
  <2>1. AllocatedIn(Sweeper) = ToSet(lists.allgc) \cup ToSet(lists.finobj) \cup ToSet(lists.tobefnz)
    BY <1>3, AllocatedIs, SweeperNow
  <2> QED BY <1>3, <2>1
<1>5. u \in Things /\ u # Main /\ u # None /\ u # Header
  BY <1>3, NoneIsNoThing, AddressAssumption DEF Things
<1>6. CASE ~ issweepphase
  <2>1. s = Sweeper BY <1>6
  <2>2. gcstate \notin SweepStates BY <1>6 DEF issweepphase, SweepStates
  <2>3. sweepgc # u BY <1>2, <1>5, <2>2, SweeperNow DEF SweepOK
  <2>4. gcstate \notin Marking => color[u] = "white"
    <3> SUFFICES ASSUME gcstate \notin Marking PROVE color[u] = "white" OBVIOUS
    <3>1. gcstate \in {"callfin", "pause"} BY <1>2, <1>6 DEF issweepphase, GCStates, SweepStates
    <3> QED BY <1>5, <3>1, PausedWhite
  <2> QED BY <1>2, <1>4, <2>1, <2>3, <2>4, SweeperNow DEF ReadyToMove
<1>7. CASE issweepphase
  <2>0. gcstate \notin Marking BY <1>7 DEF issweepphase, Marking
  <2>1. /\ IsSweeper(w) /\ Same(Sweeper, w) /\ w.lists = lists /\ w.sweepgc = sweepgc
        /\ w.touched = touched /\ w.color = [color EXCEPT ![u] = "white"]
    BY DEF IsSweeper, Sweeper, Same
  <2>2. /\ w.color \in [Things -> Colors] /\ w.color[u] = "white"
        /\ \A x \in Things \ {u} : w.color[x] = color[x]
    BY <1>3, <1>5, <2>1 DEF Colors
  <2>3. AllocatedIn(w) = AllocatedIn(Sweeper) BY <2>1, SweeperNow DEF AllocatedIn
  <2>4. Recolors(Sweeper, w)
    <3>1. /\ touched \subseteq openupval
          /\ \A o \in Things : StaysGray(o) => color[o] # "black"
          /\ \A o \in Objects \ Allocated : color[o] = "white"
      BY <1>2, <1>3, SweeperNow DEF HeapOK, ColorsOK, UpvaluesOK, FreeOK
    <3>2. /\ \A o \in Things : w.color[o] = "dead" <=> Sweeper.color[o] = "dead"
          /\ \A o \in Things : StaysGray(o) => w.color[o] # "black"
      BY <1>3, <2>2, <3>1, SweeperNow
    <3>3. \A o \in Objects \ AllocatedIn(Sweeper) : w.color[o] = "white"
      BY <1>3, <2>2, <3>1 DEF Things
    <3> QED BY <1>3, <2>1, <2>2, <2>3, <3>1, <3>2, <3>3, SweeperNow DEF Recolors, Same
  <2>5. HeapOK(w) /\ LiveIn(w) = LiveIn(Sweeper) BY <1>2, <2>4, HeapRecolor
  <2>6. WhiteStays(Sweeper, w) BY <2>2, SweeperNow DEF WhiteStays
  <2>7. SweepOK(w, gcstate) BY <1>2, <1>3, <2>1, <2>6, SweepSame, SweeperNow
  <2>8. CASE sweepgc # u
    <3>1. s = w BY <1>7, <2>8
    <3> QED BY <1>4, <2>0, <2>1, <2>2, <2>5, <2>7, <2>8, <3>1 DEF ReadyToMove
  <2>9. CASE sweepgc = u
    <3>1. s = sweeptolive(w, gcstate) BY <1>7, <2>9
    <3>2. gcstate = "swpallgc" BY <1>2, <1>4, <2>9, SweptAllgc, SweeperNow
    <3>3. gcstate \in SweepStates /\ ListOf(gcstate) = "allgc" /\ "allgc" \in ListNames
      BY <3>2 DEF SweepStates, ListOf, ListNames
    <3>4. PICK p \in 0 .. Len(w.lists["allgc"]) : Swept(w, w.lists["allgc"], p)
      BY <2>7, <3>3 DEF SweepOK, SweptSomewhere
    <3>5. w.sweepgc # None BY <1>5, <2>1, <2>9
    <3>6. SweepsOn(w, s, "allgc") /\ s.sweepgc # w.sweepgc
      BY ONLY <1>2, <2>1, <2>5, <3>1, <3>3, <3>4, <3>5, SweepToLiveOK
    <3>7. /\ IsSweeper(s) /\ KeepsHeap(w, s, "allgc") /\ SweptSomewhere(s, s.lists["allgc"])
          /\ \A o \in Things : w.color[o] = "white" => s.color[o] = "white"
      BY <3>6 DEF SweepsOn
    <3>8. HeapOK(s) /\ LiveIn(s) = LiveIn(w) /\ \A n \in ListNames \ {"allgc"} : s.lists[n] = w.lists[n]
      BY <3>7 DEF KeepsHeap
    <3>9. s.lists.finobj = lists.finobj /\ s.lists.tobefnz = lists.tobefnz
      BY <2>1, <3>8 DEF ListNames
    <3>10. u \in ToSet(s.lists.allgc)
      <4>1. ToSet(w.lists["allgc"]) \cap LiveIn(w) \subseteq ToSet(s.lists["allgc"])
        BY ONLY <2>5, <3>3, <3>7, KeptLists
      <4> QED BY <1>3, <1>4, <2>1, <2>5, <4>1
    <3>11. SweepOK(s, gcstate)
      BY <3>2, <3>3, <3>7 DEF SweepOK, SweptLists
    <3> QED BY <1>5, <2>0, <2>1, <2>2, <2>5, <2>9, <3>6, <3>7, <3>8, <3>9, <3>10, <3>11 DEF ReadyToMove
  <2> QED BY <2>8, <2>9
<1> QED BY <1>6, <1>7

\* r is s with the object u in the list finobj.
Moved(s, r, u) ==
  r = [s EXCEPT !.lists.allgc = Keep(@, Objects \ {u}), !.lists.finobj = <<u>> \o @]

\* Moved, field by field.
LEMMA MovedIs ==
  ASSUME NEW s, IsSweeper(s), NEW u, NEW r, Moved(s, r, u)
  PROVE  /\ IsSweeper(r) /\ r.color = s.color /\ r.sweepgc = s.sweepgc /\ r.touched = s.touched
         /\ Same(s, r) /\ Moves(s.lists, r.lists, u)
<1>1. PICK l : l = s.lists OBVIOUS
<1>2. PICK k : k = [l EXCEPT !.allgc = Keep(@, Objects \ {u}), !.finobj = <<u>> \o @] OBVIOUS
<1>3. r = [s EXCEPT !.lists = k] BY <1>1, <1>2 DEF Moved
<1>4. /\ IsSweeper(r) /\ r.color = s.color /\ r.sweepgc = s.sweepgc /\ r.touched = s.touched
      /\ Same(s, r) /\ r.lists = k
  BY ONLY <1>3, IsSweeper(s) DEF IsSweeper, Same
<1> QED BY <1>1, <1>2, <1>4 DEF Moves

\* luaC_checkfinalizer keeps the invariant, and finalizes nothing.
LEMMA SetFinalizerStep ==
  ASSUME IndInv, OnTrack, NEW u, SetFinalizer(u)
  PROVE  IndInv' /\ NothingNew
<1>0. PICK t : t = Sweeper' OBVIOUS
<1>1. PICK w : w = [Sweeper EXCEPT !.color[u] = "white"] OBVIOUS
<1>2. PICK s : s = IF ~ issweepphase THEN Sweeper
                   ELSE IF sweepgc = u THEN sweeptolive(w, gcstate) ELSE w
  OBVIOUS
<1>3. PICK r : Moved(s, r, u) BY DEF Moved
<1>4. Becomes(r) BY <1>1, <1>2, <1>3 DEF SetFinalizer, Moved
<1>5. /\ ProgramRuns /\ u \in stack \ finalizable /\ kind[u] = "udata"
      /\ finalizable' = finalizable \cup {u}
      /\ kind' = kind /\ stack' = stack /\ gcstate' = gcstate /\ control' = control
      /\ gray' = gray /\ grayagain' = grayagain /\ allweak' = allweak
  BY DEF SetFinalizer, marking
<1>6. ReadyToMove(s, u) BY ONLY IndInv, OnTrack, <1>1, <1>2, <1>5, CheckFinalizer
<1>7. /\ IsSweeper(s) /\ HeapOK(s) /\ LiveIn(s) = LiveIn(Sweeper) /\ SweepOK(s, gcstate)
      /\ s.sweepgc # u /\ u \in ToSet(s.lists.allgc)
      /\ s.lists.finobj = lists.finobj /\ s.lists.tobefnz = lists.tobefnz
      /\ gcstate \notin Marking => s.color[u] = "white"
      /\ gcstate \in Marking => s = Sweeper
  BY <1>6 DEF ReadyToMove
<1>8. /\ IsSweeper(r) /\ r.color = s.color /\ r.sweepgc = s.sweepgc /\ r.touched = s.touched
      /\ Same(s, r) /\ Moves(s.lists, r.lists, u)
  BY ONLY <1>3, <1>7, MovedIs
<1>9. t = r /\ garbage' = garbage \cap AllocatedIn(r) /\ strayed' = strayed
  BY ONLY <1>0, <1>4, <1>8, BecomesIs
<1>10. ProgramNow BY <1>5, ProgramStart
<1>11. /\ garbage' = {} /\ gcstate \in GCStates /\ kind \in Kinds
       /\ gray' \cup grayagain' \cup allweak' \subseteq Things
       /\ RootsOK(Sweeper, stack, finalizable)
       /\ gcstate \in Marking => TriOK(Sweeper, gray, grayagain, allweak)
  BY <1>5, <1>9, <1>10 DEF ProgramNow
<1>12. s.lists \in Lists /\ OnePlace(s.lists) /\ s.sweepgc \in Values \cup {Header}
       /\ s.color \in [Things -> Colors] /\ s.touched \subseteq s.openupval
  BY <1>7 DEF HeapOK, SweeperOK, UpvaluesOK
<1>13. /\ t.lists \in Lists /\ OnePlace(t.lists)
       /\ t.lists.allgc = Keep(s.lists.allgc, Objects \ {u})
       /\ t.lists.finobj = <<u>> \o s.lists.finobj /\ t.lists.tobefnz = s.lists.tobefnz
       /\ ToSet(t.lists.allgc) = ToSet(s.lists.allgc) \ {u}
       /\ ToSet(t.lists.finobj) = {u} \cup ToSet(s.lists.finobj)
  <2>1. Moves(s.lists, t.lists, u) BY ONLY <1>8, <1>9
  <2>2. s.lists \in Lists /\ OnePlace(s.lists) /\ u \in ToSet(s.lists.allgc) BY ONLY <1>7, <1>12
  <2> QED BY ONLY <2>1, <2>2, ListsMove, ZenonT(30)
<1>14. AllocatedIn(t) = AllocatedIn(s)
  <2>1. AllocatedIn(t) = ToSet(t.lists.allgc) \cup ToSet(t.lists.finobj) \cup ToSet(t.lists.tobefnz)
    BY ONLY <1>13, AllocatedIs
  <2>2. AllocatedIn(s) = ToSet(s.lists.allgc) \cup ToSet(s.lists.finobj) \cup ToSet(s.lists.tobefnz)
    BY ONLY <1>12, AllocatedIs
  <2> QED BY ONLY <1>7, <1>13, <2>1, <2>2
<1>15. HeapOK(t) /\ LiveIn(t) = LiveIn(s)
  <2>1. /\ \A o \in Objects \ AllocatedIn(s) : s.color[o] = "white"
        /\ \A o \in Things : StaysGray(o) => s.color[o] # "black"
    BY <1>7 DEF HeapOK, FreeOK, ColorsOK
  <2>2. Recolors(s, t)
    BY ONLY <1>8, <1>9, <1>12, <1>13, <1>14, <2>1 DEF Recolors, Same
  <2> QED BY ONLY <1>7, <2>2, HeapRecolor
<1>16. u \in Objects
  <2>1. s.lists.allgc \in Seq(Objects) BY ONLY <1>12, ListFacts
  <2> QED BY ONLY <1>7, <2>1, SetOfSeq
<1>17. SweepOK(t, gcstate)
  <2>1. WhiteStays(s, t) BY ONLY <1>8, <1>9 DEF WhiteStays
  <2>2. Once(s.lists.allgc) BY ONLY <1>12, ListFacts
  <2>3. t.sweepgc = s.sweepgc /\ (gcstate \notin Marking => t.color[u] = "white")
    BY ONLY <1>7, <1>8, <1>9
  <2> QED BY ONLY <1>7, <1>11, <1>12, <1>13, <1>16, <2>1, <2>2, <2>3, SweepMove
<1>18. gcstate \in Marking => TriOK(t, gray', grayagain', allweak')
  <2> SUFFICES ASSUME gcstate \in Marking PROVE TriOK(t, gray, grayagain, allweak) BY <1>5
  <2>1. TriOK(s, gray, grayagain, allweak) BY <1>7, <1>11
  <2>2. /\ t.color = s.color /\ t.entry = s.entry /\ t.touched = s.touched
        /\ ToSet(t.lists.tobefnz) \subseteq ToSet(s.lists.tobefnz)
    BY ONLY <1>8, <1>9, <1>13 DEF Same
  <2> QED BY ONLY <2>1, <2>2, TriSame
<1>19. RootsOK(t, stack', finalizable')
  <2>1. /\ stack \cup finalizable \subseteq LiveIn(Sweeper)
        /\ finalizable = ToSet(lists.finobj) \cup ToSet(lists.tobefnz)
        /\ \A o \in finalizable : kind[o] = "udata"
    BY ONLY <1>11, SweeperNow DEF RootsOK
  <2>2. stack' \cup finalizable' \subseteq LiveIn(t) BY ONLY <1>5, <1>7, <1>15, <2>1
  <2>3. finalizable' = ToSet(t.lists.finobj) \cup ToSet(t.lists.tobefnz)
    BY ONLY <1>5, <1>7, <1>13, <2>1
  <2>4. \A o \in finalizable' : kind[o] = "udata" BY ONLY <1>5, <2>1
  <2> QED BY ONLY <2>2, <2>3, <2>4 DEF RootsOK
<1>20. NothingNew
  <2>1. t.lists = lists' BY <1>0, SweeperIs
  <2> QED BY ONLY <1>7, <1>13, <2>1 DEF NothingNew
<1>21. IndInv'
  BY ONLY IndInv, OnTrack, <1>0, <1>5, <1>9, <1>11, <1>15, <1>17, <1>18, <1>19, ProgramStep
<1> QED BY ONLY <1>20, <1>21

-----------------------------------------------------------------------------
(* The invariant is one *)

\* A new state, in which nothing but the main thread exists.
LEMMA InitInv ==
  ASSUME Init
  PROVE  IndInv
<1>1. /\ kind \in Kinds /\ entry = [o \in Objects |-> Nothing] /\ stack = {}
      /\ openupval = {} /\ touched = {} /\ twups = {}
      /\ lists = [allgc |-> << >>, finobj |-> << >>, tobefnz |-> << >>]
      /\ color = [o \in Things |-> "white"] /\ finalizable = {}
      /\ gcstate = "pause" /\ sweepgc = None
      /\ gray = {} /\ grayagain = {} /\ allweak = {}
      /\ gcrunning = TRUE /\ full = "no" /\ emergency = FALSE /\ garbage = {} /\ strayed = FALSE
  BY DEF Init
<1>2. /\ \A n \in ListNames : lists[n] = << >>
      /\ lists = [n \in ListNames |-> << >>]
      /\ lists.finobj = << >> /\ lists.tobefnz = << >>
  <2> HIDE DEF Init
  <2> QED BY <1>1 DEF ListNames
<1>3. << >> \in Seq(Objects) /\ ToSet(<< >>) = {} /\ Once(<< >>) /\ Len(<< >>) = 0
  BY DEF ToSet, Once
<1>4. lists \in Lists /\ OnePlace(lists) BY <1>2, <1>3 DEF Lists, OnePlace
<1>5. AllocatedIn(Sweeper) = {} BY <1>2, <1>3, <1>4, SweeperNow DEF AllocatedIn, Lists
<1>6. Nothing \in Entries /\ Nothing.key = None BY DEF Nothing, Entries, Values
<1>7. SweeperOK(Sweeper) BY <1>1, <1>4, <1>6, SweeperNow DEF SweeperOK, Colors, Values
<1>8. FreeOK(Sweeper) BY <1>1, SweeperNow DEF FreeOK, Things
<1>9. UpvaluesOK(Sweeper) BY <1>1, <1>6, SweeperNow DEF UpvaluesOK
<1>10. LiveIn(Sweeper) = {} BY <1>5 DEF LiveIn
<1>11. PointersOK(Sweeper) BY <1>10 DEF PointersOK
<1>12. ColorsOK(Sweeper) BY <1>1, NoneIsNoThing, SweeperNow DEF ColorsOK
<1>13. SweepOK(Sweeper, gcstate)
  <2>1. \A n \in ListNames : AllWhite(Sweeper, ToSet(Sweeper.lists[n]))
    BY <1>2, <1>3, SweeperNow DEF AllWhite
  <2>2. color[Main] = "white" BY <1>1, NoneIsNoThing
  <2> QED BY <1>1, <2>1, <2>2, SweeperNow DEF SweepOK, SweptLists, SweepStates
<1>14. StateOK(Sweeper, gcstate, gray, grayagain, allweak)
  BY <1>1, <1>7, <1>8, <1>9, <1>11, <1>12, <1>13, SweeperNow DEF StateOK, HeapOK, GCStates, Marking
<1>15. RootsOK(Sweeper, stack, finalizable)
  BY <1>1, <1>2, <1>3, SweeperNow DEF RootsOK
<1>16. GarbageOK(Sweeper, gcstate, full, garbage) BY <1>1 DEF GarbageOK
<1>17. ControlOK(gcstate, gcrunning, full, emergency) BY <1>1 DEF ControlOK
<1> QED BY <1>1, <1>14, <1>15, <1>16, <1>17 DEF IndInv

\* The program does not move sweepgc, nor the object it points into.
LEMMA ProgramKeepsTrack ==
  ASSUME Program
  PROVE  kind' = kind /\ strayed' = strayed
<1>1. ASSUME NEW o, New(o) PROVE kind' = kind /\ strayed' = strayed
  BY <1>1 DEF New, heap, history
<1>2. ASSUME NEW o, Pop(o) PROVE kind' = kind /\ strayed' = strayed
  BY <1>2 DEF Pop, heap, collector, history
<1>3. ASSUME NEW o, Load(o) PROVE kind' = kind /\ strayed' = strayed
  BY <1>3 DEF Load, heap, collector, history
<1>4. ASSUME NEW o, SetFinalizer(o) PROVE kind' = kind /\ strayed' = strayed
  BY <1>4 DEF SetFinalizer, Becomes
<1>5. ASSUME NEW o, CloseUpvalue(o) PROVE kind' = kind /\ strayed' = strayed
  BY <1>5 DEF CloseUpvalue, history
<1>6. ASSUME NEW o, NEW k, NEW v, SetTable(o, k, v) PROVE kind' = kind /\ strayed' = strayed
  BY <1>6 DEF SetTable, history
<1>7. ASSUME NEW o, NEW v, SetUservalue(o, v) \/ SetLocal(o, v) \/ SetUpvalue(o, v)
      PROVE  kind' = kind /\ strayed' = strayed
  BY <1>7 DEF SetUservalue, SetLocal, SetUpvalue, collector, history
<1>8. ASSUME NEW o, NEW f, Capture(o, f) PROVE kind' = kind /\ strayed' = strayed
  BY <1>8 DEF Capture, history
<1>9. ASSUME NEW e, StartFull(e) PROVE kind' = kind /\ strayed' = strayed
  BY <1>9 DEF StartFull, Becomes, history
<1> QED BY <1>1, <1>2, <1>3, <1>4, <1>5, <1>6, <1>7, <1>8, <1>9 DEF Program

\* Nothing changes the kinds, nor brings a stray back.
LEMMA StraysStay ==
  ASSUME IndInv, [Next]_vars
  PROVE  kind' = kind /\ strayed' \in BOOLEAN /\ (strayed => strayed')
<1>1. strayed \in BOOLEAN BY DEF IndInv
<1>2. CASE SingleStep
  <2>1. CASE StartCollection BY <1>1, <2>1 DEF StartCollection, heap
  <2>2. CASE Propagate BY <1>1, <2>2 DEF Propagate, heap, history
  <2>3. CASE AtomicStep BY <1>1, <2>3 DEF AtomicStep, Becomes
  <2>4. CASE Sweep BY <1>1, <2>4 DEF Sweep, Becomes
  <2>5. CASE EndSweep BY <1>1, <2>5 DEF EndSweep, heap, history
  <2>6. CASE EndCollection BY <1>1, <2>6 DEF EndCollection, heap, history
  <2>7. CASE CallFinalizer BY <1>1, <2>7 DEF CallFinalizer, heap
  <2> QED BY <1>2, <2>1, <2>2, <2>3, <2>4, <2>5, <2>6, <2>7 DEF SingleStep
<1>3. CASE FinalizerReturns BY <1>1, <1>3 DEF FinalizerReturns, heap, history
<1>4. CASE Program BY <1>1, <1>4, ProgramKeepsTrack
<1>5. CASE UNCHANGED vars BY <1>1, <1>5 DEF vars, heap, collector, history
<1> QED BY <1>2, <1>3, <1>4, <1>5 DEF Next

\* A step that changes nothing.
LEMMA StutterStep ==
  ASSUME IndInv, OnTrack, UNCHANGED vars
  PROVE  IndInv'
<1>1. /\ lists' = lists /\ sweepgc' = sweepgc /\ color' = color /\ upvalues' = upvalues
      /\ finalizable' = finalizable /\ gcstate' = gcstate /\ marking' = marking
      /\ history' = history /\ full' = full /\ emergency' = emergency /\ gcrunning' = gcrunning
      /\ heap' = heap /\ stack' = stack
  BY DEF vars, collector, control
<1>2. ControlOK(gcstate', gcrunning', full', emergency') BY <1>1 DEF IndInv
<1>3. stack' \subseteq LiveIn(Sweeper) BY <1>1, InvFacts
<1> QED BY <1>1, <1>2, <1>3, StillStep

\* Every step keeps the invariant: one case for each action.
LEMMA NextInv ==
  ASSUME IndInv, [Next]_vars
  PROVE  IndInv'
<1>1. CASE ~ OnTrack BY <1>1, OffTrack, StraysStay
<1>2. CASE OnTrack
  <2> USE <1>2
  <2>1. CASE SingleStep
    BY <2>1, StartStep, PropagateStep, AtomicStepOK, SweepStep, EndSweepStep, EndCollectionStep,
       CallFinalizerStep
    DEF SingleStep
  <2>2. CASE FinalizerReturns BY <2>2, FinalizerReturnsStep
  <2>3. CASE Program
    <3>1. kind \in Kinds BY DEF IndInv
    <3>2. Fulls[kind] \subseteq BOOLEAN BY <3>1, BoundsAssumption
    <3>3. CASE \E o \in Objects : New(o) \/ Pop(o) \/ Load(o) \/ SetFinalizer(o) \/ CloseUpvalue(o)
      BY <3>3, NewStep, PopStep, LoadStep, SetFinalizerStep, CloseUpvalueStep
    <3>4. CASE \E w \in Writes[kind] :
                 \/ SetTable(w[1], w[2], w[3])
                 \/ /\ w[2] = None
                    /\ SetUservalue(w[1], w[3]) \/ SetLocal(w[1], w[3]) \/ SetUpvalue(w[1], w[3])
      BY <3>4, SetTableStep, SetUservalueStep, SetLocalStep, SetUpvalueStep
    <3>5. CASE \E th, f \in Objects : Capture(th, f) BY <3>5, CaptureStep
    <3>6. CASE \E e \in Fulls[kind] : StartFull(e) BY <3>2, <3>6, StartFullStep
    <3> QED BY <2>3, <3>3, <3>4, <3>5, <3>6 DEF Program
  <2>4. CASE UNCHANGED vars BY <2>4, StutterStep
  <2> QED BY <2>1, <2>2, <2>3, <2>4 DEF Next
<1> QED BY <1>1, <1>2

\* The inductive invariant, in every state of every behaviour: heap, roots, sweep,
\* marking, control and what a full collection owes.
THEOREM Invariant == Spec => []IndInv
<1>1. Init => IndInv BY InitInv
<1>2. IndInv /\ [Next]_vars => IndInv' BY NextInv
<1> QED BY <1>1, <1>2, PTL DEF Spec

-----------------------------------------------------------------------------
(* Finalizers *)

\* What is reachable is marked in the atomic phase, before what has to be finalized.
LEMMA ReachableMarked ==
  ASSUME AtomicStart, MarkingNow
  PROVE  Reachable \subseteq M2 /\ Reachable \subseteq Allocated \cup {Main}
<1> DEFINE X == {Main} \cup ToSet(lists.tobefnz)
           Z == Allocated \cup {Main}
<1>1. /\ EntriesOK(entry) /\ lists \in Lists /\ OnePlace(lists)
      /\ finalizable = ToSet(lists.finobj) \cup ToSet(lists.tobefnz)
      /\ finalizable \subseteq Allocated /\ Allocated \subseteq Objects
  BY StartIs
<1>2. X \subseteq Things /\ X \subseteq Z /\ Z \subseteq Things BY <1>1, NoneIsNoThing DEF Things
<1>3. X \subseteq M2
  <2>1. \A o \in ToSet(lists.tobefnz) : ~ Unmarked(Sweeper, o)
    BY SweeperNow DEF AtomicStart, TriOK
  <2>2. ToSet(lists.tobefnz) \subseteq M0 BY <1>2, <2>1, SweeperNow DEF M0, White, Unmarked
  <2>3. M0 \subseteq M2 BY DEF M1, M2
  <2> QED BY <2>2, <2>3, MainMarked
<1>4. \A o \in M2 : o \in Things /\ MarksAt(entry, o, M2 \cup {}, TRUE) \subseteq M2 \cup {} \cup {None}
  <2>1. M2 \cup {} = M2 OBVIOUS
  <2> QED BY <2>1, M2Closed DEF MarksAt
<1>5. \A o \in Z : MarksAt(entry, o, Z \cup {}, TRUE) \subseteq Z \cup {} \cup {None}
  BY MarksLive DEF MarksAt
<1> HIDE DEF X, Z
<1>6. Reachable = Traverse(X, {}, entry, TRUE) BY DEF Reachable, X
<1>7. \A Y \in SUBSET Things :
        /\ X \ {None} \subseteq Y
        /\ \A o \in Y : MarksAt(entry, o, Y \cup {}, TRUE) \subseteq Y \cup {} \cup {None}
        => Reachable \subseteq Y
  <2>1. X \subseteq Things \cup {None} /\ TRUE \in BOOLEAN BY <1>2
  <2> QED BY ONLY <1>1, <1>6, <2>1, TraverseIs
<1>8. Reachable \subseteq M2
  <2>1. M2 \in SUBSET Things BY <1>4
  <2> QED BY <1>3, <1>4, <1>7, <2>1
<1>9. Reachable \subseteq Z
  <2>1. Z \in SUBSET Things BY <1>2
  <2> QED BY <1>2, <1>5, <1>7, <2>1
<1> QED BY <1>8, <1>9 DEF Z

\* After the atomic phase the weak values left in what is reachable are marked ones.
LEMMA WeakValuesMarked ==
  ASSUME AtomicStart, NEW o \in M2 \cap Objects, kind[o] \in {"weakv", "allweak"}
  PROVE  Entry3[o].val \in M2 \cup {None}
<1>1. EntriesOK(entry) BY StartIs
<1>2. o \in Before BY BeforeIs
<1>3. Entry2[o].val \in M2 \cup {None} BY <1>1, <1>2, Entry2Is DEF Nothing
<1> QED BY <1>1, <1>3, Entry3Is DEF Nothing

\* The atomic phase finalizes only what is not reachable.
LEMMA AtomicFinalizes ==
  ASSUME IndInv, OnTrack, AtomicStep
  PROVE  FinalizesTheUnreachable
<1>0. PICK t : t = Sweeper' OBVIOUS
<1>1. PICK a : a = Atomic OBVIOUS
<1>2. PICK r : r = EnterSweep(a) OBVIOUS
<1>3. CollectorRuns /\ gcstate = "atomic" /\ Becomes(r) BY <1>1, <1>2 DEF AtomicStep
<1>4. AtomicStart
  BY <1>3, RunsOn DEF IndInv, StateOK, Marking, AtomicStart
<1>5. MarkingNow
  BY <1>4, MarkingStart, SweeperNow DEF AtomicStart, TriOK, TriCore
<1>6. IsSweeper(a) /\ HeapOK(a) /\ kind \in Kinds BY <1>1, <1>4, AtomicOK DEF AtomicStart
<1>7. SweepsOn(a, r, "allgc") BY <1>2, <1>6, EnterSweepOK
<1>8. IsSweeper(r) /\ KeepsHeap(a, r, "allgc") BY <1>7 DEF SweepsOn
<1>9. t = r BY <1>0, <1>3, <1>8, BecomesIs
<1>10. t.lists = lists' /\ t.entry = entry' BY <1>0, SweeperIs
<1>11. ToSet(lists'.tobefnz) = ToSet(lists.tobefnz) \cup (ToSet(lists.finobj) \ M2)
  <2>1. "tobefnz" \in ListNames \ {"allgc"} BY DEF ListNames
  <2>2. r.lists.tobefnz = a.lists.tobefnz BY <1>8, <2>1 DEF KeepsHeap
  <2>3. a.lists.tobefnz = ToBeFnz BY <1>1, <1>4, AtomicLists
  <2> QED BY <1>4, <1>9, <1>10, <2>2, <2>3, ToBeFnzIs
<1>12. Reachable \subseteq M2 /\ Reachable \subseteq Allocated \cup {Main}
  BY <1>4, <1>5, ReachableMarked
<1>13. Allocated \subseteq Objects /\ ToSet(lists.finobj) \subseteq Objects
  BY InvFacts, ListFacts, SetOfSeq
<1>14. ASSUME NEW x \in Reachable \ {Main}, kind[x] \in {"weakv", "allweak"}
       PROVE  entry'[x].val \in M2 \cup {None}
  <2>1. x \in M2 \cap Objects /\ x \in Allocated BY <1>12, <1>13
  <2>2. x \in M3 BY <2>1 DEF M3
  <2>3. x \in LiveIn(a) BY <1>1, <1>4, <2>1, <2>2, AtomicLive
  <2>4. r.entry[x] = a.entry[x]
    <3>1. kind[x] # "lclosure" BY <1>14
    <3> QED BY <1>8, <2>3, <3>1 DEF KeepsHeap
  <2>5. a.entry = Entry3 BY <1>1, AtomicIs
  <2>6. Entry3[x].val \in M2 \cup {None} BY <1>4, <1>14, <2>1, WeakValuesMarked
  <2> QED BY <1>9, <1>10, <2>4, <2>5, <2>6
<1>15. None \notin Objects BY NoneIsNoThing DEF Things
<1> QED BY <1>11, <1>12, <1>13, <1>14, <1>15 DEF FinalizesTheUnreachable

\* Only the atomic phase gives objects to their finalizers.
LEMMA OnlyAtomic ==
  ASSUME IndInv, OnTrack, [Next]_vars, ~ AtomicStep
  PROVE  NothingNew
<1>1. CASE SingleStep
  <2>1. CASE StartCollection \/ Propagate \/ EndSweep \/ EndCollection
    <3>1. lists' = lists BY <2>1 DEF StartCollection, Propagate, EndSweep, EndCollection
    <3> QED BY <3>1 DEF NothingNew
  <2> QED BY <1>1, <2>1, SweepStep, CallFinalizerStep DEF SingleStep
<1>2. CASE FinalizerReturns BY <1>2 DEF FinalizerReturns, NothingNew
<1>3. CASE Program
  <2>1. kind \in Kinds BY DEF IndInv
  <2>2. Fulls[kind] \subseteq BOOLEAN BY <2>1, BoundsAssumption
  <2>3. lists \in Lists BY InvFacts
  <2>4. ASSUME NEW o, Grows(lists, lists', o) PROVE NothingNew
    <3>1. PICK l : l = lists OBVIOUS
    <3>2. PICK m : m = lists' OBVIOUS
    <3>3. m.tobefnz = l.tobefnz
      <4>1. l \in Lists /\ Grows(l, m, o) BY <2>3, <2>4, <3>1, <3>2
      <4> QED BY ONLY <4>1 DEF Grows, Lists, ListNames
    <3> QED BY <3>1, <3>2, <3>3 DEF NothingNew
  <2>5. CASE \E o \in Objects : New(o) \/ Pop(o) \/ Load(o) \/ SetFinalizer(o) \/ CloseUpvalue(o)
    <3>1. PICK o \in Objects : New(o) \/ Pop(o) \/ Load(o) \/ SetFinalizer(o) \/ CloseUpvalue(o)
      BY <2>5
    <3>2. CASE New(o) BY <2>4, <3>2 DEF New, Grows
    <3>3. CASE Pop(o) \/ Load(o) \/ CloseUpvalue(o)
      <4>1. lists' = lists BY <3>3 DEF Pop, Load, CloseUpvalue, collector
      <4> QED BY <4>1 DEF NothingNew
    <3>4. CASE SetFinalizer(o) BY <3>4, SetFinalizerStep
    <3> QED BY <3>1, <3>2, <3>3, <3>4
  <2>6. CASE \E w \in Writes[kind] :
               \/ SetTable(w[1], w[2], w[3])
               \/ /\ w[2] = None
                  /\ SetUservalue(w[1], w[3]) \/ SetLocal(w[1], w[3]) \/ SetUpvalue(w[1], w[3])
    <3>1. lists' = lists BY <2>6 DEF SetTable, SetUservalue, SetLocal, SetUpvalue, collector
    <3> QED BY <3>1 DEF NothingNew
  <2>7. CASE \E th, f \in Objects : Capture(th, f) BY <2>4, <2>7 DEF Capture, Grows
  <2>8. CASE \E e \in Fulls[kind] : StartFull(e) BY <2>2, <2>8, StartFullStep
  <2> QED BY <1>3, <2>5, <2>6, <2>7, <2>8 DEF Program
<1>4. CASE UNCHANGED vars BY <1>4 DEF vars, collector, NothingNew
<1> QED BY <1>1, <1>2, <1>3, <1>4 DEF Next

\* A step leaves the track only where GCTM is called on the object that sweepgc points into.
OffTheTrack ==
  /\ CallFinalizer /\ gcstate = "swptobefnz" /\ full = "no"
  /\ sweepgc = Head(lists.tobefnz)

\* Nothing else takes sweepgc out of its list.
LEMMA NextStrays ==
  ASSUME IndInv, OnTrack, [Next]_vars
  PROVE  OnTrack' \/ OffTheTrack
<1>1. ~ strayed BY DEF OnTrack
<1>2. CASE SingleStep
  <2>1. CASE StartCollection \/ Propagate \/ AtomicStep \/ Sweep \/ EndSweep \/ EndCollection
    <3>1. strayed' = strayed
      BY <2>1 DEF StartCollection, Propagate, AtomicStep, Sweep, EndSweep, EndCollection, Becomes, history
    <3> QED BY <1>1, <3>1 DEF OnTrack
  <2>2. CASE CallFinalizer
    <3>1. CASE sweepgc = Head(lists.tobefnz)
      <4>1. HeapOK(Sweeper) /\ gcstate \in GCStates /\ SweepOK(Sweeper, gcstate)
        BY RunsOn DEF IndInv, StateOK
      <4>2. lists.tobefnz # << >> /\ (full = "no" \/ gcstate = "callfin")
        BY <2>2 DEF CallFinalizer
      <4>3. lists \in Lists /\ OnePlace(lists) BY InvFacts
      <4>4. sweepgc \in ToSet(lists.tobefnz)
        <5>1. lists.tobefnz \in Seq(Objects) BY <4>3, ListFacts
        <5>2. 1 \in DOMAIN lists.tobefnz /\ Head(lists.tobefnz) = lists.tobefnz[1] BY <4>2, <5>1
        <5> QED BY <3>1, <5>1, <5>2, SetOfSeq
      <4>5. Sweeper.sweepgc \in ToSet(Sweeper.lists.tobefnz) BY <4>4, SweeperNow
      <4>6. gcstate = "swptobefnz" BY <4>1, <4>5, StraysLate
      <4> QED BY <2>2, <3>1, <4>2, <4>6 DEF OffTheTrack
    <3>2. CASE sweepgc # Head(lists.tobefnz)
      <4>1. ~ strayed' BY <1>1, <2>2, <3>2 DEF CallFinalizer
      <4> QED BY <4>1 DEF OnTrack
    <3> QED BY <3>1, <3>2
  <2> QED BY <1>2, <2>1, <2>2 DEF SingleStep
<1>3. CASE FinalizerReturns
  <2>1. strayed' = strayed BY <1>3 DEF FinalizerReturns, history
  <2> QED BY <1>1, <2>1 DEF OnTrack
<1>4. CASE Program
  <2>1. strayed' = strayed BY <1>4, ProgramKeepsTrack
  <2> QED BY <1>1, <2>1 DEF OnTrack
<1>5. CASE UNCHANGED vars
  <2>1. strayed' = strayed BY <1>5 DEF vars, collector, history
  <2> QED BY <1>1, <2>1 DEF OnTrack
<1> QED BY <1>2, <1>3, <1>4, <1>5 DEF Next

\* Every step that is on track gives only unreachable objects to their finalizers.
LEMMA NextFinalizes ==
  ASSUME IndInv, OnTrack, [Next]_vars
  PROVE  FinalizesTheUnreachable
<1>1. CASE AtomicStep BY <1>1, AtomicFinalizes
<1>2. CASE ~ AtomicStep BY <1>2, OnlyAtomic DEF NothingNew, FinalizesTheUnreachable
<1> QED BY <1>1, <1>2

-----------------------------------------------------------------------------
(* The theorems *)

\* Until a finalizer takes sweepgc away, the fields of global_State and of the objects
\* keep their types, whatever the program does between two steps of the collector.
THEOREM TypeCorrect == Spec => [](OnTrack => TypeOK)
<1>1. IndInv => (OnTrack => TypeOK) BY InvType
<1> QED BY <1>1, Invariant, PTL

\* There is one way off the track: GCTM, called by luaC_step in GCSswptobefnz, on the very
\* object that sweepgc points into (lgc.c:788-799).  A program without finalizers never
\* leaves it, nor does a full collection, nor the cycle before its last list is swept.
THEOREM OneWayOffTrack == Spec => [][OnTrack => OnTrack' \/ OffTheTrack]_vars
<1>1. IndInv /\ [Next]_vars => [OnTrack => OnTrack' \/ OffTheTrack]_vars BY NextStrays
<1> QED BY <1>1, Invariant, PTL DEF Spec

\* Neither what the program can get at nor what waits for its finalizer is freed or left
\* to the sweep before OffTheTrack, for any heap and any interleaving of singlestep, full
\* collections, finalizers and writes (lgc.c).
THEOREM Safety == Spec => []NothingAccessibleIsFreed
<1>1. IndInv => NothingAccessibleIsFreed BY InvAccessible
<1> QED BY <1>1, Invariant, PTL

\* While the collector marks, no black object points to a white one, and the gray objects
\* are in exactly one gray list each: luaC_barrier, luaC_barrierback, luaC_upvalbarrier and
\* the traversals together lose no pointer (lgc.h:15-24), before OffTheTrack.
THEOREM Tricolor == Spec => []TricolorInvariant
<1>1. IndInv => TricolorInvariant BY InvTricolor
<1> QED BY <1>1, Invariant, PTL

\* What lgc.h:52-59 says of the end of the sweep holds as long as no finalizer has taken
\* sweepgc out of tobefnz, also of what was created, written to or moved to finobj
\* meanwhile: OffTheTrack is the one step that breaks it.
THEOREM SweptWhite == Spec => [](OnTrack => WhiteWhenSweepEnds)
<1>1. IndInv => (OnTrack => WhiteWhenSweepEnds) BY InvWhite
<1> QED BY <1>1, Invariant, PTL

\* When luaC_fullgc returns, all that nothing referred to when its cycle started is free,
\* whatever the collector was doing before (lgc.c, luaC_fullgc), before OffTheTrack.
THEOREM FullFrees == Spec => [](OnTrack => FullCollectionFrees)
<1>1. IndInv => (OnTrack => FullCollectionFrees) BY InvFull
<1> QED BY <1>1, Invariant, PTL

\* separatetobefnz gives an object to its finalizer only when nothing strong refers to it,
\* and it is then no weak value of a table the program has kept; before OffTheTrack.
THEOREM Finalization == Spec => FinalizedWhenUnreachable
<1>1. IndInv /\ [Next]_vars => [OnTrack => FinalizesTheUnreachable]_vars BY NextFinalizes
<1> QED BY <1>1, Invariant, PTL DEF Spec, FinalizedWhenUnreachable

=============================================================================
