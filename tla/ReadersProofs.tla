---------------------------- MODULE ReadersProofs ----------------------------
(***************************************************************************)
(* What is proved of LemmyFS, for any number of open files, listings of    *)
(* any length and calls of ReadDir with any count; and of Stream, for a     *)
(* stream of any length and a caller who goes on after anything.           *)
(***************************************************************************)
EXTENDS LemmyFS, Stream, SequenceTheorems, WellFoundedInduction, TLAPS

(***************************************************************************)
(***************************************************************************)
(* LemmyFS                                                                 *)
(***************************************************************************)
(***************************************************************************)

(***************************************************************************)
(* The numbers of the entries that a call returns                          *)
(***************************************************************************)
LEMMA NumbersType ==
  ASSUME NEW first \in Nat, NEW k \in Nat, NEW m \in Nat, first + k <= m
  PROVE  /\ Numbers(first, k) \in Seq(1..m) /\ Len(Numbers(first, k)) = k
         /\ \A i \in 1..k : Numbers(first, k)[i] = first + i
<1>1. \A i \in 1..k : first + i \in 1..m
  OBVIOUS
<1> QED
  BY <1>1 DEF Numbers

LEMMA NumbersEmpty == \A first : Numbers(first, 0) = <<>>
<1>1. 1..0 = {}
  OBVIOUS
<1> QED
  BY <1>1 DEF Numbers

\* One call after another: the entries up to p, then the next k.
LEMMA NumbersConcat ==
  ASSUME NEW p \in Nat, NEW k \in Nat
  PROVE  Numbers(0, p) \o Numbers(p, k) = Numbers(0, p + k)
<1> DEFINE S == 1..p + k
           a == Numbers(0, p)
           b == Numbers(p, k)
           c == Numbers(0, p + k)
<1>1. /\ a \in Seq(S) /\ Len(a) = p /\ \A i \in 1..p : a[i] = 0 + i
      /\ b \in Seq(S) /\ Len(b) = k /\ \A i \in 1..k : b[i] = p + i
      /\ c \in Seq(S) /\ Len(c) = p + k /\ \A i \in 1..p + k : c[i] = 0 + i
  <2>1. p + k \in Nat /\ 0 \in Nat /\ 0 + p <= p + k /\ p + k <= p + k /\ 0 + (p + k) <= p + k
    OBVIOUS
  <2> HIDE DEF S, a, b, c
  <2> QED
    BY <2>1, NumbersType DEF S, a, b, c
<1> HIDE DEF S, a, b, c
<1>2. /\ a \o b \in Seq(S) /\ Len(a \o b) = p + k
      /\ \A i \in 1..p + k : (a \o b)[i] = IF i <= p THEN a[i] ELSE b[i - p]
  BY <1>1, ConcatProperties
<1>3. \A i \in 1..p + k : (a \o b)[i] = c[i]
  <2> TAKE i \in 1..p + k
  <2>1. CASE i <= p
    BY <1>1, <1>2, <2>1
  <2>2. CASE ~(i <= p)
    <3>1. i - p \in 1..k /\ p + (i - p) = i
      BY <2>2
    <3> QED
      BY <1>1, <1>2, <2>2, <3>1
  <2> QED
    BY <2>1, <2>2
<1> QED
  BY <1>1, <1>2, <1>3, SeqEqual DEF a, b, c

(***************************************************************************)
(* ReadDir                                                                 *)
(***************************************************************************)

\* What a call that does not panic finds and returns.
LEMMA BatchFits ==
  ASSUME NEW p \in Nat, NEW m \in Nat, NEW n \in Int, ~Panics(m - p, n)
  PROVE  /\ Batch(m - p, n) \in Nat
         /\ p + Batch(m - p, n) <= m
         /\ p + Batch(m - p, n) <= Advance(p, m, n)
         /\ Advance(p, m, n) \in Nat
         /\ n < 0 => Batch(m - p, n) = m - p /\ Advance(p, m, n) = m
         /\ Advance(p, m, n) <= m \/ Advance(p, m, n) = p + n
<1> DEFINE rest == m - p
<1>1. rest \in Nat /\ ~(n = 0 /\ rest > 0)
  BY DEF Panics
<1>2. CASE n < 0
  BY <1>1, <1>2 DEF Batch, Advance
<1>3. CASE n >= 0 /\ n >= rest
  BY <1>1, <1>3 DEF Batch, Advance
<1>4. CASE n >= 0 /\ ~(n >= rest)
  BY <1>1, <1>4 DEF Batch, Advance
<1> QED
  BY <1>2, <1>3, <1>4

LEMMA ReadDirFits ==
  ASSUME FSTypeOK, NEW h \in Handle, NEW n \in -1..MaxCount, ReadDir(h, n)
  PROVE  \E m \in 0..MaxList, k \in Nat, q \in 0..MaxList + MaxCount :
           /\ given'  = [given EXCEPT ![h] = given[h] \o Numbers(entryp[h], k)]
           /\ entryp' = [entryp EXCEPT ![h] = q]
           /\ length' = [length EXCEPT ![h] = m]
           /\ listed[h] => m = length[h]
           /\ entryp[h] + k <= m /\ entryp[h] + k <= q
           /\ n < 0 => entryp[h] + k = m /\ q = m
<1>1. /\ entryp[h] \in Nat /\ length[h] \in 0..MaxList
      /\ MaxList \in Nat /\ MaxCount \in Nat /\ n \in Int /\ n <= MaxCount
  BY BoundAssumption DEF FSTypeOK
<1>2. PICK m \in Lengths(h) :
        LET rest == m - entryp[h]
        IN /\ ~Panics(rest, n)
           /\ given'  = [given EXCEPT ![h] = @ \o Numbers(entryp[h], Batch(rest, n))]
           /\ entryp' = [entryp EXCEPT ![h] = Advance(@, m, n)]
           /\ length' = [length EXCEPT ![h] = m]
  BY DEF ReadDir
<1>3. m \in 0..MaxList /\ (listed[h] => m = length[h])
  BY <1>1 DEF Lengths
<1> DEFINE k == Batch(m - entryp[h], n)
           q == Advance(entryp[h], m, n)
<1>4. /\ k \in Nat /\ q \in Nat
      /\ entryp[h] + k <= m /\ entryp[h] + k <= q
      /\ n < 0 => k = m - entryp[h] /\ q = m
      /\ q <= m \/ q = entryp[h] + n
  BY <1>1, <1>2, <1>3, BatchFits
<1>5. given' = [given EXCEPT ![h] = given[h] \o Numbers(entryp[h], k)]
      /\ entryp' = [entryp EXCEPT ![h] = q]
  BY <1>2
<1> HIDE DEF k, q
<1>6. q \in 0..MaxList + MaxCount
  BY <1>1, <1>3, <1>4
<1>7. n < 0 => entryp[h] + k = m
  BY <1>1, <1>3, <1>4
<1> QED
  BY <1>2, <1>3, <1>4, <1>5, <1>6, <1>7

(***************************************************************************)
(* Types                                                                   *)
(***************************************************************************)
LEMMA FSTypeInit == FSInit => FSTypeOK
<1> SUFFICES ASSUME FSInit PROVE FSTypeOK
  OBVIOUS
<1>1. <<>> \in Seq(1..MaxList) /\ 0 \in 0..MaxList /\ 0 \in 0..MaxList + MaxCount
  BY EmptySeq, BoundAssumption
<1> QED
  BY <1>1 DEF FSInit, FSTypeOK, Kind, Said

\* The listing a file is given, and what becomes of it.
ListTypes ==
  /\ listed \in [Handle -> BOOLEAN]
  /\ length \in [Handle -> 0..MaxList]
  /\ entryp \in [Handle -> 0..MaxList + MaxCount]
  /\ given  \in [Handle -> Seq(1..MaxList)]
  /\ sized  \in [Handle -> BOOLEAN]

LEMMA NewListType ==
  ASSUME FSTypeOK, NEW h \in Handle,
         NoList(h) \/ \E n \in 0..MaxList : NewList(h, n)
  PROVE  ListTypes'
<1>1. <<>> \in Seq(1..MaxList) /\ 0 \in 0..MaxList /\ 0 \in 0..MaxList + MaxCount
  BY EmptySeq, BoundAssumption
<1>2. /\ length' \in [Handle -> 0..MaxList] /\ listed' \in [Handle -> BOOLEAN]
      /\ given' = [given EXCEPT ![h] = <<>>] /\ sized' = [sized EXCEPT ![h] = FALSE]
      /\ entryp' = [entryp EXCEPT ![h] = 0]
  BY <1>1 DEF FSTypeOK, NoList, NewList
<1> QED
  BY <1>1, <1>2 DEF FSTypeOK, ListTypes

LEMMA ReadDirType ==
  ASSUME FSTypeOK, NEW h \in Handle, NEW n \in -1..MaxCount, ReadDir(h, n)
  PROVE  ListTypes'
<1>1. PICK m \in 0..MaxList, k \in Nat, q \in 0..MaxList + MaxCount :
        /\ given'  = [given EXCEPT ![h] = given[h] \o Numbers(entryp[h], k)]
        /\ entryp' = [entryp EXCEPT ![h] = q]
        /\ length' = [length EXCEPT ![h] = m]
        /\ entryp[h] + k <= m
  BY ReadDirFits
<1>2. entryp[h] \in Nat /\ MaxList \in Nat /\ given[h] \in Seq(1..MaxList)
  BY BoundAssumption DEF FSTypeOK
<1>3. Numbers(entryp[h], k) \in Seq(1..MaxList)
  BY <1>1, <1>2, NumbersType
<1>4. given[h] \o Numbers(entryp[h], k) \in Seq(1..MaxList)
  BY <1>2, <1>3, ConcatProperties
<1>5. given' \in [Handle -> Seq(1..MaxList)]
  BY <1>1, <1>4 DEF FSTypeOK
<1>6. listed' \in [Handle -> BOOLEAN] /\ sized' \in [Handle -> BOOLEAN]
  BY DEF ReadDir, FSTypeOK
<1> QED
  BY <1>1, <1>5, <1>6 DEF ListTypes, FSTypeOK

LEMMA FSTypeStep ==
  ASSUME FSTypeOK, [FSNext]_fsVars
  PROVE  FSTypeOK'
<1>1. CASE UNCHANGED fsVars
  BY <1>1 DEF fsVars, file, FSTypeOK
<1>2. ASSUME NEW h \in Handle, NEW n \in -1..MaxCount, ReadDir(h, n)
      PROVE  FSTypeOK'
  <2>1. said' \in [Handle -> Said]
    BY <1>2 DEF ReadDir, Say, Said, FSTypeOK
  <2>2. fsUp' \in BOOLEAN /\ kind' \in [Handle -> Kind] /\ buf' \in [Handle -> BOOLEAN]
    BY <1>2 DEF ReadDir, FSTypeOK
  <2> QED
    BY <1>2, <2>1, <2>2, ReadDirType DEF FSTypeOK, ListTypes
<1>3. ASSUME NEW h \in Handle, NEW n \in -1..MaxCount, Panic(h, n)
      PROVE  FSTypeOK'
  BY <1>3 DEF Panic, file, FSTypeOK
<1>4. ASSUME NEW h \in Handle,
             OpenFails(h) \/ Read(h) \/ CloseDummy(h) \/ CloseRefused(h)
      PROVE  FSTypeOK'
  BY <1>4 DEF OpenFails, Read, CloseDummy, CloseRefused, Say, SameList, FSTypeOK, Said
<1>5. ASSUME NEW h \in Handle, Open(h)
      PROVE  FSTypeOK'
  <2>1. ListTypes'
    BY <1>5, NewListType DEF Open
  <2>2. \A d \in Depth : KindAt(d) \in Kind
    BY DEF Depth, KindAt, Kind
  <2>3. kind' \in [Handle -> Kind] /\ buf' \in [Handle -> BOOLEAN]
    BY <1>5, <2>2 DEF Open, FSTypeOK
  <2> QED
    BY <1>5, <2>1, <2>3 DEF Open, Say, Said, FSTypeOK, ListTypes
<1>6. ASSUME NEW h \in Handle, ReadDirFails(h) \/ Close(h)
      PROVE  FSTypeOK'
  <2>1. 0 \in 0..MaxList
    BY BoundAssumption
  <2>2. ListTypes'
    BY <1>6, <2>1, NewListType DEF ReadDirFails, Close
  <2> QED
    BY <1>6, <2>2 DEF ReadDirFails, Close, Say, Said, FSTypeOK, ListTypes
<1> QED
  BY <1>1, <1>2, <1>3, <1>4, <1>5, <1>6 DEF FSNext

\* The open files keep their types: the offset of a listing, which goes by the
\* count, does not pass its end by more than one count.
THEOREM FSTypeCorrect == FSSpec => []FSTypeOK
BY FSTypeInit, FSTypeStep, PTL DEF FSSpec

(***************************************************************************)
(* Listings                                                                *)
(***************************************************************************)

\* A file without a listing has nothing to show for it yet.
Unlisted(h) == ~listed[h] => length[h] = 0 /\ entryp[h] = 0 /\ given[h] = <<>>

Ordered(h) ==
  /\ \A i, j \in DOMAIN given[h] : i < j => given[h][i] < given[h][j]
  /\ \A i \in DOMAIN given[h] : given[h][i] <= length[h] /\ given[h][i] <= entryp[h]

\* Without counts the offset is at one end or the other, and all up to it given.
Walked(h) == (listed[h] /\ ~sized[h]) =>
               given[h] = Numbers(0, entryp[h]) /\ entryp[h] \in {0, length[h]}

ListInv(h) == Unlisted(h) /\ Ordered(h) /\ Walked(h)
ListsKept  == (\A h \in Handle : ListInv(h)) /\ (~fsUp => \E h \in Handle : sized[h])

LEMMA ListsInit == FSInit => ListsKept
BY DEF FSInit, ListsKept, ListInv, Unlisted, Ordered, Walked

LEMMA ListKeptBy ==
  ASSUME NEW g, ListInv(g), listed'[g] = listed[g], length'[g] = length[g],
         entryp'[g] = entryp[g], given'[g] = given[g], sized[g] => sized'[g]
  PROVE  ListInv(g)'
BY DEF ListInv, Unlisted, Ordered, Walked

LEMMA ListNew ==
  ASSUME FSTypeOK, NEW h \in Handle, NoList(h) \/ \E n \in 0..MaxList : NewList(h, n)
  PROVE  /\ ListInv(h)'
         /\ \A g \in Handle \ {h} : ListInv(g) => ListInv(g)'
<1>1. entryp'[h] = 0 /\ given'[h] = <<>> /\ (~listed'[h] => length'[h] = 0)
  BY DEF NoList, NewList, FSTypeOK
<1>2. ListInv(h)'
  BY <1>1, NumbersEmpty DEF ListInv, Unlisted, Ordered, Walked
<1>3. ASSUME NEW g \in Handle \ {h}, ListInv(g) PROVE ListInv(g)'
  BY <1>3, ListKeptBy DEF NoList, NewList, FSTypeOK
<1> QED
  BY <1>2, <1>3

\* Entries from p on, put after those of s.
LEMMA Extended ==
  ASSUME NEW s \in Seq(1..MaxList), NEW p \in Nat, NEW k \in Nat, p + k <= MaxList
  PROVE  /\ DOMAIN (s \o Numbers(p, k)) = 1..Len(s) + k
         /\ \A i \in 1..Len(s) : (s \o Numbers(p, k))[i] = s[i]
         /\ \A i \in 1..Len(s) + k :
              ~(i <= Len(s)) => (s \o Numbers(p, k))[i] = p + (i - Len(s))
<1> DEFINE b == Numbers(p, k)
           l == Len(s)
<1>1. b \in Seq(1..MaxList) /\ Len(b) = k /\ \A i \in 1..k : b[i] = p + i
  <2>1. MaxList \in Nat
    BY BoundAssumption
  <2> QED
    BY <2>1, NumbersType
<1>2. l \in Nat
  BY LenProperties
<1> HIDE DEF b, l
<1>3. /\ s \o b \in Seq(1..MaxList) /\ Len(s \o b) = l + k
      /\ \A i \in 1..l + k : (s \o b)[i] = IF i <= l THEN s[i] ELSE b[i - l]
  BY <1>1, ConcatProperties DEF l
<1>4. DOMAIN (s \o b) = 1..l + k
  BY <1>3, LenProperties
<1>5. ASSUME NEW i \in 1..l PROVE (s \o b)[i] = s[i]
  BY <1>2, <1>3
<1>6. ASSUME NEW i \in 1..l + k, ~(i <= l) PROVE (s \o b)[i] = p + (i - l)
  <2>1. i - l \in 1..k
    BY <1>2, <1>6
  <2> QED
    BY <1>1, <1>3, <1>6, <2>1
<1> QED
  BY <1>4, <1>5, <1>6 DEF b, l

\* Calls with a count are remembered.
LEMMA SizedBy ==
  ASSUME FSTypeOK, NEW h \in Handle, NEW n \in -1..MaxCount,
         sized' = [sized EXCEPT ![h] = sized[h] \/ n >= 0]
  PROVE  /\ ~sized'[h] => ~sized[h] /\ n < 0
         /\ \A g \in Handle : sized[g] => sized'[g]
<1>1. n \in Int /\ sized \in [Handle -> BOOLEAN]
  BY BoundAssumption DEF FSTypeOK
<1>2. sized'[h] <=> sized[h] \/ n >= 0
  <2> HIDE DEF FSTypeOK
  <2> QED
    BY <1>1, Zenon
<1>3. ~(n >= 0) => n < 0
  BY <1>1
<1>4. \A g \in Handle \ {h} : sized'[g] = sized[g]
  BY <1>1
<1> QED
  BY <1>2, <1>3, <1>4

\* The same, in order when all of s is before p.
LEMMA ExtendedInOrder ==
  ASSUME NEW s \in Seq(1..MaxList), NEW p \in Nat, NEW k \in Nat, NEW m \in 0..MaxList,
         p + k <= m, \A i \in DOMAIN s : s[i] <= p,
         \A i, j \in DOMAIN s : i < j => s[i] < s[j]
  PROVE  LET t == s \o Numbers(p, k)
         IN /\ \A i, j \in DOMAIN t : i < j => t[i] < t[j]
            /\ \A i \in DOMAIN t : t[i] <= p + k
<1> DEFINE t == s \o Numbers(p, k)
           l == Len(s)
<1>1. MaxList \in Nat /\ p + k <= MaxList
  BY BoundAssumption
<1>2. /\ DOMAIN t = 1..l + k
      /\ \A i \in 1..l : t[i] = s[i]
      /\ \A i \in 1..l + k : ~(i <= l) => t[i] = p + (i - l)
  BY <1>1, Extended
<1>3. l \in Nat /\ DOMAIN s = 1..l /\ \A i \in 1..l : s[i] \in 1..MaxList
  BY LenProperties, ElementOfSeq
<1>4. /\ \A i \in 1..l : s[i] <= p
      /\ \A i, j \in 1..l : i < j => s[i] < s[j]
  BY <1>3
<1> HIDE DEF t, l
<1>5. ASSUME NEW i \in 1..l + k, NEW j \in 1..l + k, i < j PROVE t[i] < t[j]
  <2>1. CASE j <= l
    <3>1. i \in 1..l /\ j \in 1..l
      BY <1>3, <1>5, <2>1
    <3> QED
      BY <1>2, <1>4, <1>5, <3>1
  <2>2. CASE i <= l /\ ~(j <= l)
    <3>1. t[i] \in Nat /\ t[i] <= p
      BY <1>2, <1>3, <1>4, <2>2
    <3>2. t[j] = p + (j - l)
      BY <1>2, <2>2
    <3> QED
      BY <1>3, <2>2, <3>1, <3>2
  <2>3. CASE ~(i <= l)
    <3>1. t[i] = p + (i - l) /\ t[j] = p + (j - l)
      BY <1>2, <1>3, <1>5, <2>3
    <3> QED
      BY <1>3, <1>5, <3>1
  <2> QED
    BY <2>1, <2>2, <2>3
<1>6. ASSUME NEW i \in 1..l + k PROVE t[i] <= p + k
  <2>1. CASE i <= l
    <3>1. t[i] \in Nat /\ t[i] <= p
      BY <1>2, <1>3, <1>4, <2>1
    <3> QED
      BY <3>1
  <2>2. CASE ~(i <= l)
    BY <1>2, <1>3, <2>2
  <2> QED
    BY <2>1, <2>2
<1> QED
  BY <1>2, <1>5, <1>6 DEF t

\* One ReadDir returns entries beyond those returned before, up to its offset.
LEMMA ListRead ==
  ASSUME FSTypeOK, NEW h \in Handle, ListInv(h), NEW n \in -1..MaxCount, ReadDir(h, n)
  PROVE  /\ ListInv(h)'
         /\ \A g \in Handle \ {h} : ListInv(g) => ListInv(g)'
<1>1. PICK m \in 0..MaxList, k \in Nat, q \in 0..MaxList + MaxCount :
        /\ given'  = [given EXCEPT ![h] = given[h] \o Numbers(entryp[h], k)]
        /\ entryp' = [entryp EXCEPT ![h] = q]
        /\ length' = [length EXCEPT ![h] = m]
        /\ listed[h] => m = length[h]
        /\ entryp[h] + k <= m /\ entryp[h] + k <= q
        /\ n < 0 => entryp[h] + k = m /\ q = m
  BY ReadDirFits
<1>2. PICK s \in Seq(1..MaxList), p \in Nat : s = given[h] /\ p = entryp[h]
  BY BoundAssumption DEF FSTypeOK
<1> DEFINE t == s \o Numbers(p, k)
<1>3. /\ listed'[h] /\ entryp'[h] = q /\ length'[h] = m /\ given'[h] = t
      /\ ~sized'[h] => ~sized[h] /\ n < 0
      /\ \A g \in Handle : sized[g] => sized'[g]
  <2>1. sized' = [sized EXCEPT ![h] = sized[h] \/ n >= 0]
        /\ listed' = [listed EXCEPT ![h] = TRUE]
    BY DEF ReadDir
  <2>2. /\ ~sized'[h] => ~sized[h] /\ n < 0
        /\ \A g \in Handle : sized[g] => sized'[g]
    BY <2>1, SizedBy
  <2> QED
    BY <1>1, <1>2, <2>1, <2>2 DEF FSTypeOK
<1>4. /\ p \in Nat /\ k \in Nat /\ m \in Nat /\ q \in Nat
      /\ p + k <= m /\ p + k <= q /\ (n < 0 => p + k = m /\ q = m)
  BY <1>1, <1>2, BoundAssumption
<1>5. Ordered(h)'
  <2>1. /\ \A i \in DOMAIN s : s[i] <= p
        /\ \A i, j \in DOMAIN s : i < j => s[i] < s[j]
    BY <1>2 DEF ListInv, Ordered
  <2>2. /\ \A i, j \in DOMAIN t : i < j => t[i] < t[j]
        /\ \A i \in DOMAIN t : t[i] <= p + k
    BY <1>4, <2>1, ExtendedInOrder
  <2>3. p + k \in Nat /\ DOMAIN t = 1..Len(s) + k /\ \A i \in DOMAIN t : t[i] \in Int
    <3>1. MaxList \in Nat /\ p + k <= MaxList
      BY <1>4, BoundAssumption
    <3>2. Numbers(p, k) \in Seq(1..MaxList)
      BY <3>1, NumbersType
    <3>3. t \in Seq(1..MaxList)
      BY <3>2, ConcatProperties
    <3>4. \A i \in DOMAIN t : t[i] \in 1..MaxList
      BY <3>3, ElementOfSeq, LenProperties
    <3> QED
      BY <3>1, <3>4, Extended
  <2> HIDE DEF t
  <2>4. \A i \in DOMAIN t : t[i] <= m /\ t[i] <= q
    BY <1>4, <2>2, <2>3
  <2> QED
    BY <1>3, <2>2, <2>4 DEF Ordered
<1>6. Walked(h)'
  <2>1. ASSUME n < 0, ~sized[h] PROVE t = Numbers(0, q) /\ q = m
    <3>1. s = Numbers(0, p)
      BY <1>2, <2>1, NumbersEmpty DEF ListInv, Unlisted, Walked
    <3>2. Numbers(0, p) \o Numbers(p, k) = Numbers(0, p + k)
      BY NumbersConcat
    <3> QED
      BY <1>4, <2>1, <3>1, <3>2
  <2> HIDE DEF t
  <2> QED
    BY <1>3, <2>1 DEF Walked
<1>7. ASSUME NEW g \in Handle \ {h}, ListInv(g) PROVE ListInv(g)'
  <2>1. /\ listed'[g] = listed[g] /\ length'[g] = length[g]
        /\ entryp'[g] = entryp[g] /\ given'[g] = given[g]
    BY <1>1 DEF ReadDir, FSTypeOK
  <2> QED
    BY <1>3, <1>7, <2>1, ListKeptBy
<1> QED
  BY <1>3, <1>5, <1>6, <1>7 DEF ListInv, Unlisted

\* Without a count there is no panic: the offset is at the end or at the start.
LEMMA PanicSized ==
  ASSUME FSTypeOK, ListsKept, NEW h \in Handle, NEW n \in -1..MaxCount, Panic(h, n)
  PROVE  ListsKept'
<1>1. /\ ~fsUp' /\ sized' = [sized EXCEPT ![h] = sized[h] \/ n >= 0]
      /\ UNCHANGED <<kind, buf, listed, length, entryp, given>>
  BY DEF Panic, file
<1>2. /\ ~sized'[h] => ~sized[h] /\ n < 0
      /\ \A g \in Handle : sized[g] => sized'[g]
  BY <1>1, SizedBy
<1>3. sized'[h]
  <2>1. PICK m \in Lengths(h) : Panics(m - entryp[h], n)
    BY DEF Panic
  <2>2. entryp[h] \in Nat /\ length[h] \in Nat /\ m \in Nat /\ n \in Int
    BY BoundAssumption DEF FSTypeOK, Lengths
  <2>3. n < 0 => m < entryp[h]
    BY <2>1, <2>2 DEF Panics
  <2>4. ~sized[h] => ~(m < entryp[h])
    BY <2>2 DEF Lengths, ListsKept, ListInv, Unlisted, Walked
  <2> QED
    BY <1>2, <2>3, <2>4
<1>4. ASSUME NEW g \in Handle PROVE ListInv(g)'
  BY <1>1, <1>2, ListKeptBy DEF ListsKept
<1> QED
  BY <1>3, <1>4 DEF ListsKept

LEMMA ListsStep ==
  ASSUME FSTypeOK, ListsKept, [FSNext]_fsVars
  PROVE  ListsKept'
<1>1. CASE UNCHANGED fsVars
  BY <1>1, ListKeptBy DEF fsVars, file, ListsKept
<1>2. ASSUME NEW h \in Handle, NEW n \in -1..MaxCount, ReadDir(h, n)
      PROVE  ListsKept'
  BY <1>2, ListRead DEF ListsKept, ReadDir
<1>3. ASSUME NEW h \in Handle, NEW n \in -1..MaxCount, Panic(h, n)
      PROVE  ListsKept'
  BY <1>3, PanicSized
<1>4. ASSUME NEW h \in Handle,
             OpenFails(h) \/ Read(h) \/ CloseDummy(h) \/ CloseRefused(h)
      PROVE  ListsKept'
  <2>1. SameList /\ fsUp' = fsUp /\ fsUp
    BY <1>4 DEF OpenFails, Read, CloseDummy, CloseRefused
  <2> QED
    BY <2>1, ListKeptBy DEF SameList, ListsKept
<1>5. ASSUME NEW h \in Handle, Open(h) \/ ReadDirFails(h) \/ Close(h)
      PROVE  ListsKept'
  <2>1. CASE NoList(h) \/ \E n \in 0..MaxList : NewList(h, n)
    BY <1>5, <2>1, ListNew DEF ListsKept, Open, ReadDirFails, Close
  <2> QED
    BY <1>5, <2>1, BoundAssumption DEF Open, ReadDirFails, Close
<1> QED
  BY <1>1, <1>2, <1>3, <1>4, <1>5 DEF FSNext

LEMMA FSInvariance == FSSpec => [](FSTypeOK /\ ListsKept)
<1>1. FSTypeOK /\ ListsKept /\ [FSNext]_fsVars => FSTypeOK' /\ ListsKept'
  BY FSTypeStep, ListsStep
<1> QED
  BY <1>1, FSTypeInit, ListsInit, PTL DEF FSSpec

\* However the calls of ReadDir follow each other, the entries a file returns
\* are those of one listing, each once, in order and before its offset.
THEOREM EntriesInOrder == FSSpec => []InOrder
<1>1. ListsKept => InOrder
  BY DEF ListsKept, ListInv, Ordered, InOrder
<1> QED
  BY <1>1, FSInvariance, PTL

\* A walk, which asks for whole directories, sees all of each, and no walk
\* alone brings the program down.
THEOREM WalksAreWhole == FSSpec => []WalkSeesAll
<1>1. ListsKept => WalkSeesAll
  BY DEF ListsKept, ListInv, Walked, WalkSeesAll
<1> QED
  BY <1>1, FSInvariance, PTL

(***************************************************************************)
(***************************************************************************)
(* Stream                                                                  *)
(***************************************************************************)
(***************************************************************************)

(***************************************************************************)
(* The posts of some lines                                                 *)
(***************************************************************************)

\* A set with 0 and the successor of each of its numbers contains them all.
LEMMA NatInSet ==
  ASSUME NEW T, 0 \in T, \A n \in Nat : n \in T => n + 1 \in T
  PROVE  Nat \subseteq T
<1> DEFINE Less == {ss \in Nat \X Nat : ss[1] < ss[2]}
           Rest == Nat \ T
<1> SUFFICES ASSUME Rest # {} PROVE FALSE
  OBVIOUS
<1>1. IsWellFoundedOn(Less, Nat)
  BY NatLessThanWellFounded DEF OpToRel
<1>2. Rest \subseteq Nat
  OBVIOUS
<1> HIDE DEF Less, Rest
<1>3. PICK n \in Rest : \A m \in Rest : <<m, n>> \notin Less
  BY <1>1, <1>2, WFMin
<1>4. n \in Nat /\ n # 0 /\ n - 1 \in Nat /\ n - 1 \notin T
  BY DEF Rest
<1>5. n - 1 \in Rest /\ <<n - 1, n>> \in Less
  BY <1>4 DEF Rest, Less
<1> QED
  BY <1>3, <1>5

\* f is the function that Posts defines, as far as the first n lines of s.
Collects(f, n, s) ==
  f = [i \in 0..n |-> IF i = 0 THEN <<>>
                      ELSE IF Decoded(s[i]) THEN Append(f[i - 1], s[i].post) ELSE f[i - 1]]

\* There is such a function for every n.
LEMMA CollectorExists ==
  ASSUME NEW s
  PROVE  \A n \in Nat : \E f : Collects(f, n, s)
<1> DEFINE T == {n \in Nat : \E f : Collects(f, n, s)}
<1>1. 0 \in T
  <2> DEFINE f == [i \in 0..0 |-> <<>>]
  <2>1. Collects(f, 0, s)
    BY DEF Collects
  <2> QED
    BY <2>1
<1>2. ASSUME NEW n \in Nat, n \in T PROVE n + 1 \in T
  <2>1. PICK f : Collects(f, n, s)
    BY <1>2
  <2> DEFINE last == IF Decoded(s[n + 1]) THEN Append(f[n], s[n + 1].post) ELSE f[n]
             g    == [i \in 0..n + 1 |-> IF i = n + 1 THEN last ELSE f[i]]
  <2>2. \A i \in 0..n + 1 :
          g[i] = IF i = 0 THEN <<>>
                 ELSE IF Decoded(s[i]) THEN Append(g[i - 1], s[i].post) ELSE g[i - 1]
    <3>1. \A i \in 0..n : f[i] = IF i = 0 THEN <<>>
                 ELSE IF Decoded(s[i]) THEN Append(f[i - 1], s[i].post) ELSE f[i - 1]
      BY <2>1 DEF Collects
    <3>2. \A i \in 0..n : g[i] = f[i]
      OBVIOUS
    <3>3. g[n + 1] = last
      OBVIOUS
    <3> HIDE DEF g
    <3>4. ASSUME NEW i \in 0..n + 1, i # n + 1
          PROVE  g[i] = IF i = 0 THEN <<>>
                        ELSE IF Decoded(s[i]) THEN Append(g[i - 1], s[i].post) ELSE g[i - 1]
      <4>1. i \in 0..n
        BY <3>4
      <4>2. i # 0 => i - 1 \in 0..n
        BY <4>1
      <4> QED
        BY <4>1, <4>2, <3>1, <3>2
    <3>5. g[n] = f[n]
      BY <3>2
    <3> QED
      BY <3>3, <3>4, <3>5
  <2>3. Collects(g, n + 1, s)
    BY <2>2 DEF Collects
  <2> QED
    BY <2>3
<1> QED
  BY <1>1, <1>2, NatInSet

\* Posts is the last value of such a function.
LEMMA PostsSteps ==
  ASSUME NEW s, Len(s) \in Nat
  PROVE  \E f : Collects(f, Len(s), s) /\ Posts(s) = f[Len(s)]
<1> DEFINE posts[i \in 0..Len(s)] ==
        IF i = 0 THEN <<>>
        ELSE IF Decoded(s[i]) THEN Append(posts[i - 1], s[i].post) ELSE posts[i - 1]
<1>1. posts = CHOOSE f : Collects(f, Len(s), s)
  BY DEF Collects
<1>2. Collects(posts, Len(s), s)
  <2> HIDE DEF posts
  <2> QED
    BY <1>1, CollectorExists
<1>3. Posts(s) = posts[Len(s)]
  BY DEF Posts
<1> QED
  BY <1>2, <1>3

LEMMA PostsOfNone == Posts(<<>>) = <<>>
<1>1. PICK s : s = <<>>
  OBVIOUS
<1>2. Len(s) = 0
  BY <1>1
<1>3. PICK f : Collects(f, Len(s), s) /\ Posts(s) = f[Len(s)]
  BY <1>2, PostsSteps
<1>4. f[0] = <<>>
  BY <1>2, <1>3 DEF Collects
<1> QED
  BY <1>1, <1>2, <1>3, <1>4

\* One more line is one more post, if it holds one.
LEMMA PostsOfNext ==
  ASSUME NEW R, NEW s \in Seq(R), NEW l \in R
  PROVE  Posts(Append(s, l)) = IF Decoded(l) THEN Append(Posts(s), l.post) ELSE Posts(s)
<1> DEFINE t == Append(s, l)
<1>0. /\ Len(s) \in Nat /\ Len(t) = Len(s) + 1
      /\ \A i \in 1..Len(s) : t[i] = s[i]
      /\ t[Len(s) + 1] = l
  OBVIOUS
<1> HIDE DEF t
<1>1. PICK f : Collects(f, Len(s), s) /\ Posts(s) = f[Len(s)]
  BY <1>0, PostsSteps
<1>2. PICK g : Collects(g, Len(s) + 1, t) /\ Posts(t) = g[Len(s) + 1]
  <2>1. \E g : Collects(g, Len(t), t) /\ Posts(t) = g[Len(t)]
    BY <1>0, PostsSteps
  <2> QED
    BY <2>1, <1>0
<1>3. \A i \in 0..Len(s) : f[i] = IF i = 0 THEN <<>>
                 ELSE IF Decoded(s[i]) THEN Append(f[i - 1], s[i].post) ELSE f[i - 1]
  BY <1>1 DEF Collects
<1>4. \A i \in 0..Len(s) + 1 : g[i] = IF i = 0 THEN <<>>
                 ELSE IF Decoded(t[i]) THEN Append(g[i - 1], t[i].post) ELSE g[i - 1]
  BY <1>2 DEF Collects
<1> DEFINE T == {n \in Nat : n <= Len(s) => f[n] = g[n]}
<1>5. 0 \in T
  BY <1>0, <1>3, <1>4
<1>6. ASSUME NEW n \in Nat, n \in T PROVE n + 1 \in T
  <2>1. CASE n + 1 <= Len(s)
    BY <2>1, <1>0, <1>3, <1>4, <1>6
  <2>2. CASE ~(n + 1 <= Len(s))
    BY <2>2
  <2> QED
    BY <2>1, <2>2
<1>7. Len(s) \in T
  <2> HIDE DEF T
  <2> QED
    BY <1>0, <1>5, <1>6, NatInSet
<1>8. g[Len(s) + 1] = IF Decoded(l) THEN Append(g[Len(s)], l.post) ELSE g[Len(s)]
  BY <1>0, <1>4
<1>9. f[Len(s)] = g[Len(s)]
  BY <1>0, <1>7
<1> QED
  BY <1>1, <1>2, <1>8, <1>9 DEF t

\* Cutting a line changes nothing, or makes it one that is refused.
LEMMA CutIsRefused ==
  ASSUME NEW l \in Line, NEW c \in Cut(l)
  PROVE  c \in Line /\ (c = l \/ c.kind \in Wrong)
<1>1. l.kind \in {"blank", "comment"} => l = [kind |-> l.kind, post |-> NoPost]
  BY DEF Line
<1>2. c = [kind |-> c.kind, post |-> NoPost]
  BY DEF Cut
<1>3. CASE l.kind \in {"blank", "comment"}
  <2>1. c.kind = l.kind
    BY <1>3 DEF Cut
  <2> QED
    BY <2>1, <1>1, <1>2, <1>3
<1>4. CASE l.kind \notin {"blank", "comment"}
  <2>1. c.kind \in Wrong
    BY <1>4 DEF Cut, Wrong
  <2> QED
    BY <2>1, <1>2 DEF Line
<1> QED
  BY <1>3, <1>4

\* What remains of lines are the first of them, but for a last one that is cut.
LEMMA RemainsFirst ==
  ASSUME NEW ls \in Seq(Line), NEW got \in Remains(ls)
  PROVE  /\ got \in Seq(Line) /\ Len(got) <= Len(ls)
         /\ \A j \in 1..Len(got) :
              \/ got[j] = ls[j]
              \/ j = Len(got) /\ got[j].kind \in Wrong
<1>0. Len(ls) \in Nat /\ \A j \in 1..Len(ls) : ls[j] \in Line
  OBVIOUS
<1>1. ASSUME NEW k \in 0..Len(ls), got = SubSeq(ls, 1, k)
      PROVE  /\ got \in Seq(Line) /\ Len(got) = k
             /\ \A j \in 1..k : got[j] = ls[j]
  BY <1>0, <1>1
<1>2. ASSUME NEW k \in 1..Len(ls), NEW l \in Cut(ls[k]),
             got = Append(SubSeq(ls, 1, k - 1), l)
      PROVE  /\ got \in Seq(Line) /\ Len(got) = k
             /\ \A j \in 1..k - 1 : got[j] = ls[j]
             /\ got[k] = ls[k] \/ got[k].kind \in Wrong
  <2>1. l \in Line /\ (l = ls[k] \/ l.kind \in Wrong)
    BY <1>0, CutIsRefused
  <2>2. PICK t \in Seq(Line) : /\ t = SubSeq(ls, 1, k - 1) /\ Len(t) = k - 1
                              /\ \A j \in 1..k - 1 : t[j] = ls[j]
    <3>1. k - 1 \in 0..Len(ls)
      BY <1>0
    <3>2. \A i \in 0..Len(ls) :
            /\ SubSeq(ls, 1, i) \in Seq(Line) /\ Len(SubSeq(ls, 1, i)) = i
            /\ \A j \in 1..i : SubSeq(ls, 1, i)[j] = ls[j]
      BY <1>1
    <3> QED
      BY <3>1, <3>2
  <2>3. got = Append(t, l)
    BY <1>2, <2>2
  <2>4. k \in Nat /\ k - 1 + 1 = k
    BY <1>0
  <2>5. got \in Seq(Line) /\ Len(got) = k /\ got[k] = l
    BY <2>1, <2>2, <2>3, <2>4
  <2>6. \A j \in 1..k - 1 : got[j] = t[j]
    BY <2>1, <2>2, <2>3, <2>4
  <2> QED
    BY <2>1, <2>2, <2>5, <2>6
<1>3. CASE \E k \in 0..Len(ls) : got = SubSeq(ls, 1, k)
  BY <1>0, <1>1, <1>3
<1>4. CASE \E k \in 1..Len(ls) : \E l \in Cut(ls[k]) : got = Append(SubSeq(ls, 1, k - 1), l)
  <2>1. PICK k \in 1..Len(ls) :
          \E l \in Cut(ls[k]) : got = Append(SubSeq(ls, 1, k - 1), l)
    BY <1>4
  <2>2. /\ got \in Seq(Line) /\ Len(got) = k
        /\ \A j \in 1..k - 1 : got[j] = ls[j]
        /\ got[k] = ls[k] \/ got[k].kind \in Wrong
    BY <1>2, <2>1
  <2>3. \A j \in 1..k : j \in 1..k - 1 \/ j = k
    BY <1>0
  <2> QED
    BY <1>0, <2>2, <2>3
<1> QED
  BY <1>3, <1>4 DEF Remains

(***************************************************************************)
(* The inductive invariant                                                 *)
(***************************************************************************)

\* Unless a line was refused, those scanned are the first of those sent, and
\* the next of them are yet to be scanned, all the others unless the connection
\* broke: but the last may be cut, and then is one that will be refused; or all
\* that is left is what the scanner makes of a line too long for it.
LinesWhole ==
  ~err =>
    /\ Len(seen) <= Len(sent)
    /\ \A i \in 1..Len(seen) : seen[i] = sent[i]
    /\ \/ /\ Len(seen) + Len(lines) <= Len(sent)
          /\ conn # "broken" => Len(sent) = Len(seen) + Len(lines)
          /\ \A j \in 1..Len(lines) :
               \/ lines[j] = sent[Len(seen) + j]
               \/ j = Len(lines) /\ conn # "open" /\ lines[j].kind \in Wrong
       \/ /\ conn # "open" /\ Len(seen) < Len(sent)
          /\ sent[Len(seen) + 1].kind = "long"
          /\ Len(lines) = 1 /\ lines[1].kind \in Wrong

\* A running call has no result yet, and the end is told only once it is there.
Asked == /\ calling => result = "none"
         /\ result = "end" => conn # "open"

StreamInv == StreamTypeOK /\ PostsInOrder /\ LinesWhole /\ Asked /\ SilentEnd

LEMMA StreamInitInv == StreamInit => StreamInv
<1> SUFFICES ASSUME StreamInit PROVE StreamInv
  OBVIOUS
<1>1. StreamTypeOK
  <2>1. <<>> \in Seq(Line) /\ <<>> \in Seq(Post)
    OBVIOUS
  <2> QED
    BY <2>1 DEF StreamInit, StreamTypeOK
<1>2. PostsInOrder
  BY PostsOfNone DEF StreamInit, PostsInOrder
<1>3. LinesWhole /\ Asked /\ SilentEnd
  BY DEF StreamInit, LinesWhole, Asked, SilentEnd
<1> QED
  BY <1>1, <1>2, <1>3 DEF StreamInv

\* Head and Tail of what is to be scanned.
LEMMA HeadTail ==
  ASSUME lines \in Seq(Line), lines # <<>>
  PROVE  /\ Len(lines) \in Nat \ {0} /\ Head(lines) = lines[1] /\ Head(lines) \in Line
         /\ Tail(lines) \in Seq(Line) /\ Len(Tail(lines)) = Len(lines) - 1
         /\ \A i \in 1..Len(Tail(lines)) : Tail(lines)[i] = lines[i + 1]
  OBVIOUS

LEMMA TypeKept == StreamInv /\ [StreamNext]_streamVars => StreamTypeOK'
<1> SUFFICES ASSUME StreamInv, [StreamNext]_streamVars PROVE StreamTypeOK'
  OBVIOUS
<1>0. StreamTypeOK
  BY DEF StreamInv
<1> USE DEF StreamTypeOK
<1>1. CASE Send
  BY <1>0, <1>1 DEF Send
<1>2. CASE Finish \/ Break
  <2>1. lines' \in Seq(Line)
    BY <1>0, <1>2, RemainsFirst DEF Finish, Break
  <2> QED
    BY <1>0, <1>2, <2>1 DEF Finish, Break
<1>3. CASE Call
  BY <1>0, <1>3 DEF Call
<1>4. CASE Skip
  BY <1>0, <1>4, HeadTail DEF Skip
<1>5. CASE Take
  <2>1. Head(lines) \in Line /\ Tail(lines) \in Seq(Line) /\ Head(lines).kind = "data"
    BY <1>0, <1>5, HeadTail DEF Take, Announces, Decoded
  <2>2. Head(lines).post \in Post
    BY <2>1 DEF Line, Kept, Wrong
  <2>3. lines' \in Seq(Line) /\ seen' \in Seq(Line)
    BY <1>0, <1>5, <2>1 DEF Take
  <2>4. post' \in Post /\ announced' \in Seq(Post)
    BY <1>0, <1>5, <2>2 DEF Take
  <2> QED
    BY <1>0, <1>5, <2>3, <2>4 DEF Take, Return
<1>6. CASE Refuse
  <2>1. Head(lines) \in Line /\ Tail(lines) \in Seq(Line)
    BY <1>0, <1>6, HeadTail DEF Refuse
  <2>2. lines' \in Seq(Line)
    BY <1>6, <2>1, RemainsFirst DEF Refuse
  <2>3. seen' \in Seq(Line)
    BY <1>0, <1>6, <2>1 DEF Refuse
  <2> QED
    BY <1>0, <1>6, <2>2, <2>3 DEF Refuse, Return
<1>7. CASE End
  <2>1. ASSUME lines # <<>>, NEW l \in Cut(Head(lines)) PROVE <<l>> \in Seq(Line)
    BY <1>0, <2>1, HeadTail, CutIsRefused
  <2>2. lines' \in Seq(Line)
    BY <1>0, <1>7, <2>1 DEF End
  <2> QED
    BY <1>0, <1>7, <2>2 DEF End, Return
<1>8. CASE UNCHANGED streamVars
  BY <1>0, <1>8 DEF streamVars
<1> QED
  BY <1>1, <1>2, <1>3, <1>4, <1>5, <1>6, <1>7, <1>8 DEF StreamNext, Run

\* Only a line that holds a post adds to what is announced.
LEMMA OrderKept == StreamInv /\ [StreamNext]_streamVars => PostsInOrder'
<1> SUFFICES ASSUME StreamInv, [StreamNext]_streamVars PROVE PostsInOrder'
  OBVIOUS
<1>0. StreamTypeOK /\ PostsInOrder
  BY DEF StreamInv
<1>1. CASE Take
  <2>1. lines \in Seq(Line) /\ seen \in Seq(Line) /\ announced \in Seq(Post)
    BY <1>0 DEF StreamTypeOK
  <2>2. PICK l : l = Head(lines)
    OBVIOUS
  <2>3. l \in Line /\ Decoded(l)
    BY <1>1, <2>1, <2>2, HeadTail DEF Take, Announces
  <2>4. seen' = Append(seen, l) /\ post' = l.post /\ announced' = Append(announced, l.post)
    BY <1>1, <2>2 DEF Take
  <2>5. l.post \in Post
    BY <2>3 DEF Line, Kept, Wrong, Decoded
  <2>6. Posts(seen') = Append(Posts(seen), l.post)
    BY <2>1, <2>3, <2>4, PostsOfNext
  <2>7. announced' # <<>> /\ announced'[Len(announced')] = l.post
    BY <2>1, <2>4, <2>5
  <2> QED
    BY <1>0, <2>4, <2>6, <2>7 DEF PostsInOrder
<1>2. CASE Skip \/ Refuse
  <2>1. lines \in Seq(Line) /\ seen \in Seq(Line)
    BY <1>0 DEF StreamTypeOK
  <2>2. PICK l : l = Head(lines)
    OBVIOUS
  <2>3. l \in Line /\ ~Decoded(l)
    BY <1>2, <2>1, <2>2, HeadTail DEF Skip, Refuse, Skips, Kept, Wrong, Decoded
  <2>4. seen' = Append(seen, l) /\ post' = post /\ announced' = announced
    BY <1>2, <2>2 DEF Skip, Refuse
  <2>5. Posts(seen') = Posts(seen)
    BY <2>1, <2>3, <2>4, PostsOfNext
  <2> QED
    BY <1>0, <2>4, <2>5 DEF PostsInOrder
<1>3. CASE Send \/ Finish \/ Break \/ Call \/ End \/ UNCHANGED streamVars
  BY <1>0, <1>3 DEF Send, Finish, Break, Call, End, streamVars, PostsInOrder
<1> QED
  BY <1>1, <1>2, <1>3 DEF StreamNext, Run

\* Scanning a line moves it from what is left to what is seen.
LEMMA WholeScan ==
  ASSUME StreamInv, lines # <<>>, Head(lines).kind \notin Wrong \cup {"long"},
         lines' = Tail(lines), seen' = Append(seen, Head(lines)),
         UNCHANGED <<conn, sent, err>>
  PROVE  LinesWhole'
<1>0. /\ lines \in Seq(Line) /\ seen \in Seq(Line) /\ sent \in Seq(Line) /\ LinesWhole
  BY DEF StreamInv, StreamTypeOK
<1> SUFFICES ASSUME ~err'
             PROVE  /\ Len(seen') <= Len(sent')
                    /\ \A i \in 1..Len(seen') : seen'[i] = sent'[i]
                    /\ Len(seen') + Len(lines') <= Len(sent')
                    /\ conn' # "broken" => Len(sent') = Len(seen') + Len(lines')
                    /\ \A j \in 1..Len(lines') :
                         \/ lines'[j] = sent'[Len(seen') + j]
                         \/ j = Len(lines') /\ conn' # "open" /\ lines'[j].kind \in Wrong
  BY DEF LinesWhole
<1>1. /\ Len(seen) <= Len(sent)
      /\ \A i \in 1..Len(seen) : seen[i] = sent[i]
      /\ Len(seen) + Len(lines) <= Len(sent)
      /\ conn # "broken" => Len(sent) = Len(seen) + Len(lines)
      /\ \A j \in 1..Len(lines) :
           \/ lines[j] = sent[Len(seen) + j]
           \/ j = Len(lines) /\ conn # "open" /\ lines[j].kind \in Wrong
  BY <1>0, HeadTail DEF LinesWhole
<1>2. /\ Len(lines) \in Nat \ {0} /\ Head(lines) = lines[1] /\ Head(lines) \in Line
      /\ Len(lines') = Len(lines) - 1
      /\ \A i \in 1..Len(lines') : lines'[i] = lines[i + 1]
  BY <1>0, HeadTail
<1>3. /\ Len(seen) \in Nat /\ Len(sent) \in Nat /\ Len(seen') = Len(seen) + 1
      /\ \A i \in 1..Len(seen) : seen'[i] = seen[i]
      /\ seen'[Len(seen) + 1] = lines[1]
  BY <1>0, <1>2
<1>4. lines[1] = sent[Len(seen) + 1]
  <2>1. 1 \in 1..Len(lines) /\ lines[1].kind \notin Wrong
    BY <1>2
  <2> QED
    BY <1>1, <2>1
<1>5. sent' = sent /\ conn' = conn
  OBVIOUS
<1>6. /\ Len(seen') <= Len(sent) /\ Len(seen') + Len(lines') <= Len(sent)
      /\ conn # "broken" => Len(sent) = Len(seen') + Len(lines')
  <2>1. PICK a \in Nat \ {0} : a = Len(lines)
    BY <1>2
  <2>2. PICK b \in Nat : b = Len(seen)
    BY <1>3
  <2>3. /\ b + a <= Len(sent) /\ (conn # "broken" => Len(sent) = b + a)
        /\ Len(lines') = a - 1 /\ Len(seen') = b + 1 /\ Len(sent) \in Nat
    BY <1>1, <1>2, <1>3, <2>1, <2>2
  <2> QED
    BY <2>3
<1>7. \A i \in 1..Len(seen') : seen'[i] = sent[i]
  <2> SUFFICES ASSUME NEW i \in 1..Len(seen') PROVE seen'[i] = sent[i]
    OBVIOUS
  <2>1. CASE i = Len(seen) + 1
    BY <2>1, <1>3, <1>4
  <2>2. CASE i # Len(seen) + 1
    <3>1. i \in 1..Len(seen)
      BY <2>2, <1>3
    <3> QED
      BY <3>1, <1>1, <1>3
  <2> QED
    BY <2>1, <2>2
<1>8. ASSUME NEW j \in 1..Len(lines')
      PROVE  \/ lines'[j] = sent[Len(seen') + j]
             \/ j = Len(lines') /\ conn # "open" /\ lines'[j].kind \in Wrong
  <2>1. j + 1 \in 1..Len(lines) /\ lines'[j] = lines[j + 1] /\ j \in Nat
    BY <1>2
  <2>2. Len(seen) + (j + 1) = Len(seen') + j
    BY <1>3, <2>1
  <2>3. \/ lines[j + 1] = sent[Len(seen) + (j + 1)]
        \/ j + 1 = Len(lines) /\ conn # "open" /\ lines[j + 1].kind \in Wrong
    BY <1>1, <2>1
  <2>4. j + 1 = Len(lines) => j = Len(lines')
    <3>1. \A a : j + 1 = a => j = a - 1
      BY <2>1
    <3> QED
      BY <1>2, <3>1
  <2> QED
    BY <2>1, <2>2, <2>3, <2>4
<1> QED
  BY <1>5, <1>6, <1>7, <1>8

LEMMA WholeKept == StreamInv /\ [StreamNext]_streamVars => LinesWhole'
<1> SUFFICES ASSUME StreamInv, [StreamNext]_streamVars PROVE LinesWhole'
  OBVIOUS
<1>0. /\ lines \in Seq(Line) /\ seen \in Seq(Line) /\ sent \in Seq(Line) /\ LinesWhole
      /\ Len(lines) \in Nat /\ Len(seen) \in Nat /\ Len(sent) \in Nat
  BY DEF StreamInv, StreamTypeOK
<1>1. CASE Send
  <2>1. PICK l \in Line : lines' = Append(lines, l) /\ sent' = Append(sent, l)
    BY <1>1 DEF Send
  <2>2. conn = "open" /\ UNCHANGED <<conn, err, seen>>
    BY <1>1 DEF Send
  <2>3. /\ Len(lines') = Len(lines) + 1 /\ Len(sent') = Len(sent) + 1
        /\ \A j \in 1..Len(lines) : lines'[j] = lines[j]
        /\ \A j \in 1..Len(sent) : sent'[j] = sent[j]
        /\ lines'[Len(lines) + 1] = l /\ sent'[Len(sent) + 1] = l
    BY <1>0, <2>1
  <2> SUFFICES ASSUME ~err'
               PROVE  /\ Len(seen') <= Len(sent')
                      /\ \A i \in 1..Len(seen') : seen'[i] = sent'[i]
                      /\ Len(sent') = Len(seen') + Len(lines')
                      /\ \A j \in 1..Len(lines') : lines'[j] = sent'[Len(seen') + j]
    BY DEF LinesWhole
  <2>4. /\ Len(seen) <= Len(sent)
        /\ \A i \in 1..Len(seen) : seen[i] = sent[i]
        /\ Len(sent) = Len(seen) + Len(lines)
        /\ \A j \in 1..Len(lines) : lines[j] = sent[Len(seen) + j]
    BY <1>0, <2>2 DEF LinesWhole
  <2>5. Len(seen') <= Len(sent') /\ Len(sent') = Len(seen') + Len(lines')
    BY <1>0, <2>2, <2>3, <2>4
  <2>6. \A i \in 1..Len(seen') : seen'[i] = sent'[i]
    BY <1>0, <2>2, <2>3, <2>4
  <2>7. ASSUME NEW j \in 1..Len(lines') PROVE lines'[j] = sent'[Len(seen') + j]
    <3>1. CASE j = Len(lines) + 1
      BY <3>1, <1>0, <2>2, <2>3, <2>4
    <3>2. CASE j # Len(lines) + 1
      <4>1. j \in 1..Len(lines) /\ Len(seen) + j \in 1..Len(sent)
        BY <3>2, <1>0, <2>3, <2>4
      <4> QED
        BY <4>1, <2>2, <2>3, <2>4
    <3> QED
      BY <3>1, <3>2
  <2> QED
    BY <2>5, <2>6, <2>7
<1>2. CASE Finish
  BY <1>0, <1>2 DEF Finish, LinesWhole
<1>2a. CASE Break
  <2>1. conn = "open" /\ conn' = "broken" /\ UNCHANGED <<err, seen, sent>>
    BY <1>2a DEF Break
  <2>2. /\ Len(lines') \in Nat /\ Len(lines') <= Len(lines)
        /\ \A j \in 1..Len(lines') :
             \/ lines'[j] = lines[j]
             \/ j = Len(lines') /\ lines'[j].kind \in Wrong
    BY <1>0, <1>2a, RemainsFirst DEF Break
  <2> QED
    BY <1>0, <2>1, <2>2 DEF LinesWhole
<1>3. CASE Call
  BY <1>0, <1>3 DEF Call, LinesWhole
<1>4. CASE Skip
  BY <1>4, WholeScan DEF Skip, Skips, Kept, Wrong
<1>5. CASE Take
  BY <1>5, WholeScan DEF Take, Announces, Decoded, Wrong
<1>6. CASE Refuse
  BY <1>6 DEF Refuse, Errs, LinesWhole
<1>7. CASE End
  <2>1. UNCHANGED <<err, seen, sent>>
    BY <1>7 DEF End
  <2>2. CASE UNCHANGED <<lines, conn>>
    BY <1>0, <2>1, <2>2 DEF LinesWhole
  <2>3. ASSUME lines # <<>>, Head(lines).kind = "long",
               conn' = IF conn = "open" THEN "over" ELSE conn,
               NEW l \in Cut(Head(lines)), lines' = <<l>>
        PROVE  LinesWhole'
    <3>1. Head(lines) = lines[1] /\ Len(lines) \in Nat \ {0} /\ lines[1] \in Line
      BY <1>0, <2>3, HeadTail
    <3>2. l.kind \in Wrong
      BY <2>3, <3>1 DEF Cut, Wrong
    <3>3. "long" \notin Wrong
      BY DEF Wrong
    <3>4. ~err => /\ Len(seen) <= Len(sent)
                  /\ \A i \in 1..Len(seen) : seen[i] = sent[i]
                  /\ Len(seen) + Len(lines) <= Len(sent)
                  /\ lines[1] = sent[Len(seen) + 1]
      BY <1>0, <2>3, <3>1, <3>3 DEF LinesWhole
    <3>5. ~err => Len(seen) < Len(sent) /\ sent[Len(seen) + 1].kind = "long"
      BY <1>0, <2>3, <3>1, <3>4
    <3>6. Len(lines') = 1 /\ lines'[1] = l /\ conn' # "open"
      BY <2>3
    <3> QED
      BY <2>1, <3>2, <3>4, <3>5, <3>6 DEF LinesWhole
  <2> QED
    BY <1>7, <2>2, <2>3 DEF End
<1>8. CASE UNCHANGED streamVars
  BY <1>0, <1>8 DEF streamVars, LinesWhole
<1> QED
  BY <1>1, <1>2, <1>2a, <1>3, <1>4, <1>5, <1>6, <1>7, <1>8 DEF StreamNext, Run

LEMMA AskedKept == StreamInv /\ [StreamNext]_streamVars => Asked'
  BY DEF StreamInv, Asked, StreamNext, Run, streamVars, Send, Finish, Break, Call, Skip, Take,
         Refuse, End, Over, Return

\* When nothing is left, or a line too long for the scanner is next, all that
\* arrived before it has been announced.
LEMMA EndIsTold == StreamInv /\ [StreamNext]_streamVars => SilentEnd'
<1> SUFFICES ASSUME StreamInv, [StreamNext]_streamVars PROVE SilentEnd'
  OBVIOUS
<1>0. /\ lines \in Seq(Line) /\ seen \in Seq(Line) /\ sent \in Seq(Line)
      /\ Len(lines) \in Nat /\ Len(seen) \in Nat /\ Len(sent) \in Nat
      /\ LinesWhole /\ SilentEnd /\ Asked /\ announced = Posts(seen)
  BY DEF StreamInv, StreamTypeOK, PostsInOrder
<1>1. CASE End
  <2>1. UNCHANGED <<err, seen, sent, announced>>
    BY <1>1 DEF End
  <2> SUFFICES ASSUME ~err
               PROVE  \E i \in 0..Len(sent) :
                        /\ announced = Posts(SubSeq(sent, 1, i))
                        /\ \/ i = Len(sent)
                           \/ conn' = "broken"
                           \/ i > 0 /\ sent[i].kind = "long"
    BY <2>1 DEF SilentEnd
  <2>2. CASE lines = <<>> /\ UNCHANGED conn
    <3>1. /\ Len(seen) <= Len(sent) /\ \A i \in 1..Len(seen) : seen[i] = sent[i]
          /\ conn # "broken" => Len(seen) = Len(sent)
      BY <1>0, <2>2 DEF LinesWhole
    <3>2. SubSeq(sent, 1, Len(seen)) = seen
      BY <1>0, <3>1
    <3>3. Len(seen) \in 0..Len(sent)
      BY <1>0, <3>1
    <3> QED
      BY <1>0, <2>2, <3>1, <3>2, <3>3
  <2>3. CASE lines # <<>> /\ Head(lines).kind = "long"
    <3>1. Head(lines) = lines[1] /\ Len(lines) \in Nat \ {0} /\ lines[1] \in Line
      BY <1>0, <2>3, HeadTail
    <3>2. /\ \A i \in 1..Len(seen) : seen[i] = sent[i]
          /\ Len(seen) + Len(lines) <= Len(sent)
          /\ lines[1] = sent[Len(seen) + 1]
      BY <1>0, <2>3, <3>1 DEF LinesWhole, Wrong
    <3>3. PICK i : i = Len(seen) + 1
      OBVIOUS
    <3>4. i \in 1..Len(sent) /\ sent[i].kind = "long" /\ sent[i] \in Line
      BY <1>0, <2>3, <3>1, <3>2, <3>3
    <3>5. SubSeq(sent, 1, i) = Append(seen, sent[i])
      BY <1>0, <3>2, <3>3, <3>4
    <3>6. Posts(SubSeq(sent, 1, i)) = Posts(seen)
      BY <1>0, <3>4, <3>5, PostsOfNext DEF Decoded
    <3>7. i \in 0..Len(sent) /\ i > 0
      BY <1>0, <3>4
    <3> QED
      BY <1>0, <3>4, <3>6, <3>7
  <2> QED
    BY <1>1, <2>2, <2>3 DEF End, Over
<1>2. CASE Send \/ Finish \/ Break \/ Call \/ Skip \/ Take \/ Refuse
  <2>1. result' # "end"
    BY <1>0, <1>2 DEF Asked, Send, Finish, Break, Call, Skip, Take, Refuse, Return
  <2> QED
    BY <2>1 DEF SilentEnd
<1>3. CASE UNCHANGED streamVars
  BY <1>0, <1>3 DEF streamVars, SilentEnd
<1> QED
  BY <1>1, <1>2, <1>3 DEF StreamNext, Run

LEMMA StreamInvariance == StreamSpec => []StreamInv
<1>1. StreamInv /\ [StreamNext]_streamVars => StreamInv'
  BY TypeKept, OrderKept, WholeKept, AskedKept, EndIsTold DEF StreamInv
<1> QED
  BY <1>1, StreamInitInv, PTL DEF StreamSpec

\* Lines, posts and results are of their types.
THEOREM StreamTypeCorrect == StreamSpec => []StreamTypeOK
<1>1. StreamInv => StreamTypeOK
  BY DEF StreamInv
<1> QED
  BY <1>1, StreamInvariance, PTL

\* Each post is announced once, in order, whatever comes between.
THEOREM PostsComeInOrder == StreamSpec => []PostsInOrder
<1>1. StreamInv => PostsInOrder
  BY DEF StreamInv
<1> QED
  BY <1>1, StreamInvariance, PTL

\* At an end without an error the posts of the first lines sent have been announced,
\* all of them unless the connection broke or a line was too long.
THEOREM EndsAreWhole == StreamSpec => []SilentEnd
<1>1. StreamInv => SilentEnd
  BY DEF StreamInv
<1> QED
  BY <1>1, StreamInvariance, PTL
=============================================================================
