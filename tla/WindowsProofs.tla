--------------------------- MODULE WindowsProofs ---------------------------
(***************************************************************************)
(* What is proved of Windows, for any communities and posts, whatever the  *)
(* instance lists, and any number of windows.                              *)
(***************************************************************************)
EXTENDS Windows, SequenceTheorems, FiniteSetTheorems, WellFoundedInduction, TLAPS

(***************************************************************************)
(***************************************************************************)
(* The thread under a post                                                 *)
(***************************************************************************)
(***************************************************************************)

(***************************************************************************)
(* FlattenSeq                                                              *)
(***************************************************************************)

\* A set with 0 and the successor of each of its numbers contains them all.
LEMMA NatInSet ==
  ASSUME NEW T, 0 \in T, \A n \in Nat : n \in T => n + 1 \in T
  PROVE  Nat \subseteq T
<1> DEFINE Less == {ss \in Nat \X Nat : ss[1] < ss[2]}
           Rest == Nat \ T
<1> SUFFICES ASSUME Rest # {} PROVE FALSE
  OBVIOUS
<1>1. IsWellFoundedOn(Less, Nat)
  BY NatLessThanWellFounded DEF OpToRel
<1>2. Rest \subseteq Nat
  OBVIOUS
<1> HIDE DEF Less, Rest
<1>3. PICK n \in Rest : \A m \in Rest : <<m, n>> \notin Less
  BY <1>1, <1>2, WFMin
<1>4. n \in Nat /\ n # 0 /\ n - 1 \in Nat /\ n - 1 \notin T
  BY DEF Rest
<1>5. n - 1 \in Rest /\ <<n - 1, n>> \in Less
  BY <1>4 DEF Rest, Less
<1> QED
  BY <1>3, <1>5

\* f is the function that FlattenSeq defines, as far as the first n of s.
Flattens(f, n, s) ==
  f = [i \in 1..n |-> IF i = 1 THEN s[i] ELSE f[i - 1] \o s[i]]

LEMMA FlattenerExists ==
  ASSUME NEW s
  PROVE  \A n \in Nat : \E f : Flattens(f, n, s)
<1> DEFINE T == {n \in Nat : \E f : Flattens(f, n, s)}
<1>1. 0 \in T
  <2>1. 1..0 = {}
    OBVIOUS
  <2> DEFINE f == [i \in 1..0 |-> <<>>]
  <2>2. Flattens(f, 0, s)
    BY <2>1 DEF Flattens
  <2> QED
    BY <2>2
<1>2. ASSUME NEW n \in Nat, n \in T PROVE n + 1 \in T
  <2>1. PICK f : Flattens(f, n, s)
    BY <1>2
  <2> DEFINE last == IF n = 0 THEN s[n + 1] ELSE f[n] \o s[n + 1]
             g    == [i \in 1..n + 1 |-> IF i = n + 1 THEN last ELSE f[i]]
  <2>2. \A i \in 1..n + 1 : g[i] = IF i = 1 THEN s[i] ELSE g[i - 1] \o s[i]
    <3>1. \A i \in 1..n : f[i] = IF i = 1 THEN s[i] ELSE f[i - 1] \o s[i]
      BY <2>1 DEF Flattens
    <3>2. \A i \in 1..n : g[i] = f[i]
      OBVIOUS
    <3>3. g[n + 1] = last
      OBVIOUS
    <3> HIDE DEF g
    <3>4. ASSUME NEW i \in 1..n + 1, i # n + 1
          PROVE  g[i] = IF i = 1 THEN s[i] ELSE g[i - 1] \o s[i]
      <4>1. i \in 1..n
        BY <3>4
      <4>2. i # 1 => i - 1 \in 1..n
        BY <4>1
      <4> QED
        BY <4>1, <4>2, <3>1, <3>2
    <3>5. n # 0 => g[n] = f[n]
      BY <3>2
    <3>6. n + 1 = 1 <=> n = 0
      OBVIOUS
    <3>7. (n + 1) - 1 = n
      OBVIOUS
    <3> QED
      BY <3>3, <3>4, <3>5, <3>6, <3>7
  <2>3. Flattens(g, n + 1, s)
    BY <2>2 DEF Flattens
  <2> QED
    BY <2>3
<1> QED
  BY <1>1, <1>2, NatInSet

LEMMA FlattenSteps ==
  ASSUME NEW s, Len(s) \in Nat, Len(s) # 0
  PROVE  \E f : Flattens(f, Len(s), s) /\ FlattenSeq(s) = f[Len(s)]
<1> DEFINE flatten[i \in 1..Len(s)] == IF i = 1 THEN s[i] ELSE flatten[i - 1] \o s[i]
<1>1. flatten = CHOOSE f : Flattens(f, Len(s), s)
  BY DEF Flattens
<1>2. Flattens(flatten, Len(s), s)
  <2> HIDE DEF flatten
  <2> QED
    BY <1>1, FlattenerExists
<1>3. FlattenSeq(s) = flatten[Len(s)]
  BY DEF FlattenSeq
<1> QED
  BY <1>2, <1>3

(***************************************************************************)
(* Lines that show some comments of a listing                              *)
(***************************************************************************)
Line == [id : Nat, depth : Int]

\* The last line above j that is less deep is of p, and less by one.
Nests(s, j, p) ==
  \E a \in 1..j - 1 : /\ s[a].id = p /\ s[a].depth = s[j].depth - 1
                      /\ \A b \in a + 1..j - 1 : s[b].depth >= s[j].depth

\* s shows the comments in S, once each, under their parents, the least deep at d.
Forest(pool, d, S, s) ==
  /\ s \in Seq(Line)
  /\ \A j \in 1..Len(s) : \E k \in S : s[j].id = pool[k].id
  /\ \A k \in S : \E j \in 1..Len(s) : s[j].id = pool[k].id
  /\ Len(s) = Cardinality(S)
  /\ \A j \in 1..Len(s) : \A k \in S : s[j].id = pool[k].id =>
       /\ s[j].depth = Len(pool[k].path) - 2 /\ s[j].depth >= d
       /\ s[j].depth > d => Nests(s, j, Parent(pool[k]))

LEMMA EmptyForest == ASSUME NEW pool, NEW d PROVE Forest(pool, d, {}, <<>>)
<1>1. Cardinality({}) = 0
  BY FS_EmptySet
<1>2. <<>> \in Seq(Line) /\ Len(<<>>) = 0 /\ DOMAIN <<>> = {}
  OBVIOUS
<1> QED
  BY <1>1, <1>2 DEF Forest

LEMMA NestsInConcat ==
  ASSUME NEW s \in Seq(Line), NEW t \in Seq(Line), NEW p
  PROVE  /\ \A j \in 1..Len(s) : Nests(s, j, p) => Nests(s \o t, j, p)
         /\ \A j \in 1..Len(t) : Nests(t, j, p) => Nests(s \o t, Len(s) + j, p)
<1> DEFINE c == s \o t
<1>1. /\ c \in Seq(Line) /\ Len(c) = Len(s) + Len(t)
      /\ \A i \in 1..Len(s) + Len(t) : c[i] = IF i <= Len(s) THEN s[i] ELSE t[i - Len(s)]
  BY ConcatProperties
<1>2. Len(s) \in Nat /\ Len(t) \in Nat
  OBVIOUS
<1> HIDE DEF c
<1>3. ASSUME NEW j \in 1..Len(s), Nests(s, j, p) PROVE Nests(c, j, p)
  <2>1. \A i \in 1..j : c[i] = s[i]
    BY <1>1, <1>2
  <2>2. PICK a \in 1..j - 1 : /\ s[a].id = p /\ s[a].depth = s[j].depth - 1
                              /\ \A b \in a + 1..j - 1 : s[b].depth >= s[j].depth
    BY <1>3 DEF Nests
  <2>3. c[a] = s[a] /\ c[j] = s[j] /\ \A b \in a + 1..j - 1 : c[b] = s[b]
    BY <2>1
  <2> QED
    BY <2>2, <2>3 DEF Nests
<1>4. ASSUME NEW j \in 1..Len(t), Nests(t, j, p) PROVE Nests(c, Len(s) + j, p)
  <2>1. ASSUME NEW i \in 1..j PROVE c[Len(s) + i] = t[i]
    <3>1. /\ Len(s) + i \in 1..Len(s) + Len(t) /\ ~(Len(s) + i <= Len(s))
          /\ (Len(s) + i) - Len(s) = i
      BY <1>2
    <3> QED
      BY <3>1, <1>1
  <2>2. PICK a \in 1..j - 1 : /\ t[a].id = p /\ t[a].depth = t[j].depth - 1
                              /\ \A b \in a + 1..j - 1 : t[b].depth >= t[j].depth
    BY <1>4 DEF Nests
  <2>3. c[Len(s) + a] = t[a] /\ c[Len(s) + j] = t[j]
    BY <2>1
  <2>4. ASSUME NEW b \in Len(s) + a + 1..Len(s) + j - 1
        PROVE  c[b].depth >= c[Len(s) + j].depth
    <3>1. b - Len(s) \in a + 1..j - 1 /\ b - Len(s) \in 1..j /\ Len(s) + (b - Len(s)) = b
      BY <1>2
    <3> QED
      BY <3>1, <2>1, <2>2, <2>3
  <2>5. Len(s) + a \in 1..(Len(s) + j) - 1 /\ (Len(s) + a) + 1 = Len(s) + a + 1
    BY <1>2
  <2> QED
    BY <2>2, <2>3, <2>4, <2>5 DEF Nests
<1>5. /\ \A j \in 1..Len(s) : Nests(s, j, p) => Nests(c, j, p)
      /\ \A j \in 1..Len(t) : Nests(t, j, p) => Nests(c, Len(s) + j, p)
  BY <1>3, <1>4
<1> QED
  BY <1>5 DEF c

\* Trees beside each other are a forest.
LEMMA ForestConcat ==
  ASSUME NEW pool \in Seq(Comment), IsListing(pool), NEW d \in Nat,
         NEW S \in SUBSET DOMAIN pool, NEW T \in SUBSET DOMAIN pool,
         IsFiniteSet(S), IsFiniteSet(T), S \cap T = {},
         NEW s, NEW t, Forest(pool, d, S, s), Forest(pool, d, T, t)
  PROVE  Forest(pool, d, S \cup T, s \o t)
<1> DEFINE c == s \o t
           U == S \cup T
<1>0. s \in Seq(Line) /\ t \in Seq(Line)
  BY DEF Forest
<1>1. /\ c \in Seq(Line) /\ Len(c) = Len(s) + Len(t)
      /\ \A i \in 1..Len(s) + Len(t) : c[i] = IF i <= Len(s) THEN s[i] ELSE t[i - Len(s)]
  BY <1>0, ConcatProperties
<1>2. Len(s) \in Nat /\ Len(t) \in Nat
  BY <1>0
<1>3. /\ \A i \in 1..Len(s) : i \in 1..Len(c) /\ c[i] = s[i]
      /\ \A i \in 1..Len(t) : Len(s) + i \in 1..Len(c) /\ c[Len(s) + i] = t[i]
  <2>1. ASSUME NEW i \in 1..Len(t) PROVE Len(s) + i \in 1..Len(c) /\ c[Len(s) + i] = t[i]
    <3>1. /\ Len(s) + i \in 1..Len(s) + Len(t) /\ ~(Len(s) + i <= Len(s))
          /\ (Len(s) + i) - Len(s) = i
      BY <1>2
    <3> HIDE DEF c
    <3> QED
      BY <3>1, <1>1
  <2>2. ASSUME NEW i \in 1..Len(s) PROVE i \in 1..Len(c) /\ c[i] = s[i]
    <3> HIDE DEF c
    <3> QED
      BY <1>1, <1>2
  <2> QED
    BY <2>1, <2>2
<1> HIDE DEF c
<1>4. \A i \in 1..Len(c) : \/ i \in 1..Len(s)
                           \/ \E j \in 1..Len(t) : i = Len(s) + j
  <2> SUFFICES ASSUME NEW i \in 1..Len(c), i \notin 1..Len(s)
               PROVE  \E j \in 1..Len(t) : i = Len(s) + j
    OBVIOUS
  <2>1. i - Len(s) \in 1..Len(t) /\ i = Len(s) + (i - Len(s))
    BY <1>1, <1>2
  <2> QED
    BY <2>1
<1>5. /\ \A i \in 1..Len(s) : \E k \in S : s[i].id = pool[k].id
      /\ \A k \in S : \E i \in 1..Len(s) : s[i].id = pool[k].id
      /\ \A i \in 1..Len(t) : \E k \in T : t[i].id = pool[k].id
      /\ \A k \in T : \E i \in 1..Len(t) : t[i].id = pool[k].id
  BY DEF Forest
<1>6. /\ \A i \in 1..Len(c) : \E k \in U : c[i].id = pool[k].id
      /\ \A k \in U : \E i \in 1..Len(c) : c[i].id = pool[k].id
  <2>2. ASSUME NEW i \in 1..Len(c) PROVE \E k \in U : c[i].id = pool[k].id
    <3>1. CASE i \in 1..Len(s)
      BY <3>1, <1>3, <1>5
    <3>2. ASSUME NEW j \in 1..Len(t), i = Len(s) + j PROVE \E k \in U : c[i].id = pool[k].id
      <4>1. c[i] = t[j]
        BY <3>2, <1>3
      <4>2. PICK k \in T : t[j].id = pool[k].id
        BY <1>5
      <4> QED
        BY <4>1, <4>2
    <3> QED
      BY <3>1, <3>2, <1>4
  <2>3. ASSUME NEW k \in S PROVE \E i \in 1..Len(c) : c[i].id = pool[k].id
    BY <1>5, <1>3
  <2>4. ASSUME NEW k \in T PROVE \E i \in 1..Len(c) : c[i].id = pool[k].id
    <3>1. PICK i \in 1..Len(t) : t[i].id = pool[k].id
      BY <1>5
    <3>2. Len(s) + i \in 1..Len(c) /\ c[Len(s) + i] = t[i]
      BY <1>3
    <3> QED
      BY <3>1, <3>2
  <2> QED
    BY <2>2, <2>3, <2>4
<1>7. Len(c) = Cardinality(U)
  <2>1. Cardinality(S \cap T) = 0
    BY FS_EmptySet
  <2>2. Cardinality(S \cup T) = Cardinality(S) + Cardinality(T) - Cardinality(S \cap T)
    BY FS_Union
  <2>3. Len(s) = Cardinality(S) /\ Len(t) = Cardinality(T)
    BY DEF Forest
  <2> HIDE DEF U
  <2> QED
    BY <2>1, <2>2, <2>3, <1>1, <1>2 DEF U
\* What is shown in one of the two is not in the other.
<1>8. /\ \A i \in 1..Len(s) : \A k \in U : s[i].id = pool[k].id => k \in S
      /\ \A i \in 1..Len(t) : \A k \in U : t[i].id = pool[k].id => k \in T
  <2>1. \A k, m \in DOMAIN pool : pool[k].id = pool[m].id => k = m
    BY DEF IsListing
  <2> QED
    BY <2>1, <1>5
<1>9. ASSUME NEW i \in 1..Len(c), NEW k \in U, c[i].id = pool[k].id
      PROVE  /\ c[i].depth = Len(pool[k].path) - 2 /\ c[i].depth >= d
             /\ c[i].depth > d => Nests(c, i, Parent(pool[k]))
  <2> DEFINE p == Parent(pool[k])
  <2>0. /\ \A j \in 1..Len(s) : Nests(s, j, p) => Nests(c, j, p)
        /\ \A j \in 1..Len(t) : Nests(t, j, p) => Nests(c, Len(s) + j, p)
    <3> HIDE DEF p
    <3> QED
      BY <1>0, NestsInConcat DEF c
  <2> HIDE DEF p
  <2>1. CASE i \in 1..Len(s)
    <3>1. k \in S /\ c[i] = s[i]
      BY <2>1, <1>3, <1>8, <1>9
    <3>2. /\ s[i].depth = Len(pool[k].path) - 2 /\ s[i].depth >= d
          /\ s[i].depth > d => Nests(s, i, p)
      BY <2>1, <3>1, <1>2, <1>9 DEF Forest, p
    <3> QED
      BY <2>0, <2>1, <3>1, <3>2 DEF p
  <2>2. ASSUME NEW j \in 1..Len(t), i = Len(s) + j
        PROVE  /\ c[i].depth = Len(pool[k].path) - 2 /\ c[i].depth >= d
               /\ c[i].depth > d => Nests(c, i, p)
    <3>1. k \in T /\ c[i] = t[j]
      BY <2>2, <1>3, <1>8, <1>9
    <3>2. /\ t[j].depth = Len(pool[k].path) - 2 /\ t[j].depth >= d
          /\ t[j].depth > d => Nests(t, j, p)
      BY <2>2, <3>1, <1>2, <1>9 DEF Forest, p
    <3> QED
      BY <2>0, <2>2, <3>1, <3>2
  <2> QED
    BY <2>1, <2>2, <1>4 DEF p
<1> HIDE DEF U
<1>10. Forest(pool, d, U, c)
  BY <1>1, <1>6, <1>7, <1>9 DEF Forest
<1> QED
  BY <1>10 DEF U, c

\* A comment with the forest below it is a tree.
LEMMA TreeIsForest ==
  ASSUME NEW pool \in Seq(Comment), IsListing(pool), NEW d \in Nat, NEW c \in DOMAIN pool,
         Len(pool[c].path) = d + 2,
         NEW S \in SUBSET DOMAIN pool, IsFiniteSet(S), c \notin S,
         NEW s, Forest(pool, d + 1, S, s),
         \A k \in S : Len(pool[k].path) = d + 3 => Parent(pool[k]) = pool[c].id
  PROVE  Forest(pool, d, {c} \cup S, <<[id |-> pool[c].id, depth |-> d]>> \o s)
<1> DEFINE root == [id |-> pool[c].id, depth |-> d]
           t == <<root>> \o s
           U == {c} \cup S
<1>0. s \in Seq(Line) /\ root \in Line /\ <<root>> \in Seq(Line) /\ Len(<<root>>) = 1
      /\ <<root>>[1] = root /\ root.id = pool[c].id /\ root.depth = d
  <2>1. s \in Seq(Line)
    BY DEF Forest
  <2>2. pool[c].id \in Nat
    <3>1. pool[c] \in Comment
      OBVIOUS
    <3> QED
      BY <3>1 DEF Comment
  <2>3. root \in Line
    BY <2>2 DEF Line
  <2> QED
    BY <2>1, <2>3
<1> HIDE DEF root
<1>1. t \in Seq(Line) /\ Len(t) = 1 + Len(s) /\ Len(s) \in Nat
  BY <1>0, ConcatProperties
<1>2. t[1] = root /\ \A i \in 1..Len(s) : i + 1 \in 1..Len(t) /\ t[i + 1] = s[i]
  <2>1. \A i \in 1..Len(<<root>>) + Len(s) :
          t[i] = IF i <= Len(<<root>>) THEN <<root>>[i] ELSE s[i - Len(<<root>>)]
    BY <1>0, ConcatProperties
  <2> HIDE DEF t
  <2>2. t[1] = root
    BY <2>1, <1>0, <1>1
  <2>3. ASSUME NEW i \in 1..Len(s) PROVE i + 1 \in 1..Len(t) /\ t[i + 1] = s[i]
    <3>1. i + 1 \in 1..1 + Len(s) /\ ~(i + 1 <= 1) /\ (i + 1) - 1 = i
      BY <1>1
    <3> QED
      BY <3>1, <2>1, <1>0, <1>1
  <2> QED
    BY <2>2, <2>3
<1> HIDE DEF t
<1>3. \A i \in 1..Len(t) : i = 1 \/ \E j \in 1..Len(s) : i = j + 1
  <2> SUFFICES ASSUME NEW i \in 1..Len(t), i # 1 PROVE \E j \in 1..Len(s) : i = j + 1
    OBVIOUS
  <2>1. i - 1 \in 1..Len(s) /\ i = (i - 1) + 1
    BY <1>1
  <2> QED
    BY <2>1
<1>4. /\ \A i \in 1..Len(s) : \E k \in S : s[i].id = pool[k].id
      /\ \A k \in S : \E i \in 1..Len(s) : s[i].id = pool[k].id
      /\ Len(s) = Cardinality(S)
      /\ \A i \in 1..Len(s) : \A k \in S : s[i].id = pool[k].id =>
           /\ s[i].depth = Len(pool[k].path) - 2 /\ s[i].depth >= d + 1
           /\ s[i].depth > d + 1 => Nests(s, i, Parent(pool[k]))
  BY DEF Forest
<1>5. /\ \A i \in 1..Len(t) : \E k \in U : t[i].id = pool[k].id
      /\ \A k \in U : \E i \in 1..Len(t) : t[i].id = pool[k].id
  <2>1. ASSUME NEW i \in 1..Len(t) PROVE \E k \in U : t[i].id = pool[k].id
    <3>1. CASE i = 1
      BY <3>1, <1>2, <1>0
    <3>2. ASSUME NEW j \in 1..Len(s), i = j + 1 PROVE \E k \in U : t[i].id = pool[k].id
      <4>1. t[i] = s[j]
        BY <3>2, <1>2
      <4>2. PICK k \in S : s[j].id = pool[k].id
        BY <1>4
      <4> QED
        BY <4>1, <4>2
    <3> QED
      BY <3>1, <3>2, <1>3
  <2>2. ASSUME NEW k \in S PROVE \E i \in 1..Len(t) : t[i].id = pool[k].id
    <3>1. PICK i \in 1..Len(s) : s[i].id = pool[k].id
      BY <1>4
    <3>2. i + 1 \in 1..Len(t) /\ t[i + 1] = s[i]
      BY <1>2
    <3> QED
      BY <3>1, <3>2
  <2>3. \E i \in 1..Len(t) : t[i].id = pool[c].id
    <3>1. 1 \in 1..Len(t) /\ t[1].id = pool[c].id
      BY <1>0, <1>1, <1>2
    <3> QED
      BY <3>1
  <2> QED
    BY <2>1, <2>2, <2>3
<1>6. Len(t) = Cardinality(U)
  <2>1. Cardinality(S \cup {c}) = Cardinality(S) + 1
    BY FS_AddElement
  <2>2. U = S \cup {c}
    OBVIOUS
  <2> HIDE DEF U
  <2> QED
    BY <2>1, <2>2, <1>1, <1>4
<1>7. /\ \A k \in U : root.id = pool[k].id => k = c
      /\ \A i \in 1..Len(s) : \A k \in U : s[i].id = pool[k].id => k \in S
  <2>1. \A k, m \in DOMAIN pool : pool[k].id = pool[m].id => k = m
    BY DEF IsListing
  <2> QED
    BY <2>1, <1>0, <1>4
<1>8. ASSUME NEW i \in 1..Len(t), NEW k \in U, t[i].id = pool[k].id
      PROVE  /\ t[i].depth = Len(pool[k].path) - 2 /\ t[i].depth >= d
             /\ t[i].depth > d => Nests(t, i, Parent(pool[k]))
  <2>1. CASE i = 1
    <3>1. k = c /\ t[i].depth = d
      BY <2>1, <1>0, <1>2, <1>7, <1>8
    <3>2. d = (d + 2) - 2 /\ ~(d > d) /\ d >= d
      OBVIOUS
    <3>3. t[i].depth = Len(pool[k].path) - 2
      BY <3>1, <3>2
    <3> QED
      BY <3>1, <3>2, <3>3
  <2>2. ASSUME NEW j \in 1..Len(s), i = j + 1
        PROVE  /\ t[i].depth = Len(pool[k].path) - 2 /\ t[i].depth >= d
               /\ Nests(t, i, Parent(pool[k]))
    <3>1. k \in S /\ t[i] = s[j]
      BY <2>2, <1>2, <1>7, <1>8
    <3>2. s[j].id = pool[k].id
      BY <3>1, <1>8
    <3>3. /\ s[j].depth = Len(pool[k].path) - 2 /\ s[j].depth >= d + 1
          /\ s[j].depth > d + 1 => Nests(s, j, Parent(pool[k]))
      BY <3>1, <3>2, <1>4
    <3>4. ASSUME NEW m \in 1..Len(s) PROVE s[m].depth \in Int /\ s[m].depth >= d + 1
      <4>1. PICK n \in S : s[m].id = pool[n].id
        BY <1>4
      <4>2. s[m].depth >= d + 1
        BY <4>1, <1>4
      <4>3. s[m] \in Line
        BY <1>0
      <4> QED
        BY <4>2, <4>3 DEF Line
    <3>5. CASE s[j].depth > d + 1
      <4>1. Nests(<<root>> \o s, Len(<<root>>) + j, Parent(pool[k]))
        <5> DEFINE p == Parent(pool[k])
        <5>1. Nests(s, j, p)
          BY <3>3, <3>5
        <5> HIDE DEF p
        <5>2. Nests(<<root>> \o s, Len(<<root>>) + j, p)
          BY <5>1, <1>0, NestsInConcat
        <5> QED
          BY <5>2 DEF p
      <4>2. Len(<<root>>) + j = i
        BY <1>0, <2>2
      <4> QED
        BY <4>1, <4>2, <3>1, <3>3, <3>4 DEF t
    <3>6. CASE ~(s[j].depth > d + 1)
      <4>1. s[j].depth = d + 1
        BY <3>3, <3>4, <3>6
      <4>2. Parent(pool[k]) = pool[c].id
        <5>1. Len(pool[k].path) \in Int
          BY DEF Comment
        <5> QED
          BY <4>1, <3>1, <3>3, <5>1
      <4>3. /\ 1 \in 1..i - 1 /\ t[1].id = Parent(pool[k]) /\ t[1].depth = t[i].depth - 1
        BY <4>1, <4>2, <3>1, <1>0, <1>2, <2>2
      <4>4. ASSUME NEW b \in 1 + 1..i - 1 PROVE t[b].depth >= t[i].depth
        <5>1. b - 1 \in 1..Len(s) /\ (b - 1) + 1 = b
          BY <2>2, <1>1
        <5>2. t[b] = s[b - 1]
          BY <5>1, <1>2
        <5> QED
          BY <5>1, <5>2, <4>1, <3>1, <3>4
      <4>5. Nests(t, i, Parent(pool[k]))
        BY <4>3, <4>4 DEF Nests
      <4> QED
        BY <4>1, <4>5, <3>1, <3>3
    <3> QED
      BY <3>5, <3>6
  <2> QED
    BY <2>1, <2>2, <1>3
<1> HIDE DEF U
<1>9. Forest(pool, d, U, t)
  BY <1>1, <1>5, <1>6, <1>8 DEF Forest
<1> QED
  BY <1>9 DEF U, t, root

(***************************************************************************)
(* The comments of a listing                                               *)
(***************************************************************************)
LEMMA CommentTypes ==
  ASSUME NEW pool \in Seq(Comment), NEW k \in DOMAIN pool
  PROVE  /\ pool[k].id \in Nat /\ pool[k].path \in Seq(Nat)
         /\ Len(pool[k].path) \in Nat
<1>1. pool[k] \in Comment
  OBVIOUS
<1>2. pool[k].id \in Nat /\ pool[k].path \in Seq(Nat)
  BY <1>1 DEF Comment
<1> QED
  BY <1>2

LEMMA ThereIsFinite ==
  ASSUME NEW pool \in Seq(Comment)
  PROVE  /\ There(pool) \subseteq DOMAIN pool
         /\ \A S \in SUBSET DOMAIN pool : IsFiniteSet(S)
<1>1. IsFiniteSet(1..Len(pool))
  BY FS_Interval
<1>2. DOMAIN pool = 1..Len(pool)
  OBVIOUS
<1>3. IsFiniteSet(DOMAIN pool)
  BY <1>1, <1>2
<1>4. \A S \in SUBSET DOMAIN pool : IsFiniteSet(S)
  BY <1>3, FS_Subset
<1> QED
  BY <1>4 DEF There

\* Those that answer c, through others too, as far as they can be shown.
Below(pool, c) ==
  {k \in There(pool) : /\ Len(pool[k].path) > Len(pool[c].path)
                       /\ pool[k].path[Len(pool[c].path)] = pool[c].id}

\* A comment and those below it are those that have its ID at its depth.
LEMMA BelowIs ==
  ASSUME NEW pool \in Seq(Comment), IsListing(pool), NEW k \in There(pool)
  PROVE  /\ {k} \cup Below(pool, k) =
              {m \in There(pool) : /\ Len(pool[m].path) >= Len(pool[k].path)
                                   /\ pool[m].path[Len(pool[k].path)] = pool[k].id}
         /\ k \notin Below(pool, k) /\ Below(pool, k) \subseteq DOMAIN pool
         /\ \A m \in Below(pool, k) : Len(pool[m].path) = Len(pool[k].path) + 1 =>
              Parent(pool[m]) = pool[k].id
<1>0. There(pool) \subseteq DOMAIN pool
  BY ThereIsFinite
<1>1. \A m \in There(pool) : Len(pool[m].path) \in Nat
  BY <1>0, CommentTypes
<1>2. /\ \A m \in There(pool) : pool[m].path[Len(pool[m].path)] = pool[m].id
      /\ \A m, n \in There(pool) : pool[m].id = pool[n].id => m = n
  BY <1>0 DEF IsListing
<1>3. ASSUME NEW m \in There(pool), Len(pool[m].path) >= Len(pool[k].path),
             pool[m].path[Len(pool[k].path)] = pool[k].id
      PROVE  m \in {k} \cup Below(pool, k)
  <2>1. CASE Len(pool[m].path) = Len(pool[k].path)
    BY <2>1, <1>2, <1>3
  <2>2. CASE Len(pool[m].path) # Len(pool[k].path)
    <3>1. Len(pool[m].path) > Len(pool[k].path)
      BY <2>2, <1>1, <1>3
    <3> QED
      BY <3>1, <1>3 DEF Below
  <2> QED
    BY <2>1, <2>2
<1>4. ASSUME NEW m \in {k} \cup Below(pool, k)
      PROVE  /\ m \in There(pool) /\ Len(pool[m].path) >= Len(pool[k].path)
             /\ pool[m].path[Len(pool[k].path)] = pool[k].id
  BY <1>1, <1>2 DEF Below
<1>5. k \notin Below(pool, k) /\ Below(pool, k) \subseteq DOMAIN pool
  BY <1>0, <1>1 DEF Below
<1>6. ASSUME NEW m \in Below(pool, k), Len(pool[m].path) = Len(pool[k].path) + 1
      PROVE  Parent(pool[m]) = pool[k].id
  <2>1. Len(pool[m].path) - 1 = Len(pool[k].path)
    BY <1>1, <1>6
  <2> QED
    BY <2>1 DEF Below, Parent
<1> QED
  BY <1>3, <1>4, <1>5, <1>6

\* Trees side by side, one for each comment in S.
LEMMA LinesAreForest ==
  ASSUME NEW pool \in Seq(Comment), IsListing(pool), NEW d \in Nat,
         NEW S \in SUBSET There(pool), \A k \in S : Len(pool[k].path) = d + 2,
         NEW below,
         \A k \in S : Forest(pool, d + 1, Below(pool, k), below[pool[k].id])
  PROVE  Forest(pool, d,
                {m \in There(pool) : /\ Len(pool[m].path) >= d + 2
                                     /\ \E k \in S : pool[m].path[d + 2] = pool[k].id},
                Lines(pool, S, d, below))
<1> DEFINE tree(k) == <<[id |-> pool[k].id, depth |-> d]>> \o below[pool[k].id]
           trees == [k \in DOMAIN pool |-> IF k \in S THEN tree(k) ELSE <<>>]
           Shown(i) == {m \in There(pool) :
                         /\ Len(pool[m].path) >= d + 2
                         /\ \E k \in S : k <= i /\ pool[m].path[d + 2] = pool[k].id}
           New(k) == IF k \in S THEN {k} \cup Below(pool, k) ELSE {}
<1>0. /\ DOMAIN pool = 1..Len(pool) /\ Len(pool) \in Nat /\ There(pool) \subseteq DOMAIN pool
      /\ \A T \in SUBSET DOMAIN pool : IsFiniteSet(T)
  BY ThereIsFinite
<1>1. Lines(pool, S, d, below) = FlattenSeq(trees)
  BY DEF Lines
<1>2. \A k \in DOMAIN pool : trees[k] = IF k \in S THEN tree(k) ELSE <<>>
  OBVIOUS
<1>3. DOMAIN trees = 1..Len(pool)
  BY <1>0
<1>4. Len(trees) = Len(pool)
  <2> HIDE DEF trees
  <2> QED
    BY <1>0, <1>3
<1> HIDE DEF trees
<1>5. ASSUME NEW k \in DOMAIN pool PROVE Forest(pool, d, New(k), trees[k]) /\ New(k) \subseteq DOMAIN pool
  <2>1. CASE k \in S
    <3>1. /\ k \notin Below(pool, k) /\ Below(pool, k) \in SUBSET DOMAIN pool
          /\ \A m \in Below(pool, k) : Len(pool[m].path) = d + 3 => Parent(pool[m]) = pool[k].id
      <4>1. (d + 2) + 1 = d + 3
        OBVIOUS
      <4> QED
        BY <2>1, <4>1, BelowIs
    <3>2. IsFiniteSet(Below(pool, k))
      BY <3>1, <1>0
    <3>3. Forest(pool, d, {k} \cup Below(pool, k), tree(k))
      BY <2>1, <3>1, <3>2, TreeIsForest
    <3> QED
      BY <2>1, <3>1, <3>3, <1>2
  <2>2. CASE k \notin S
    <3>1. Forest(pool, d, {}, <<>>)
      BY EmptyForest
    <3> QED
      BY <2>2, <3>1, <1>2
  <2> QED
    BY <2>1, <2>2
<1>6. ASSUME NEW i \in DOMAIN pool
      PROVE  /\ Shown(i) = Shown(i - 1) \cup New(i) /\ Shown(i - 1) \cap New(i) = {}
             /\ Shown(i - 1) \in SUBSET DOMAIN pool
  <2>0. \A k \in S : k <= i <=> k <= i - 1 \/ k = i
    BY <1>0
  <2>1. Shown(i - 1) \in SUBSET DOMAIN pool
    BY <1>0
  <2>2. CASE i \in S
    <3>1. New(i) = {m \in There(pool) : /\ Len(pool[m].path) >= d + 2
                                        /\ pool[m].path[d + 2] = pool[i].id}
      BY <2>2, BelowIs
    <3>2. Shown(i) = Shown(i - 1) \cup New(i)
      BY <2>0, <2>2, <3>1
    <3>3. \A k \in S : pool[k].id = pool[i].id => k = i
      BY <1>0, <2>2 DEF IsListing
    <3>4. ~(i <= i - 1)
      BY <1>0
    <3>5. Shown(i - 1) \cap New(i) = {}
      BY <3>1, <3>3, <3>4
    <3> QED
      BY <2>1, <3>2, <3>5
  <2>3. CASE i \notin S
    BY <2>0, <2>1, <2>3
  <2> QED
    BY <2>2, <2>3
<1>7. CASE Len(pool) = 0
  <2>1. trees = <<>>
    BY <1>3, <1>7
  <2>2. FlattenSeq(trees) = <<>>
    BY <1>4, <1>7, <2>1 DEF FlattenSeq
  <2>3. There(pool) = {}
    BY <1>0, <1>7
  <2>4. Forest(pool, d, {}, <<>>)
    BY EmptyForest
  <2> QED
    BY <2>2, <2>3, <2>4, <1>1
<1>8. CASE Len(pool) # 0
  <2>1. PICK f : Flattens(f, Len(pool), trees) /\ FlattenSeq(trees) = f[Len(pool)]
    BY <1>0, <1>4, <1>8, FlattenSteps
  <2>2. \A i \in 1..Len(pool) : f[i] = IF i = 1 THEN trees[i] ELSE f[i - 1] \o trees[i]
    BY <2>1 DEF Flattens
  <2> DEFINE T == {i \in Nat : i + 1 \in 1..Len(pool) => Forest(pool, d, Shown(i + 1), f[i + 1])}
  <2>3. 0 \in T
    <3>1. 1 \in DOMAIN pool /\ 1 - 1 = 0 /\ 0 + 1 = 1 /\ f[1] = trees[1]
      BY <1>0, <1>8, <2>2
    <3>2. Shown(0) = {}
      <4>1. \A k \in S : ~(k <= 0)
        BY <1>0
      <4> QED
        BY <4>1
    <3>3. Shown(1) = New(1)
      <4>1. Shown(1) = Shown(1 - 1) \cup New(1)
        BY <3>1, <1>6
      <4> HIDE DEF Shown, New
      <4> QED
        BY <4>1, <3>1, <3>2
    <3>4. Forest(pool, d, New(1), trees[1])
      BY <3>1, <1>5
    <3> HIDE DEF Shown, New
    <3> QED
      BY <3>1, <3>3, <3>4
  <2>4. ASSUME NEW i \in Nat, i \in T PROVE i + 1 \in T
    <3> SUFFICES ASSUME (i + 1) + 1 \in 1..Len(pool)
                 PROVE  Forest(pool, d, Shown((i + 1) + 1), f[(i + 1) + 1])
      OBVIOUS
    <3> DEFINE j == (i + 1) + 1
    <3>1. j \in DOMAIN pool /\ j - 1 = i + 1 /\ j # 1 /\ i + 1 \in 1..Len(pool)
      BY <1>0
    <3>2. f[j] = f[j - 1] \o trees[j]
      BY <3>1, <2>2, <1>0
    <3>3. Forest(pool, d, Shown(j - 1), f[j - 1])
      BY <3>1, <2>4
    <3>4. Forest(pool, d, New(j), trees[j]) /\ New(j) \in SUBSET DOMAIN pool
      BY <3>1, <1>5
    <3>5. /\ Shown(j) = Shown(j - 1) \cup New(j) /\ Shown(j - 1) \cap New(j) = {}
          /\ Shown(j - 1) \in SUBSET DOMAIN pool
      BY <3>1, <1>6
    <3> HIDE DEF Shown, New, j
    <3>6. IsFiniteSet(Shown(j - 1)) /\ IsFiniteSet(New(j))
      BY <3>4, <3>5, <1>0
    <3>7. Forest(pool, d, Shown(j - 1) \cup New(j), f[j - 1] \o trees[j])
      BY <3>3, <3>4, <3>5, <3>6, ForestConcat
    <3> QED
      BY <3>2, <3>5, <3>7 DEF j
  <2> HIDE DEF T
  <2>5. Len(pool) - 1 \in T
    <3>1. Len(pool) - 1 \in Nat
      BY <1>0, <1>8
    <3> QED
      BY <3>1, <2>3, <2>4, NatInSet
  <2>6. Forest(pool, d, Shown(Len(pool)), f[Len(pool)])
    <3>1. (Len(pool) - 1) + 1 = Len(pool) /\ Len(pool) \in 1..Len(pool)
      BY <1>0, <1>8
    <3> HIDE DEF Shown
    <3> QED
      BY <2>5, <3>1 DEF T
  <2>7. Shown(Len(pool)) = {m \in There(pool) :
                              /\ Len(pool[m].path) >= d + 2
                              /\ \E k \in S : pool[m].path[d + 2] = pool[k].id}
    <3>1. \A k \in S : k <= Len(pool)
      BY <1>0
    <3> QED
      BY <3>1
  <2> HIDE DEF Shown
  <2> QED
    BY <2>1, <2>6, <2>7, <1>1
<1> QED
  BY <1>7, <1>8

\* The ancestors of a comment that is shown are listed, each once.
LEMMA DepthIsBounded ==
  ASSUME NEW pool \in Seq(Comment), IsListing(pool), NEW k \in There(pool)
  PROVE  Len(pool[k].path) <= Len(pool) + 1
<1> DEFINE p == pool[k].path
           f == [e \in 2..Len(p) |-> CHOOSE m \in DOMAIN pool : pool[m].id = p[e]]
<1>0. k \in DOMAIN pool /\ Len(p) \in Nat /\ Len(p) > 1 /\ Len(pool) \in Nat
  BY ThereIsFinite, CommentTypes DEF IsListing
<1>1. \A e \in 2..Len(p) : f[e] \in DOMAIN pool /\ pool[f[e]].id = p[e]
  <2>1. \A e \in 2..Len(p) : \E m \in DOMAIN pool : pool[m].id = p[e]
    BY DEF There, IDs
  <2> QED
    BY <2>1
<1>2. ASSUME NEW a \in 2..Len(p), NEW b \in 2..Len(p), f[a] = f[b] PROVE a = b
  <2>1. Len(pool[f[a]].path) = a
    <3> HIDE DEF f
    <3>1. f[a] \in DOMAIN pool /\ p[a] = pool[f[a]].id /\ a \in 1..Len(p)
      BY <1>0, <1>1
    <3> QED
      BY <1>0, <3>1 DEF IsListing
  <2>2. Len(pool[f[b]].path) = b
    <3> HIDE DEF f
    <3>1. f[b] \in DOMAIN pool /\ p[b] = pool[f[b]].id /\ b \in 1..Len(p)
      BY <1>0, <1>1
    <3> QED
      BY <1>0, <3>1 DEF IsListing
  <2> QED
    BY <2>1, <2>2, <1>2
<1>3. f \in [2..Len(p) -> 1..Len(pool)]
  <2>1. DOMAIN pool = 1..Len(pool)
    OBVIOUS
  <2> QED
    BY <1>1, <2>1
<1>4. /\ IsFiniteSet(2..Len(p)) /\ Cardinality(2..Len(p)) = Len(p) - 1
      /\ IsFiniteSet(1..Len(pool)) /\ Cardinality(1..Len(pool)) = Len(pool)
  <2> HIDE DEF p
  <2>1. /\ IsFiniteSet(2..Len(p))
        /\ Cardinality(2..Len(p)) = IF 2 > Len(p) THEN 0 ELSE Len(p) - 2 + 1
    BY <1>0, FS_Interval
  <2>2. /\ IsFiniteSet(1..Len(pool))
        /\ Cardinality(1..Len(pool)) = IF 1 > Len(pool) THEN 0 ELSE Len(pool) - 1 + 1
    BY <1>0, FS_Interval
  <2> QED
    BY <2>1, <2>2, <1>0
<1> HIDE DEF f, p
<1>5. ~(Cardinality(1..Len(pool)) < Cardinality(2..Len(p)))
  <2> SUFFICES ASSUME Cardinality(1..Len(pool)) < Cardinality(2..Len(p)) PROVE FALSE
    OBVIOUS
  <2>1. \E a, b \in 2..Len(p) : a # b /\ f[a] = f[b]
    BY <1>3, <1>4, FS_PigeonHole
  <2> QED
    BY <2>1, <1>2
<1>6. Len(p) <= Len(pool) + 1
  BY <1>0, <1>4, <1>5
<1> QED
  BY <1>6 DEF p

(***************************************************************************)
(* printThread                                                             *)
(***************************************************************************)
\* f is the function that printThread defines, for up to n generations.
Prints(f, n, pool) ==
  f = [i \in 0..n |-> [parent \in IDs(pool) |->
         IF i = 0 THEN <<>>
         ELSE Lines(pool, children(parent, pool), Len(pool) - i + 1, f[i - 1])]]

LEMMA PrinterExists ==
  ASSUME NEW pool
  PROVE  \A n \in Nat : \E f : Prints(f, n, pool)
<1> DEFINE T == {n \in Nat : \E f : Prints(f, n, pool)}
           Next1(i, g) == [parent \in IDs(pool) |->
             IF i = 0 THEN <<>>
             ELSE Lines(pool, children(parent, pool), Len(pool) - i + 1, g)]
<1>1. 0 \in T
  <2> DEFINE f == [i \in 0..0 |-> [parent \in IDs(pool) |-> <<>>]]
  <2>1. Prints(f, 0, pool)
    BY DEF Prints
  <2> QED
    BY <2>1
<1>2. ASSUME NEW n \in Nat, n \in T PROVE n + 1 \in T
  <2>1. PICK f : Prints(f, n, pool)
    BY <1>2
  <2> DEFINE g == [i \in 0..n + 1 |-> IF i = n + 1 THEN Next1(n + 1, f[n]) ELSE f[i]]
  <2>2. \A i \in 0..n + 1 : g[i] = Next1(i, g[i - 1])
    <3>1. \A i \in 0..n : f[i] = Next1(i, f[i - 1])
      BY <2>1 DEF Prints
    <3>2. \A i \in 0..n : g[i] = f[i]
      OBVIOUS
    <3>3. g[n + 1] = Next1(n + 1, f[n])
      OBVIOUS
    <3> HIDE DEF g
    <3>4. ASSUME NEW i \in 0..n + 1, i # n + 1 PROVE g[i] = Next1(i, g[i - 1])
      <4>1. i \in 0..n
        BY <3>4
      <4>2. CASE i = 0
        BY <4>1, <4>2, <3>1, <3>2
      <4>3. CASE i # 0
        <5>1. i - 1 \in 0..n
          BY <4>1, <4>3
        <5>2. g[i - 1] = f[i - 1] /\ g[i] = f[i]
          BY <4>1, <5>1, <3>2
        <5> HIDE DEF Next1
        <5> QED
          BY <4>1, <5>2, <3>1
      <4> QED
        BY <4>2, <4>3
    <3>5. g[(n + 1) - 1] = f[n]
      <4>1. (n + 1) - 1 = n
        OBVIOUS
      <4> QED
        BY <3>2, <4>1
    <3> HIDE DEF Next1
    <3> QED
      BY <3>3, <3>4, <3>5
  <2>3. g = [i \in 0..n + 1 |-> Next1(i, g[i - 1])]
    <3> DEFINE h == [i \in 0..n + 1 |-> Next1(i, g[i - 1])]
    <3>1. DOMAIN g = 0..n + 1 /\ g = [i \in 0..n + 1 |-> g[i]]
      OBVIOUS
    <3> HIDE DEF g, Next1
    <3> QED
      BY <2>2, <3>1
  <2>4. Prints(g, n + 1, pool)
    <3> HIDE DEF g
    <3> QED
      BY <2>3 DEF Prints
  <2> QED
    BY <2>4
<1> HIDE DEF T
<1>3. Nat \subseteq T
  BY <1>1, <1>2, NatInSet
<1> QED
  BY <1>3 DEF T

LEMMA PrintSteps ==
  ASSUME NEW pool, Len(pool) \in Nat
  PROVE  \E f : Prints(f, Len(pool), pool) /\ printThread(pool) = f[Len(pool)]
<1> DEFINE thread[n \in 0..Len(pool)] ==
             [parent \in IDs(pool) |->
                IF n = 0 THEN <<>>
                ELSE Lines(pool, children(parent, pool), Len(pool) - n + 1, thread[n - 1])]
<1>1. thread = CHOOSE f : Prints(f, Len(pool), pool)
  BY DEF Prints
<1>2. Prints(thread, Len(pool), pool)
  <2> HIDE DEF thread
  <2> QED
    BY <1>1, PrinterExists
<1>3. printThread(pool) = thread[Len(pool)]
  BY DEF printThread
<1> QED
  BY <1>2, <1>3

\* The children of a comment that is shown are shown.
LEMMA ChildrenAre ==
  ASSUME NEW pool \in Seq(Comment), IsListing(pool), NEW c \in There(pool)
  PROVE  /\ children(pool[c].id, pool) \subseteq There(pool)
         /\ \A k \in children(pool[c].id, pool) : /\ Len(pool[k].path) = Len(pool[c].path) + 1
                                                 /\ pool[k].path[Len(pool[c].path)] = pool[c].id
<1>1. There(pool) \subseteq DOMAIN pool
  BY ThereIsFinite
<1> SUFFICES ASSUME NEW k \in DOMAIN pool, Parent(pool[k]) = pool[c].id
             PROVE  /\ k \in There(pool) /\ Len(pool[k].path) = Len(pool[c].path) + 1
                    /\ pool[k].path[Len(pool[c].path)] = pool[c].id
  BY DEF children
<1> DEFINE p == pool[k].path
           q == pool[c].path
<1>2. /\ Len(p) \in Nat /\ Len(p) > 1 /\ p[1] = 0 /\ p[Len(p)] = pool[k].id
      /\ Len(q) \in Nat
  BY <1>1, CommentTypes DEF IsListing
<1>3. p[Len(p) - 1] = pool[c].id
  BY DEF Parent
<1>4. Len(p) - 1 \in 1..Len(p)
  BY <1>2
<1>5. Len(q) = Len(p) - 1 /\ \A x \in 1..Len(p) - 1 : q[x] = p[x]
  BY <1>1, <1>3, <1>4 DEF IsListing
<1>6. \A e \in 2..Len(q) : q[e] \in IDs(pool)
  BY DEF There
<1>7. p[Len(p)] \in IDs(pool)
  BY <1>2 DEF IDs
<1>8. ASSUME NEW e \in 2..Len(p) PROVE p[e] \in IDs(pool)
  <2> HIDE DEF p, q
  <2>1. CASE e = Len(p)
    BY <2>1, <1>7
  <2>2. CASE e # Len(p)
    <3>1. e \in 2..Len(q) /\ e \in 1..Len(p) - 1
      BY <2>2, <1>2, <1>5
    <3> QED
      BY <3>1, <1>5, <1>6
  <2> QED
    BY <2>1, <2>2
<1>9. k \in There(pool)
  BY <1>8 DEF There
<1>10. Len(p) = Len(q) + 1 /\ p[Len(q)] = pool[c].id
  <2> HIDE DEF p, q
  <2> QED
    BY <1>2, <1>3, <1>5
<1> QED
  BY <1>9, <1>10

\* Whoever is below a comment is, or is below, one of its children.
LEMMA BelowByChildren ==
  ASSUME NEW pool \in Seq(Comment), IsListing(pool), NEW c \in There(pool)
  PROVE  Below(pool, c) =
           {m \in There(pool) : /\ Len(pool[m].path) >= Len(pool[c].path) + 1
                                /\ \E k \in children(pool[c].id, pool) :
                                     pool[m].path[Len(pool[c].path) + 1] = pool[k].id}
<1> DEFINE n == Len(pool[c].path)
           C == children(pool[c].id, pool)
<1>0. /\ There(pool) \subseteq DOMAIN pool /\ n \in Nat /\ n > 1
      /\ \A m \in DOMAIN pool : Len(pool[m].path) \in Nat
  BY ThereIsFinite, CommentTypes DEF IsListing
<1>1. ASSUME NEW m \in Below(pool, c)
      PROVE  /\ m \in There(pool) /\ Len(pool[m].path) >= n + 1
             /\ \E k \in C : pool[m].path[n + 1] = pool[k].id
  <2>1. m \in There(pool) /\ Len(pool[m].path) > n /\ pool[m].path[n] = pool[c].id
    BY DEF Below
  <2>2. /\ m \in DOMAIN pool /\ Len(pool[m].path) >= n + 1 /\ n + 1 \in 2..Len(pool[m].path)
        /\ n + 1 \in 1..Len(pool[m].path)
    BY <2>1, <1>0
  <2>3. pool[m].path[n + 1] \in IDs(pool)
    BY <2>1, <2>2 DEF There
  <2>4. PICK k \in DOMAIN pool : pool[m].path[n + 1] = pool[k].id
    BY <2>3 DEF IDs
  <2>5. Len(pool[k].path) = n + 1 /\ \A x \in 1..n + 1 : pool[k].path[x] = pool[m].path[x]
    BY <2>2, <2>4 DEF IsListing
  <2>6. Parent(pool[k]) = pool[c].id
    <3>1. (n + 1) - 1 = n /\ n \in 1..n + 1
      BY <1>0
    <3> HIDE DEF n
    <3> QED
      BY <3>1, <2>1, <2>5 DEF Parent
  <2>7. k \in C
    BY <2>6 DEF children
  <2> QED
    BY <2>1, <2>2, <2>4, <2>7
<1>2. ASSUME NEW m \in There(pool), Len(pool[m].path) >= n + 1,
             NEW k \in C, pool[m].path[n + 1] = pool[k].id
      PROVE  m \in Below(pool, c)
  <2>1. k \in DOMAIN pool /\ Len(pool[k].path) = n + 1 /\ pool[k].path[n] = pool[c].id
    BY <1>0, ChildrenAre
  <2>2. m \in DOMAIN pool /\ n + 1 \in 1..Len(pool[m].path) /\ n \in 1..n + 1
    BY <1>0, <1>2
  <2>3. \A x \in 1..n + 1 : pool[k].path[x] = pool[m].path[x]
    BY <1>2, <2>1, <2>2 DEF IsListing
  <2>4. pool[m].path[n] = pool[c].id /\ Len(pool[m].path) > n
    BY <1>0, <1>2, <2>1, <2>2, <2>3
  <2> QED
    BY <2>4 DEF Below
<1> QED
  BY <1>1, <1>2

LEMMA PrintsBelow ==
  ASSUME NEW f, NEW N, NEW pool, Prints(f, N, pool)
  PROVE  \A i \in 0..N : \A parent \in IDs(pool) :
           f[i][parent] = IF i = 0 THEN <<>>
                          ELSE Lines(pool, children(parent, pool), Len(pool) - i + 1, f[i - 1])
<1> DEFINE all(i) == [parent \in IDs(pool) |->
             IF i = 0 THEN <<>>
             ELSE Lines(pool, children(parent, pool), Len(pool) - i + 1, f[i - 1])]
<1>1. f = [i \in 0..N |-> all(i)]
  BY DEF Prints
<1>2. \A i \in 0..N : f[i] = all(i)
  <2> HIDE DEF all
  <2> QED
    BY <1>1
<1> TAKE i \in 0..N
<1> TAKE parent \in IDs(pool)
<1>3. f[i] = all(i)
  BY <1>2
<1>4. all(i)[parent] = IF i = 0 THEN <<>>
                       ELSE Lines(pool, children(parent, pool), Len(pool) - i + 1, f[i - 1])
  OBVIOUS
<1> HIDE DEF all
<1> QED
  BY <1>3, <1>4

\* What is printed below a comment at its depth is the forest of those below it.
LEMMA PrintsForest ==
  ASSUME NEW pool \in Seq(Comment), IsListing(pool),
         NEW f, Prints(f, Len(pool), pool)
  PROVE  \A n \in 0..Len(pool) : \A c \in There(pool) :
           Len(pool[c].path) - 2 = Len(pool) - n =>
             Forest(pool, Len(pool) - n + 1, Below(pool, c), f[n][pool[c].id])
<1> DEFINE Right(n) == \A c \in There(pool) : Len(pool[c].path) - 2 = Len(pool) - n =>
                         Forest(pool, Len(pool) - n + 1, Below(pool, c), f[n][pool[c].id])
           T == {n \in Nat : n <= Len(pool) => Right(n)}
<1>0. /\ Len(pool) \in Nat /\ There(pool) \subseteq DOMAIN pool
      /\ \A c \in There(pool) : Len(pool[c].path) \in Nat /\ Len(pool[c].path) <= Len(pool) + 1
  BY ThereIsFinite, CommentTypes, DepthIsBounded
<1>1. 0 \in T
  <2>1. \A c \in There(pool) : Len(pool[c].path) - 2 # Len(pool) - 0
    BY <1>0
  <2> QED
    BY <2>1
<1>2. ASSUME NEW n \in Nat, n \in T PROVE n + 1 \in T
  <2>0. n <= Len(pool) => Right(n)
    BY <1>2
  <2> SUFFICES ASSUME n + 1 <= Len(pool) PROVE Right(n + 1)
    <3> HIDE DEF Right
    <3> QED
      OBVIOUS
  <2> SUFFICES ASSUME NEW c \in There(pool), Len(pool[c].path) - 2 = Len(pool) - (n + 1)
               PROVE  Forest(pool, Len(pool) - (n + 1) + 1, Below(pool, c), f[n + 1][pool[c].id])
    OBVIOUS
  <2> DEFINE d == Len(pool) - (n + 1) + 1
             S == children(pool[c].id, pool)
  <2>1. d \in Nat /\ Len(pool[c].path) + 1 = d + 2 /\ d + 1 = Len(pool) - n + 1 /\ n <= Len(pool)
    BY <1>0
  <2>2. f[n + 1][pool[c].id] = Lines(pool, S, d, f[n])
    <3>1. n + 1 \in 0..Len(pool) /\ n + 1 # 0 /\ (n + 1) - 1 = n /\ pool[c].id \in IDs(pool)
      BY <1>0 DEF IDs
    <3>2. \A i \in 0..Len(pool) : \A parent \in IDs(pool) :
            f[i][parent] = IF i = 0 THEN <<>>
                           ELSE Lines(pool, children(parent, pool), Len(pool) - i + 1, f[i - 1])
      BY PrintsBelow
    <3> QED
      BY <3>1, <3>2
  <2>3. S \in SUBSET There(pool) /\ \A k \in S : Len(pool[k].path) = d + 2
    <3> HIDE DEF d
    <3> QED
      BY <2>1, ChildrenAre
  <2>4. ASSUME NEW k \in S PROVE Forest(pool, d + 1, Below(pool, k), f[n][pool[k].id])
    <3>1. Len(pool[k].path) - 2 = Len(pool) - n
      BY <2>1, <2>3, <1>0
    <3> HIDE DEF d, S
    <3> QED
      BY <3>1, <2>1, <2>3, <2>4, <2>0 DEF Right
  <2>5. Below(pool, c) = {m \in There(pool) : /\ Len(pool[m].path) >= d + 2
                                             /\ \E k \in S : pool[m].path[d + 2] = pool[k].id}
    <3> HIDE DEF d
    <3> QED
      BY <2>1, BelowByChildren
  <2>6. Forest(pool, d, Below(pool, c), Lines(pool, S, d, f[n]))
    <3> HIDE DEF d, S
    <3> QED
      BY <2>1, <2>3, <2>4, <2>5, LinesAreForest
  <2> QED
    BY <2>2, <2>6
<1> HIDE DEF T
<1>3. Nat \subseteq T
  BY <1>1, <1>2, NatInSet
<1>4. ASSUME NEW n \in 0..Len(pool) PROVE Right(n)
  <2>1. n \in T /\ n <= Len(pool)
    BY <1>0, <1>3
  <2> HIDE DEF Right
  <2> QED
    BY <2>1 DEF T
<1> QED
  BY <1>4

\* What loadComments gives is the forest of all that can be shown.
LEMMA CommentsAreForest ==
  ASSUME NEW pool \in Seq(Comment), IsListing(pool)
  PROVE  Forest(pool, 0, There(pool), loadComments(pool))
<1>0. /\ Len(pool) \in Nat /\ There(pool) \subseteq DOMAIN pool
      /\ \A c \in There(pool) : Len(pool[c].path) \in Nat /\ Len(pool[c].path) > 1
  BY ThereIsFinite, CommentTypes DEF IsListing
<1>1. PICK f : Prints(f, Len(pool), pool) /\ printThread(pool) = f[Len(pool)]
  BY <1>0, PrintSteps
<1>2. ASSUME NEW k \in Roots(pool)
      PROVE  /\ k \in There(pool) /\ Len(pool[k].path) = 0 + 2
             /\ Forest(pool, 0 + 1, Below(pool, k), printThread(pool)[pool[k].id])
  <2>1. k \in DOMAIN pool /\ Len(pool[k].path) = 2
    BY DEF Roots
  <2>2. pool[k].path[2] = pool[k].id /\ pool[k].id \in IDs(pool)
    BY <2>1 DEF IsListing, IDs
  <2>3. k \in There(pool)
    BY <2>1, <2>2 DEF There
  <2>4. Len(pool[k].path) - 2 = Len(pool) - Len(pool) /\ Len(pool) \in 0..Len(pool)
        /\ Len(pool) - Len(pool) + 1 = 0 + 1
    BY <1>0, <2>1
  <2>5. Forest(pool, Len(pool) - Len(pool) + 1, Below(pool, k), f[Len(pool)][pool[k].id])
    BY <1>1, <2>3, <2>4, PrintsForest
  <2> QED
    BY <1>1, <2>1, <2>3, <2>4, <2>5
<1>3. There(pool) = {m \in There(pool) : /\ Len(pool[m].path) >= 0 + 2
                                        /\ \E k \in Roots(pool) : pool[m].path[0 + 2] = pool[k].id}
  <2> SUFFICES ASSUME NEW m \in There(pool)
               PROVE  /\ Len(pool[m].path) >= 0 + 2
                      /\ \E k \in Roots(pool) : pool[m].path[0 + 2] = pool[k].id
    OBVIOUS
  <2>1. Len(pool[m].path) >= 2 /\ 2 \in 2..Len(pool[m].path) /\ 2 \in 1..Len(pool[m].path)
    BY <1>0
  <2>2. PICK k \in DOMAIN pool : pool[m].path[2] = pool[k].id
    BY <2>1 DEF There, IDs
  <2>3. Len(pool[k].path) = 2
    <3>1. \A e \in 1..Len(pool[m].path) : pool[m].path[e] = pool[k].id => Len(pool[k].path) = e
      BY <1>0 DEF IsListing
    <3> QED
      BY <3>1, <2>1, <2>2
  <2>4. k \in Roots(pool)
    BY <2>3 DEF Roots
  <2> QED
    BY <2>1, <2>2, <2>4
<1>4. Forest(pool, 0, {m \in There(pool) : /\ Len(pool[m].path) >= 0 + 2
                                          /\ \E k \in Roots(pool) : pool[m].path[0 + 2] = pool[k].id},
             Lines(pool, Roots(pool), 0, printThread(pool)))
  <2>1. Roots(pool) \in SUBSET There(pool) /\ 0 \in Nat
    BY <1>2
  <2> QED
    BY <1>2, <2>1, LinesAreForest
<1> QED
  BY <1>3, <1>4 DEF loadComments

\* A forest is what a reader is to see.
LEMMA ForestShowsAll ==
  ASSUME NEW pool \in Seq(Comment), IsListing(pool), NEW t, Forest(pool, 0, There(pool), t)
  PROVE  ShowsAll(t, pool)
<1>0. /\ t \in Seq(Line) /\ Len(t) \in Nat /\ DOMAIN t = 1..Len(t)
      /\ There(pool) \subseteq DOMAIN pool
      /\ \A i \in 1..Len(t) : t[i].depth \in Int
  <2>1. t \in Seq(Line) /\ Len(t) \in Nat /\ DOMAIN t = 1..Len(t)
    BY DEF Forest
  <2>2. ASSUME NEW i \in 1..Len(t) PROVE t[i].depth \in Int
    <3>1. t[i] \in Line
      BY <2>1
    <3> QED
      BY <3>1 DEF Line
  <2> QED
    BY <2>1, <2>2, ThereIsFinite
<1>1. {t[j].id : j \in DOMAIN t} = {pool[k].id : k \in There(pool)}
  <2>1. /\ \A j \in DOMAIN t : \E k \in There(pool) : t[j].id = pool[k].id
        /\ \A k \in There(pool) : \E j \in DOMAIN t : t[j].id = pool[k].id
    BY <1>0 DEF Forest
  <2> QED
    BY <2>1
<1>2. Len(t) = Cardinality(There(pool))
  BY DEF Forest
<1>3. ASSUME NEW j \in DOMAIN t, NEW k \in There(pool), t[j].id = pool[k].id
      PROVE  LET above == {a \in 1..j-1 : t[a].depth < t[j].depth}
             IN  IF above = {} THEN Parent(pool[k]) = 0 /\ t[j].depth = 0
                 ELSE LET a == CHOOSE a \in above : \A b \in above : b <= a
                      IN  t[a].id = Parent(pool[k]) /\ t[a].depth = t[j].depth - 1
  <2> DEFINE above == {a \in 1..j-1 : t[a].depth < t[j].depth}
  <2>1. /\ t[j].depth = Len(pool[k].path) - 2 /\ t[j].depth >= 0
        /\ t[j].depth > 0 => Nests(t, j, Parent(pool[k]))
    BY <1>0, <1>3 DEF Forest
  <2>2. Len(pool[k].path) \in Nat /\ pool[k].path[1] = 0 /\ t[j].depth \in Int
    BY <1>0, CommentTypes DEF IsListing
  <2>3. \A x \in Int, n \in Nat : x = n - 2 /\ x >= 0 => (x = 0 => n = 2) /\ (x # 0 => x > 0)
    OBVIOUS
  <2>4. (t[j].depth = 0 => Len(pool[k].path) = 2) /\ (t[j].depth # 0 => t[j].depth > 0)
    BY <2>1, <2>2, <2>3
  <2> HIDE DEF above
  <2>5. CASE t[j].depth = 0
    <3>1. Len(pool[k].path) = 2 /\ pool[k].path[1] = 0
      BY <2>4, <2>5, <2>2
    <3>2. Parent(pool[k]) = 0
      BY <3>1 DEF Parent
    <3>3. \A a \in 1..j - 1 : ~(t[a].depth < t[j].depth)
      <4> SUFFICES ASSUME NEW a \in 1..j - 1 PROVE ~(t[a].depth < 0)
        BY <2>5
      <4>1. a \in 1..Len(t)
        BY <1>0
      <4>2. PICK m \in There(pool) : t[a].id = pool[m].id
        BY <4>1 DEF Forest
      <4>3. t[a].depth >= 0
        BY <4>1, <4>2 DEF Forest
      <4> QED
        BY <4>1, <4>3, <1>0
    <3>4. above = {}
      BY <3>3 DEF above
    <3> QED
      BY <2>5, <3>2, <3>4 DEF above
  <2>6. CASE t[j].depth # 0
    <3>1. Nests(t, j, Parent(pool[k]))
      BY <2>1, <2>6, <2>4
    <3>2. PICK a \in 1..j - 1 : /\ t[a].id = Parent(pool[k]) /\ t[a].depth = t[j].depth - 1
                                /\ \A b \in a + 1..j - 1 : t[b].depth >= t[j].depth
      BY <3>1 DEF Nests
    <3>3. a \in above
      BY <3>2, <2>2 DEF above
    <3>4. ASSUME NEW b \in above PROVE b <= a
      <4> SUFFICES ASSUME ~(b <= a) PROVE FALSE
        OBVIOUS
      <4>1. b \in a + 1..j - 1 /\ b \in 1..Len(t) /\ j \in 1..Len(t) /\ t[b].depth < t[j].depth
        BY <1>0 DEF above
      <4>2. t[b].depth >= t[j].depth
        BY <4>1, <3>2
      <4> QED
        BY <4>1, <4>2, <1>0
    <3>5. \A x \in above : x \in Int
      BY DEF above
    <3>6. (CHOOSE x \in above : \A b \in above : b <= x) = a
      <4>1. \A x \in above : (\A b \in above : b <= x) => x = a
        BY <3>3, <3>4, <3>5
      <4>2. \E x \in above : \A b \in above : b <= x
        BY <3>3, <3>4
      <4> QED
        BY <4>1, <4>2
    <3>7. above # {}
      BY <3>3
    <3> QED
      BY <3>2, <3>6, <3>7 DEF above
  <2> QED
    BY <2>5, <2>6
<1> QED
  BY <1>1, <1>2, <1>3 DEF ShowsAll

\* However the instance orders what it lists.
LEMMA LoadShowsAll ==
  ASSUME NEW pool \in Listings \cup {<<>>}
  PROVE  ShowsAll(loadComments(pool), pool)
<1>1. pool \in Seq(Comment) /\ IsListing(pool)
  <2>1. CASE pool = <<>>
    BY <2>1 DEF IsListing, IDs
  <2> QED
    BY <2>1, ListingsAssumption
<1> QED
  BY <1>1, CommentsAreForest, ForestShowsAll

(***************************************************************************)
(***************************************************************************)
(* Goroutines and windows                                                  *)
(***************************************************************************)
(***************************************************************************)

(***************************************************************************)
(* The inductive invariant                                                 *)
(***************************************************************************)
Goroutine == {Main} \cup Window

Opens(g)  == job[g].step \in {"load", "load more", "start", "clean"}

\* What a goroutine is at.  The window it opens has been made, and has no loop
\* before the goroutine starts it; what is to react is whole.
JobInv(g) ==
  /\ job[g].step = "none" => job[g] = NoJob
  /\ job[g].window # 0 <=> Opens(g)
  /\ Opens(g) => win[job[g].window].state # "none"
  /\ job[g].step \in {"load", "load more", "start"} =>
       /\ loop[job[g].window] = "none"
       /\ win[job[g].window].state = "open" => win[job[g].window].name = job[g].name
  /\ job[g].step = "start" /\ win[job[g].window].state = "open" =>
       win[job[g].window].body = "all"

\* No two open one window.
Apart == \A g, h \in Goroutine : job[g].window = job[h].window /\ Opens(g) => g = h

\* A loop that is busy is one that opens a window; its own cannot be deleted
\* meanwhile.  The library knows of every window there is.
WindowInv(i) ==
  /\ loop[i] = "busy" <=> job[i] # NoJob
  /\ loop[i] = "busy" => win[i].state = "open"
  /\ loop[i] # "none" => win[i].state # "none"
  /\ win[i].state = "open" => i \in known
  /\ win[i].dirty => win[i].state = "open"
  /\ Looped(i) /\ win[i].state = "open" => win[i].body = "all"
  /\ win[i].dirty => \E g \in Goroutine : job[g].window = i

\* Until the client is ready nobody but main is there to call it.
FirstCall ==
  ~ready => /\ \A i \in Window : loop[i] = "none"
            /\ job[Main].name = Root /\ job[Main].step \notin {"load more", "start"}

MainEnds == autoExit => job[Main] = NoJob

IInv ==
  /\ TypeOK
  /\ \A g \in Goroutine : JobInv(g)
  /\ Apart
  /\ \A i \in Window : WindowInv(i)
  /\ FirstCall /\ MainEnds
  /\ ExitLosesNothing

LEMMA Windowed == /\ \A i \in Window : i \in Int /\ i # 0 /\ i # Main
                  /\ Root \in Name /\ ~IsPost(Root) /\ BaseOf(Root) \in Base
BY DEF Window, Main, Name, Root, IsPost, BaseOf, Base

LEMMA NameTypes ==
  ASSUME NEW name \in Name
  PROVE  /\ BaseOf(name) \in Base
         /\ \A p \in PostID : <<BaseOf(name), p>> \in Name
<1>1. BaseOf(name) \in Base
  <2>1. CASE name = Root
    BY <2>1 DEF BaseOf, Base
  <2>2. ASSUME NEW c \in Community, name = <<c>> PROVE BaseOf(name) \in Base
    BY <2>2 DEF BaseOf, Root, Last, Base
  <2>3. ASSUME NEW b \in Base, NEW p \in PostID, name = <<b, p>> PROVE BaseOf(name) \in Base
    BY <2>3 DEF BaseOf, Root, Last, Base
  <2> QED
    BY <2>1, <2>2, <2>3 DEF Name
<1> QED
  BY <1>1 DEF Name

(***************************************************************************)
(* How the goroutines' jobs, the loops and the windows change              *)
(***************************************************************************)
Steps == {"none", "look up", "make", "load", "load more", "start", "clean"}
Job   == [step : Steps, name : Name, window : {0} \cup Window]
Shown == [state : {"none", "open", "deleted"}, name : Name, dirty : BOOLEAN,
          body : {"none", "some", "all"}, pool : Listings \cup {<<>>}, thread : Thread]

LEMMA Blank == NoWindow \in Shown /\ NoJob \in Job
<1>1. Root \in Name /\ <<>> \in Thread
  BY DEF Name, Thread
<1> QED
  BY <1>1 DEF NoWindow, NoJob, Shown, Job, Steps

LEMMA Typed ==
  TypeOK <=> /\ up \in {"running", "exited", "fatal"}
             /\ ready \in BOOLEAN /\ autoExit \in BOOLEAN
             /\ win \in [Window -> Shown]
             /\ known \subseteq Window
             /\ loop \in [Window -> {"none", "idle", "busy", "ended"}]
             /\ job \in [Goroutine -> Job]
BY DEF TypeOK, Shown, Job, Steps, Goroutine

LEMMA NoJobIs == NoJob.step = "none" /\ NoJob.name = Root /\ NoJob.window = 0
BY DEF NoJob

\* A goroutine goes on to its next step.
LEMMA GoneTo ==
  ASSUME NEW g \in Goroutine, NEW step \in Steps, job \in [Goroutine -> Job], GoTo(g, step)
  PROVE  /\ job' \in [Goroutine -> Job]
         /\ job'[g].step = step
         /\ job'[g].name = job[g].name
         /\ job'[g].window = job[g].window
         /\ \A h \in Goroutine : h # g => job'[h] = job[h]
BY DEF GoTo, Job

\* It has none left.
LEMMA IsDone ==
  ASSUME NEW g \in Goroutine, job \in [Goroutine -> Job],
         loop \in [Window -> {"none", "idle", "busy", "ended"}], Done(g)
  PROVE  /\ job' \in [Goroutine -> Job]
         /\ loop' \in [Window -> {"none", "idle", "busy", "ended"}]
         /\ job'[g] = NoJob
         /\ \A h \in Goroutine : h # g => job'[h] = job[h]
         /\ g \in Window => loop'[g] = "idle"
         /\ \A i \in Window : i # g => loop'[i] = loop[i]
<1>1. /\ job' \in [Goroutine -> Job]
      /\ job'[g] = NoJob
      /\ \A h \in Goroutine : h # g => job'[h] = job[h]
  BY Blank DEF Done
<1>2. CASE g = Main
  BY <1>1, <1>2, Windowed DEF Done
<1>3. CASE g # Main
  BY <1>1, <1>3 DEF Done, Goroutine
<1> QED
  BY <1>2, <1>3

\* Text written to a window is there if the window is.
LEMMA Written ==
  ASSUME NEW i \in Window, NEW w \in Shown, win \in [Window -> Shown], Write(i, w)
  PROVE  /\ win' \in [Window -> Shown]
         /\ \A k \in Window : k # i => win'[k] = win[k]
         /\ win[i].state = "open" => win'[i] = w
         /\ win[i].state # "open" => win'[i] = win[i]
<1>1. CASE win[i].state = "open"
  BY <1>1 DEF Write
<1>2. CASE win[i].state # "open"
  BY <1>2 DEF Write
<1> QED
  BY <1>1, <1>2

LEMMA InvInit == Init => IInv
<1> SUFFICES ASSUME Init PROVE IInv
  OBVIOUS
<1>1. TypeOK
  BY Blank, Typed DEF Init, Job, Steps, Goroutine
<1>2. /\ \A g \in Goroutine : /\ job[g].window = 0 /\ job[g].name = Root
                              /\ job[g].step = "make" \/ job[g] = NoJob
                              /\ g # Main => job[g] = NoJob
      /\ job[Main].step = "make" /\ Main \in Goroutine
      /\ \A i \in Window : loop[i] = "none" /\ win[i] = NoWindow
  BY Windowed DEF Init, Goroutine, NoJob
<1>3. ~\E g \in Goroutine : Opens(g)
  <2>1. \A g \in Goroutine : job[g].step \in {"none", "make"}
    BY <1>2 DEF NoJob
  <2> QED
    BY <2>1 DEF Opens
<1>4. (\A g \in Goroutine : JobInv(g)) /\ Apart
  <2>1. Apart
    BY <1>3 DEF Apart
  <2>2. ASSUME NEW g \in Goroutine PROVE JobInv(g)
    BY <1>2, <1>3 DEF JobInv, Opens, NoJob
  <2> QED
    BY <2>1, <2>2
<1>5. \A i \in Window : WindowInv(i)
  BY <1>2, Windowed DEF WindowInv, NoWindow, Looped, Goroutine
<1>6. FirstCall /\ MainEnds /\ ExitLosesNothing
  BY <1>2 DEF Init, FirstCall, MainEnds, ExitLosesNothing
<1> QED
  BY <1>1, <1>4, <1>5, <1>6 DEF IInv
(***************************************************************************)
(* What a step leaves alone                                                *)
(***************************************************************************)
LEMMA Known ==
  ASSUME IInv
  PROVE  /\ win \in [Window -> Shown] /\ job \in [Goroutine -> Job]
         /\ loop \in [Window -> {"none", "idle", "busy", "ended"}]
         /\ known \subseteq Window
         /\ Main \in Goroutine /\ Window \subseteq Goroutine /\ Main \notin Window
         /\ \A h \in Goroutine : JobInv(h) /\ (h = Main \/ h \in Window)
         /\ \A h \in Goroutine : Opens(h) => job[h].window \in Window
         /\ \A h \in Goroutine : ~Opens(h) => job[h].window = 0
         /\ \A h \in Goroutine, k \in Goroutine :
              Opens(h) /\ job[k].window = job[h].window => k = h
         /\ \A i \in Window : WindowInv(i) /\ i # 0
         /\ \A i \in Window : Looped(i) /\ win[i].state = "open" => win[i].body = "all"
         /\ FirstCall /\ MainEnds /\ ExitLosesNothing
<1>1. /\ win \in [Window -> Shown] /\ job \in [Goroutine -> Job]
      /\ loop \in [Window -> {"none", "idle", "busy", "ended"}]
      /\ known \subseteq Window
  BY Typed DEF IInv
<1>2. \A h \in Goroutine : JobInv(h) /\ job[h].window \in {0} \cup Window
  BY <1>1 DEF IInv, Job
<1>3. \A h \in Goroutine : job[h].window # 0 <=> Opens(h)
  BY <1>2 DEF JobInv
<1>4. \A h \in Goroutine, k \in Goroutine :
        Opens(h) /\ job[k].window = job[h].window => k = h
  BY DEF IInv, Apart
<1>5. \A i \in Window : WindowInv(i) /\ (Looped(i) /\ win[i].state = "open" => win[i].body = "all")
  BY DEF IInv, WindowInv
<1> QED
  BY <1>1, <1>2, <1>3, <1>4, <1>5, Windowed DEF IInv, Goroutine

\* The goroutines that do not take the step.
LEMMA Aside ==
  ASSUME NEW h \in Goroutine, JobInv(h), job'[h] = job[h],
         NEW i, i = job[h].window,
         Opens(h) => /\ loop[i] = "none" => loop'[i] = "none"
                     /\ win'[i].state # "none"
                     /\ win'[i].state = "open" => /\ win[i].state = "open"
                                                  /\ win'[i].name = win[i].name
                                                  /\ win[i].body = "all" => win'[i].body = "all"
  PROVE  JobInv(h)'
<1>1. job'[h].window = i /\ job'[h].name = job[h].name /\ job'[h].step = job[h].step
  OBVIOUS
<1>2. Opens(h)' <=> Opens(h)
  BY <1>1 DEF Opens
<1>3. /\ job'[h].step = "none" => job'[h] = NoJob
      /\ job'[h].window # 0 <=> Opens(h)'
  BY <1>1, <1>2 DEF JobInv
<1>4. CASE Opens(h)
  <2>1. /\ job[h].step \in {"load", "load more", "start"} =>
             loop[i] = "none" /\ (win[i].state = "open" => win[i].name = job[h].name)
        /\ job[h].step = "start" /\ win[i].state = "open" => win[i].body = "all"
    BY DEF JobInv
  <2>2. win'[i].state = "open" => /\ win[i].state = "open" /\ win'[i].name = win[i].name
                                  /\ win[i].body = "all" => win'[i].body = "all"
    BY <1>4
  <2>3. job'[h].step \in {"load", "load more", "start"} =>
             loop'[i] = "none" /\ (win'[i].state = "open" => win'[i].name = job'[h].name)
    BY <2>1, <2>2, <1>1, <1>4
  <2>4. job'[h].step = "start" /\ win'[i].state = "open" => win'[i].body = "all"
    BY <2>1, <2>2, <1>1
  <2> QED
    BY <1>1, <1>3, <1>4, <2>3, <2>4 DEF JobInv
<1>5. CASE ~Opens(h)
  BY <1>1, <1>2, <1>3, <1>5 DEF JobInv, Opens
<1> QED
  BY <1>4, <1>5

\* The windows that it does not touch.
LEMMA Untouched ==
  ASSUME NEW i \in Window, WindowInv(i),
         loop'[i] = loop[i], win'[i] = win[i],
         job'[i] = NoJob <=> job[i] = NoJob,
         i \in known => i \in known',
         win[i].dirty => \E h \in Goroutine : job'[h].window = i
  PROVE  WindowInv(i)'
BY DEF WindowInv, Looped
LEMMA StillApart ==
  ASSUME IInv, NEW g \in Goroutine,
         \A h \in Goroutine : h # g => job'[h] = job[h],
         ~Opens(g)' => job'[g].window = 0,
         Opens(g)' => \A h \in Goroutine : h # g => job[h].window # job'[g].window,
         Opens(g)' => job'[g].window # 0
  PROVE  Apart'
<1> SUFFICES ASSUME NEW h \in Goroutine, NEW k \in Goroutine,
                    job'[h].window = job'[k].window, Opens(h)'
             PROVE  h = k
  BY DEF Apart
<1>1. CASE h = g
  BY <1>1
<1>2. CASE h # g
  <2>1. Opens(h) /\ job'[h] = job[h] /\ job[h].window # 0
    BY <1>2, Known DEF Opens
  <2> QED
    BY <2>1, <1>2, Known
<1> QED
  BY <1>1, <1>2

\* Of a goroutine that has a step to take.
LEMMA Working ==
  ASSUME IInv, NEW g \in Goroutine, job[g].step # "none"
  PROVE  /\ job[g] # NoJob
         /\ g \in Window => loop[g] = "busy" /\ win[g].state = "open" /\ win[g].body = "all"
         /\ g = Main => ~autoExit
         /\ ~ready => g = Main /\ job[g].name = Root
<1>1. job[g] # NoJob
  BY NoJobIs
<1>2. g \in Window => loop[g] = "busy" /\ win[g].state = "open" /\ win[g].body = "all"
  BY <1>1, Known DEF WindowInv, Looped
<1>3. ~ready => g = Main /\ job[g].name = Root
  BY <1>2, Known DEF FirstCall
<1> QED
  BY <1>1, <1>2, <1>3, Known DEF MainEnds

(***************************************************************************)
(* The steps of a goroutine that opens a window                            *)
(***************************************************************************)
\* It has opened no window, or is done with it.
LEMMA DoneKeeps ==
  ASSUME IInv, NEW g \in Goroutine, job[g].step # "none", Done(g),
         up = "running", UNCHANGED <<up, ready, autoExit, known>>,
         win' \in [Window -> Shown],
         \A i \in Window :
           IF i = job[g].window /\ win[i].state = "open"
           THEN win'[i] = [win[i] EXCEPT !.dirty = FALSE]
           ELSE win'[i] = win[i]
  PROVE  IInv'
<1>1. /\ job' \in [Goroutine -> Job]
      /\ loop' \in [Window -> {"none", "idle", "busy", "ended"}]
      /\ job'[g] = NoJob
      /\ \A h \in Goroutine : h # g => job'[h] = job[h]
      /\ g \in Window => loop'[g] = "idle"
      /\ \A i \in Window : i # g => loop'[i] = loop[i]
  BY Known, IsDone
<1>2. \A i \in Window :
        /\ win'[i].state = win[i].state /\ win'[i].name = win[i].name
        /\ win'[i].body = win[i].body
        /\ win'[i].dirty => win[i].dirty
  BY Known DEF Shown
<1>3. TypeOK'
  BY <1>1 DEF IInv, TypeOK, Job, Shown, Steps, Goroutine
<1>4. ASSUME NEW h \in Goroutine PROVE JobInv(h)'
  <2>1. CASE h = g
    BY <2>1, <1>1, NoJobIs DEF JobInv, Opens
  <2>2. CASE h # g
    <3> DEFINE i == job[h].window
    <3>1. JobInv(h) /\ job'[h] = job[h]
      BY <2>2, <1>1, Known
    <3>2. ASSUME Opens(h)
          PROVE  /\ loop[i] = "none" => loop'[i] = "none"
                 /\ win'[i].state # "none"
                 /\ win'[i].state = "open" => /\ win[i].state = "open"
                                              /\ win'[i].name = win[i].name
                                              /\ win[i].body = "all" => win'[i].body = "all"
      <4>1. i \in Window /\ win[i].state # "none"
        BY <3>1, <3>2, Known DEF JobInv
      <4> QED
        BY <4>1, <1>1, <1>2, Working
    <3> QED
      BY <3>1, <3>2, Aside
  <2> QED
    BY <2>1, <2>2
<1>5. Apart'
  BY <1>1, StillApart, NoJobIs DEF Opens
<1>6. ASSUME NEW i \in Window PROVE WindowInv(i)'
  <2>1. win'[i].dirty => \E h \in Goroutine : job'[h].window = i
    <3>1. CASE i = job[g].window
      <4>1. CASE win[i].state = "open"
        BY <3>1, <4>1, Known DEF Shown
      <4>2. CASE win[i].state # "open"
        BY <4>2, <1>2, Known DEF WindowInv
      <4> QED
        BY <4>1, <4>2
    <3>2. CASE i # job[g].window
      BY <3>2, <1>1, <1>2, Known DEF WindowInv
    <3> QED
      BY <3>1, <3>2
  <2>2. CASE i = g
    BY <2>1, <2>2, <1>1, <1>2, Known, Working DEF WindowInv, Looped
  <2>3. CASE i # g
    BY <2>1, <2>3, <1>1, <1>2, Known DEF WindowInv, Looped
  <2> QED
    BY <2>2, <2>3
<1>7. FirstCall' /\ MainEnds' /\ ExitLosesNothing'
  <2>1. FirstCall'
    <3>1. ~ready => g = Main
      BY Working
    <3>2. ~ready => \A i \in Window : loop'[i] = "none"
      <4> SUFFICES ASSUME ~ready, NEW i \in Window PROVE loop'[i] = "none"
        OBVIOUS
      <4>1. i # g /\ loop[i] = "none"
        BY <3>1, Known DEF FirstCall
      <4> QED
        BY <4>1, <1>1
    <3>3. g = Main => job'[Main].name = Root /\ job'[Main].step = "none"
      BY <1>1, NoJobIs
    <3> QED
      BY <3>1, <3>2, <3>3 DEF FirstCall
  <2> QED
    BY <2>1, <1>1, Known, Working DEF MainEnds, ExitLosesNothing
<1> QED
  BY <1>3, <1>4, <1>5, <1>6, <1>7 DEF IInv
\* It goes on, writing perhaps to the window it opens.
LEMMA GoOnKeeps ==
  ASSUME IInv, NEW g \in Goroutine, job[g].step # "none",
         NEW step \in Steps \ {"none"}, GoTo(g, step),
         up = "running", UNCHANGED <<up, autoExit, known, loop>>,
         ready' \in BOOLEAN, ready => ready', job[g].name = Root /\ step \in {"load more", "start"} => ready',
         Opens(g) <=> step \in {"load", "load more", "start", "clean"},
         step \in {"load", "load more", "start"} =>
           job[g].step \in {"load", "load more"},
         win' \in [Window -> Shown],
         \A i \in Window : i # job[g].window => win'[i] = win[i],
         \A i \in Window :
           /\ win'[i].state = win[i].state /\ win'[i].name = win[i].name
           /\ win'[i].dirty => win[i].dirty
           /\ Looped(i) /\ win[i].state = "open" => win'[i].body = "all",
         step = "start" /\ win[job[g].window].state = "open" =>
           win'[job[g].window].body = "all"
  PROVE  IInv'
<1>1. /\ job' \in [Goroutine -> Job]
      /\ job'[g].step = step
      /\ job'[g].name = job[g].name
      /\ job'[g].window = job[g].window
      /\ \A h \in Goroutine : h # g => job'[h] = job[h]
  BY Known, GoneTo
<1>2. job'[g] # NoJob /\ (Opens(g)' <=> Opens(g))
  BY <1>1, NoJobIs DEF Opens
<1>3. TypeOK'
  BY <1>1 DEF IInv, TypeOK, Job, Shown, Steps, Goroutine
<1>4. ASSUME NEW h \in Goroutine PROVE JobInv(h)'
  <2>1. CASE h = g
    <3> DEFINE i == job[g].window
    <3>1. /\ job[g].step = "none" => job[g] = NoJob
          /\ job[g].window # 0 <=> Opens(g)
          /\ Opens(g) => i \in Window /\ win[i].state # "none"
          /\ job[g].step \in {"load", "load more", "start"} =>
               loop[i] = "none" /\ (win[i].state = "open" => win[i].name = job[g].name)
      BY Known DEF JobInv
    <3>2. Opens(g)' => win'[i].state # "none"
      BY <3>1, <1>2
    <3>3. step \in {"load", "load more", "start"} =>
            loop'[i] = "none" /\ (win'[i].state = "open" => win'[i].name = job'[g].name)
      BY <3>1, <1>1 DEF Opens
    <3>4. step = "start" /\ win'[i].state = "open" => win'[i].body = "all"
      BY <3>1
    <3> QED
      BY <3>1, <3>2, <3>3, <3>4, <2>1, <1>1, <1>2 DEF JobInv
  <2>2. CASE h # g
    <3> DEFINE i == job[h].window
    <3>1. JobInv(h) /\ job'[h] = job[h]
      BY <2>2, <1>1, Known
    <3>2. ASSUME Opens(h)
          PROVE  /\ loop[i] = "none" => loop'[i] = "none"
                 /\ win'[i].state # "none"
                 /\ win'[i].state = "open" => /\ win[i].state = "open"
                                              /\ win'[i].name = win[i].name
                                              /\ win[i].body = "all" => win'[i].body = "all"
      <4>1. i \in Window /\ win[i].state # "none" /\ i # job[g].window
        BY <2>2, <3>1, <3>2, Known DEF JobInv
      <4>2. win'[i] = win[i]
        BY <4>1
      <4> QED
        BY <4>1, <4>2
    <3> QED
      BY <3>1, <3>2, Aside
  <2> QED
    BY <2>1, <2>2
<1>5. Apart'
  <2>1. ~Opens(g)' => job'[g].window = 0
    BY <1>1, <1>2, Known
  <2>2. Opens(g)' => /\ job'[g].window # 0
                     /\ \A h \in Goroutine : h # g => job[h].window # job'[g].window
    BY <1>1, <1>2, Known
  <2> QED
    BY <2>1, <2>2, <1>1, StillApart
<1>6. ASSUME NEW i \in Window PROVE WindowInv(i)'
  <2>1. win'[i].dirty => \E h \in Goroutine : job'[h].window = i
    <3>1. win[i].dirty => \E h \in Goroutine : job[h].window = i
      BY Known DEF WindowInv
    <3>2. \A h \in Goroutine : job'[h].window = job[h].window
      BY <1>1
    <3> QED
      BY <3>1, <3>2
  <2>2. job'[i] = NoJob <=> job[i] = NoJob
    BY <1>1, <1>2, NoJobIs, Known
  <2>3. /\ loop[i] = "busy" <=> job[i] # NoJob
        /\ loop[i] = "busy" => win[i].state = "open"
        /\ loop[i] # "none" => win[i].state # "none"
        /\ win[i].state = "open" => i \in known
        /\ win[i].dirty => win[i].state = "open"
        /\ Looped(i) /\ win[i].state = "open" => win[i].body = "all"
    BY Known DEF WindowInv
  <2> QED
    BY <2>1, <2>2, <2>3 DEF WindowInv, Looped
<1>7. FirstCall' /\ MainEnds' /\ ExitLosesNothing'
  <2>1. FirstCall'
    BY <1>1, Known, Working, NoJobIs DEF FirstCall
  <2> QED
    BY <2>1, <1>1, Known, Working DEF MainEnds, ExitLosesNothing
<1> QED
  BY <1>3, <1>4, <1>5, <1>6, <1>7 DEF IInv

LEMMA LookUpKeeps == ASSUME IInv, NEW g \in Goroutine, LookUp(g) PROVE IInv'
<1>1. /\ up = "running" /\ job[g].step = "look up"
      /\ UNCHANGED <<up, ready, autoExit, win, known>>
  BY DEF LookUp, At
<1>2. ~Opens(g) /\ job[g].window = 0 /\ win \in [Window -> Shown] /\ ready \in BOOLEAN
  BY <1>1, Known DEF Opens, IInv, TypeOK
<1>3. CASE Done(g)
  BY <1>1, <1>2, <1>3, DoneKeeps, Known
<1>4. CASE GoTo(g, "make") /\ UNCHANGED loop
  <2>1. "make" \in Steps \ {"none"}
    BY DEF Steps
  <2> QED
    BY <2>1, <1>1, <1>2, <1>4, GoOnKeeps, Known
<1> QED
  BY <1>3, <1>4 DEF LookUp
LEMMA LoadKeeps == ASSUME IInv, NEW g \in Goroutine, Load(g) PROVE IInv'
<1> DEFINE i == job[g].window
           w == [win[i] EXCEPT !.body = IF IsPost(win[i].name) THEN "some" ELSE "all"]
<1>1. /\ up = "running" /\ job[g].step = "load" /\ Opens(g)
      /\ ready' = (ready \/ job[g].name = Root) /\ Write(i, w)
      /\ UNCHANGED <<up, autoExit, known, loop>>
  BY DEF Load, At, Opens
<1>2. /\ i \in Window /\ win[i] \in Shown /\ loop[i] = "none"
      /\ win[i].state = "open" => win[i].name = job[g].name
      /\ ready \in BOOLEAN
  BY <1>1, Known DEF JobInv, IInv, TypeOK
<1>3. /\ w \in Shown /\ w.state = win[i].state /\ w.name = win[i].name /\ w.dirty = win[i].dirty
      /\ ~IsPost(win[i].name) => w.body = "all"
  BY <1>2 DEF Shown
<1> HIDE DEF w
<1>4. /\ win' \in [Window -> Shown]
      /\ \A k \in Window : k # i => win'[k] = win[k]
      /\ win[i].state = "open" => win'[i] = w
      /\ win[i].state # "open" => win'[i] = win[i]
  BY <1>1, <1>2, <1>3, Known, Written
<1>5. \A k \in Window :
        /\ win'[k].state = win[k].state /\ win'[k].name = win[k].name
        /\ win'[k].dirty => win[k].dirty
        /\ Looped(k) /\ win[k].state = "open" => win'[k].body = "all"
  <2> SUFFICES ASSUME NEW k \in Window
               PROVE  /\ win'[k].state = win[k].state /\ win'[k].name = win[k].name
                      /\ win'[k].dirty => win[k].dirty
                      /\ Looped(k) /\ win[k].state = "open" => win'[k].body = "all"
    OBVIOUS
  <2>1. CASE k = i
    BY <2>1, <1>2, <1>3, <1>4 DEF Looped
  <2>2. CASE k # i
    BY <2>2, <1>4, Known DEF WindowInv
  <2> QED
    BY <2>1, <2>2
<1>6. ready' \in BOOLEAN /\ (ready => ready') /\ (job[g].name = Root => ready')
  BY <1>1, <1>2
<1>7. CASE IsPost(job[g].name)
  <2>1. "load more" \in Steps \ {"none"} /\ GoTo(g, "load more")
    BY <1>7 DEF Steps, Load
  <2> QED
    BY <2>1, <1>1, <1>4, <1>5, <1>6, GoOnKeeps
<1>8. CASE ~IsPost(job[g].name)
  <2>1. "start" \in Steps \ {"none"} /\ GoTo(g, "start")
    BY <1>8 DEF Steps, Load
  <2>2. win[i].state = "open" => win'[i].body = "all"
    BY <1>2, <1>3, <1>4, <1>8
  <2> QED
    BY <2>1, <2>2, <1>1, <1>4, <1>5, <1>6, GoOnKeeps
<1> QED
  BY <1>7, <1>8

LEMMA LoadMoreKeeps == ASSUME IInv, NEW g \in Goroutine, LoadMore(g) PROVE IInv'
<1> DEFINE i == job[g].window
<1>1. /\ up = "running" /\ job[g].step = "load more" /\ Opens(g)
      /\ UNCHANGED <<up, ready, autoExit, known, loop>>
      /\ "start" \in Steps \ {"none"} /\ GoTo(g, "start")
  BY DEF LoadMore, At, Opens, Steps
<1>2. i \in Window /\ win[i] \in Shown /\ ready \in BOOLEAN
  BY <1>1, Known DEF IInv, TypeOK
<1>3. PICK pool \in Listings :
        Write(i, [win[i] EXCEPT !.body = "all", !.pool = pool, !.thread = loadComments(pool)])
  BY DEF LoadMore
<1>4. PICK w : w = [win[i] EXCEPT !.body = "all", !.pool = pool, !.thread = loadComments(pool)]
  OBVIOUS
<1>5. /\ w \in Shown /\ w.state = win[i].state /\ w.name = win[i].name /\ w.dirty = win[i].dirty
      /\ w.body = "all"
  BY <1>2, <1>4 DEF Shown, Thread
<1>6. /\ win' \in [Window -> Shown]
      /\ \A k \in Window : k # i => win'[k] = win[k]
      /\ win[i].state = "open" => win'[i] = w
      /\ win[i].state # "open" => win'[i] = win[i]
  BY <1>2, <1>3, <1>4, <1>5, Known, Written
<1>7. \A k \in Window :
        /\ win'[k].state = win[k].state /\ win'[k].name = win[k].name
        /\ win'[k].dirty => win[k].dirty
        /\ Looped(k) /\ win[k].state = "open" => win'[k].body = "all"
  <2> SUFFICES ASSUME NEW k \in Window
               PROVE  /\ win'[k].state = win[k].state /\ win'[k].name = win[k].name
                      /\ win'[k].dirty => win[k].dirty
                      /\ Looped(k) /\ win[k].state = "open" => win'[k].body = "all"
    OBVIOUS
  <2>1. CASE k = i
    BY <2>1, <1>5, <1>6
  <2>2. CASE k # i
    BY <2>2, <1>6, Known DEF WindowInv
  <2> QED
    BY <2>1, <2>2
<1>8. ready
  BY <1>1, Known, Working DEF FirstCall
<1> QED
  BY <1>1, <1>2, <1>5, <1>6, <1>7, <1>8, GoOnKeeps
LEMMA LoadFailsKeeps == ASSUME IInv, NEW g \in Goroutine, LoadFails(g) PROVE IInv'
<1>1. /\ up = "running" /\ job[g].step \in {"load", "load more"} /\ Opens(g)
      /\ ready' \in {ready, ready \/ job[g].name = Root}
      /\ UNCHANGED <<up, autoExit, win, known, loop>>
      /\ "clean" \in Steps \ {"none"} /\ GoTo(g, "clean")
  BY DEF LoadFails, At, Opens, Steps, Unloaded
<1>2. win \in [Window -> Shown] /\ ready \in BOOLEAN
  BY Known DEF IInv, TypeOK
<1>3. ready' \in BOOLEAN /\ (ready => ready')
  BY <1>1, <1>2
<1> QED
  BY <1>1, <1>2, <1>3, GoOnKeeps, Known

LEMMA CleanKeeps == ASSUME IInv, NEW g \in Goroutine, Clean(g) PROVE IInv'
<1> DEFINE i == job[g].window
<1>1. /\ up = "running" /\ job[g].step = "clean" /\ Opens(g) /\ Done(g)
      /\ UNCHANGED <<up, ready, autoExit, known>>
      /\ Write(i, [win[i] EXCEPT !.dirty = FALSE])
  BY DEF Clean, At, Opens
<1>2. i \in Window /\ win[i] \in Shown /\ [win[i] EXCEPT !.dirty = FALSE] \in Shown
  <2>1. i \in Window /\ win[i] \in Shown
    BY <1>1, Known
  <2> QED
    BY <2>1 DEF Shown
<1>3. /\ win' \in [Window -> Shown]
      /\ \A k \in Window : k # i => win'[k] = win[k]
      /\ win[i].state = "open" => win'[i] = [win[i] EXCEPT !.dirty = FALSE]
      /\ win[i].state # "open" => win'[i] = win[i]
  BY <1>1, <1>2, Known, Written
<1> QED
  BY <1>1, <1>3, DoneKeeps

LEMMA StartKeeps == ASSUME IInv, NEW g \in Goroutine, Start(g) PROVE IInv'
<1> DEFINE i == job[g].window
<1>1. /\ up = "running" /\ job[g].step = "start" /\ Opens(g)
      /\ loop' = [loop EXCEPT ![i] = "idle"] /\ GoTo(g, "clean")
      /\ UNCHANGED <<up, ready, autoExit, win, known>>
  BY DEF Start, At, Opens
<1>2. /\ i \in Window /\ loop[i] = "none" /\ win[i].state # "none"
      /\ win[i].state = "open" => win[i].body = "all"
      /\ ready /\ job[i] = NoJob /\ i # g /\ i # 0
  <2>1. /\ i \in Window /\ loop[i] = "none" /\ win[i].state # "none"
        /\ win[i].state = "open" => win[i].body = "all"
    BY <1>1, Known DEF JobInv
  <2> QED
    BY <2>1, <1>1, Known, Working DEF WindowInv, FirstCall
<1>3. /\ job' \in [Goroutine -> Job]
      /\ job'[g].step = "clean" /\ job'[g].name = job[g].name /\ job'[g].window = i
      /\ \A h \in Goroutine : h # g => job'[h] = job[h]
  BY <1>1, GoneTo, Known DEF Steps
<1>4. /\ loop' \in [Window -> {"none", "idle", "busy", "ended"}]
      /\ loop'[i] = "idle"
      /\ \A k \in Window : k # i => loop'[k] = loop[k]
  BY <1>1, <1>2, Known
<1>5. TypeOK'
  BY <1>1, <1>3, <1>4 DEF IInv, TypeOK, Job, Steps, Goroutine
<1>6. ASSUME NEW h \in Goroutine PROVE JobInv(h)'
  <2>1. CASE h = g
    <3>1. win' = win
      BY <1>1
    <3> QED
      BY <2>1, <3>1, <1>2, <1>3 DEF JobInv, Opens
  <2>2. CASE h # g
    <3>1. JobInv(h) /\ job'[h] = job[h] /\ win' = win
      BY <2>2, <1>1, <1>3, Known
    <3>2. Opens(h) => /\ job[h].window \in Window /\ job[h].window # i
                      /\ win[job[h].window].state # "none"
      BY <2>2, Known DEF JobInv
    <3>3. Opens(h) => loop'[job[h].window] = loop[job[h].window]
      BY <3>2, <1>4
    <3> QED
      BY <3>1, <3>2, <3>3, Aside
  <2> QED
    BY <2>1, <2>2
<1>7. Apart'
  <2>1. \A h \in Goroutine : h # g => job[h].window # i
    BY <1>1, Known
  <2>2. Opens(g)'
    BY <1>3 DEF Opens
  <2> QED
    BY <2>1, <2>2, <1>2, <1>3, StillApart
<1>8. ASSUME NEW k \in Window PROVE WindowInv(k)'
  <2>1. win[k].dirty => \E h \in Goroutine : job'[h].window = k
    <3>1. \A h \in Goroutine : job'[h].window = job[h].window
      BY <1>3
    <3> QED
      BY <3>1, Known DEF WindowInv
  <2>2. job'[k] = NoJob <=> job[k] = NoJob
    BY <1>1, <1>3, NoJobIs, Known
  <2>3. CASE k = i
    BY <2>1, <2>2, <2>3, <1>1, <1>2, <1>4, Known DEF WindowInv, Looped
  <2>4. CASE k # i
    BY <2>1, <2>2, <2>4, <1>1, <1>4, Known, Untouched
  <2> QED
    BY <2>3, <2>4
<1>9. FirstCall' /\ MainEnds' /\ ExitLosesNothing'
  BY <1>1, <1>2, <1>3, Known, Working DEF FirstCall, MainEnds, ExitLosesNothing
<1> QED
  BY <1>5, <1>6, <1>7, <1>8, <1>9 DEF IInv
LEMMA MakeKeeps == ASSUME IInv, NEW g \in Goroutine, Make(g) PROVE IInv'
<1>1. /\ up = "running" /\ job[g].step = "make" /\ ~Opens(g)
      /\ UNCHANGED <<up, ready, autoExit, loop>>
  BY DEF Make, At, Opens
<1>2. PICK i \in Window :
        /\ \A k \in Window : win[k].state = "none" <=> k >= i
        /\ win' = [win EXCEPT ![i].state = "open", ![i].name = job[g].name, ![i].dirty = TRUE]
        /\ known' = known \cup {i}
        /\ job' = [job EXCEPT ![g].step = "load", ![g].window = i]
  BY DEF Make
<1>3. win[i].state = "none"
  BY <1>2, Windowed
<1>4. /\ job' \in [Goroutine -> Job]
      /\ job'[g].step = "load" /\ job'[g].name = job[g].name /\ job'[g].window = i
      /\ \A h \in Goroutine : h # g => job'[h] = job[h]
  BY <1>2, Known DEF Job, Steps
<1>5. /\ win' \in [Window -> Shown]
      /\ win'[i].state = "open" /\ win'[i].name = job[g].name
      /\ \A k \in Window : k # i => win'[k] = win[k]
  <2>1. job[g].name \in Name
    BY Known DEF Job
  <2>2. PICK w : w = [win[i] EXCEPT !.state = "open", !.name = job[g].name, !.dirty = TRUE]
    OBVIOUS
  <2>3. win[i] \in Shown
    BY Known
  <2>4. w \in Shown /\ w.state = "open" /\ w.name = job[g].name
    BY <2>1, <2>2, <2>3 DEF Shown
  <2>5. win' = [win EXCEPT ![i] = w]
    BY <1>2, <2>2, Known
  <2> QED
    BY <2>4, <2>5, Known
<1>6. /\ loop[i] = "none" /\ job[i] = NoJob /\ i # g /\ i # 0
      /\ \A h \in Goroutine : job[h].window # i
  <2>1. loop[i] = "none" /\ job[i] = NoJob /\ i # 0
    BY <1>3, Known DEF WindowInv
  <2>2. ASSUME NEW h \in Goroutine PROVE job[h].window # i
    <3>1. ~Opens(h) => job[h].window = 0
      BY Known
    <3>2. Opens(h) => win[job[h].window].state # "none"
      BY Known DEF JobInv
    <3> QED
      BY <3>1, <3>2, <1>3, <2>1
  <2> QED
    BY <2>1, <2>2, <1>1, NoJobIs
<1>7. TypeOK'
  <2>1. known' \subseteq Window
    BY <1>2, Known
  <2> QED
    BY <2>1, <1>1, <1>4, <1>5 DEF IInv, TypeOK, Job, Shown, Steps, Goroutine
<1>8. ASSUME NEW h \in Goroutine PROVE JobInv(h)'
  <2>1. CASE h = g
    <3>1. loop'[i] = "none"
      BY <1>1, <1>6
    <3> QED
      BY <2>1, <3>1, <1>4, <1>5, <1>6 DEF JobInv, Opens
  <2>2. CASE h # g
    <3>1. JobInv(h) /\ job'[h] = job[h] /\ loop' = loop
      BY <2>2, <1>1, <1>4, Known
    <3>2. Opens(h) => /\ job[h].window \in Window /\ job[h].window # i
                      /\ win[job[h].window].state # "none"
      BY <1>6, Known DEF JobInv
    <3>3. Opens(h) => win'[job[h].window] = win[job[h].window]
      BY <3>2, <1>5
    <3> QED
      BY <3>1, <3>2, <3>3, Aside
  <2> QED
    BY <2>1, <2>2
<1>9. Apart'
  <2>1. Opens(g)'
    BY <1>4 DEF Opens
  <2> QED
    BY <2>1, <1>4, <1>6, StillApart
<1>10. ASSUME NEW k \in Window PROVE WindowInv(k)'
  <2>1. job'[k] = NoJob <=> job[k] = NoJob
    BY <1>1, <1>4, NoJobIs, Known
  <2>2. CASE k = i
    <3>1. loop'[k] = "none" /\ job'[k] = NoJob /\ k \in known'
      BY <2>1, <2>2, <1>1, <1>2, <1>6
    <3>2. win'[k].state = "open" /\ \E h \in Goroutine : job'[h].window = k
      BY <2>2, <1>4, <1>5
    <3> QED
      BY <3>1, <3>2 DEF WindowInv, Looped
  <2>3. CASE k # i
    <3>1. win[k].dirty => \E h \in Goroutine : job'[h].window = k
      <4>1. \A h \in Goroutine : job[h].window = k => h # g
        BY <1>1, Known
      <4>2. win[k].dirty => \E h \in Goroutine : job[h].window = k
        BY Known DEF WindowInv
      <4> QED
        BY <4>1, <4>2, <1>4
    <3> QED
      BY <2>1, <2>3, <3>1, <1>1, <1>2, <1>5, Known, Untouched
  <2> QED
    BY <2>2, <2>3
<1>11. FirstCall' /\ MainEnds' /\ ExitLosesNothing'
  <2>1. CASE ready
    BY <2>1, <1>1, <1>4, Known, Working DEF FirstCall, MainEnds, ExitLosesNothing
  <2>2. CASE ~ready
    <3>1. g = Main /\ job[g].name = Root /\ \A k \in Window : loop[k] = "none"
      BY <2>2, <1>1, Known, Working DEF FirstCall
    <3>2. ~autoExit
      BY <3>1, <1>1, Working
    <3> QED
      BY <3>1, <3>2, <1>1, <1>4 DEF FirstCall, MainEnds, ExitLosesNothing
  <2> QED
    BY <2>1, <2>2
<1> QED
  BY <1>7, <1>8, <1>9, <1>10, <1>11 DEF IInv

\* Main asks for the end, or something fails for good.
LEMMA EndsKeep ==
  ASSUME IInv, AutoExit \/ \E g \in Goroutine : MakeFails(g)
  PROVE  IInv'
<1>1. UNCHANGED <<ready, win, known, loop, job>>
  BY DEF AutoExit, MakeFails
<1>2. TypeOK' /\ MainEnds' /\ ExitLosesNothing'
  <2>1. CASE AutoExit
    <3>1. job[Main] = NoJob
      BY <2>1, Known DEF AutoExit, At, JobInv
    <3> QED
      BY <2>1, <3>1 DEF AutoExit, At, IInv, TypeOK, MainEnds, ExitLosesNothing
  <2>2. CASE \E g \in Goroutine : MakeFails(g)
    <3>1. up' = "fatal" /\ autoExit' = autoExit
      BY <2>2 DEF MakeFails
    <3> QED
      BY <3>1, <1>1 DEF IInv, TypeOK, MainEnds, ExitLosesNothing
  <2> QED
    BY <2>1, <2>2
<1>3. (\A h \in Goroutine : JobInv(h)') /\ Apart' /\ FirstCall'
  BY <1>1 DEF IInv, JobInv, Opens, Apart, FirstCall
<1>4. \A i \in Window : WindowInv(i)'
  BY <1>1 DEF IInv, WindowInv, Looped
<1> QED
  BY <1>2, <1>3, <1>4 DEF IInv
(***************************************************************************)
(* The steps of the user, acme and the event loops                         *)
(***************************************************************************)
LEMMA LookKeeps == ASSUME IInv, NEW g \in Window, Look(g) PROVE IInv'
<1>1. /\ up = "running" /\ loop[g] = "idle" /\ win[g].state = "open" /\ job[g] = NoJob
      /\ loop' = [loop EXCEPT ![g] = "busy"]
      /\ UNCHANGED <<up, ready, autoExit, win, known>>
  BY DEF Look, Listens, Looking
<1>2. PICK name \in {<<c>> : c \in Community} \cup {<<BaseOf(win[g].name), p>> : p \in PostID} :
        job' = [job EXCEPT ![g].step = "look up", ![g].name = name]
  BY DEF Look
<1>3. name \in Name
  <2>1. win[g].name \in Name
    BY Known DEF Shown
  <2>2. BaseOf(win[g].name) \in Base
    BY <2>1, NameTypes
  <2>3. CASE name \in {<<c>> : c \in Community}
    BY <2>3 DEF Name
  <2>4. CASE name \in {<<BaseOf(win[g].name), p>> : p \in PostID}
    BY <2>2, <2>4 DEF Name
  <2> QED
    BY <2>3, <2>4, <1>2
<1>4. g \in Goroutine /\ g # Main /\ ready
  BY <1>1, Known DEF FirstCall
<1>5. /\ job' \in [Goroutine -> Job]
      /\ job'[g].step = "look up" /\ job'[g].window = job[g].window
      /\ \A h \in Goroutine : h # g => job'[h] = job[h]
  <2>1. job \in [Goroutine -> Job] /\ job[g] \in Job
    BY <1>4, Known
  <2>2. PICK j : j = [job[g] EXCEPT !.step = "look up", !.name = name]
    OBVIOUS
  <2>3. j \in Job /\ j.step = "look up" /\ j.window = job[g].window
    BY <2>1, <2>2, <1>3 DEF Job, Steps
  <2>4. job' = [job EXCEPT ![g] = j]
    BY <2>1, <2>2, <1>2, <1>4
  <2> QED
    BY <2>1, <2>3, <2>4, <1>4
<1>6. job[g].window = 0 /\ ~Opens(g) /\ ~Opens(g)' /\ job'[g] # NoJob
  BY <1>1, <1>5, NoJobIs DEF Opens
<1>7. /\ loop' \in [Window -> {"none", "idle", "busy", "ended"}]
      /\ loop'[g] = "busy"
      /\ \A i \in Window : i # g => loop'[i] = loop[i]
  BY <1>1, Known
<1>8. TypeOK'
  BY <1>1, <1>5, <1>7 DEF IInv, TypeOK, Job, Steps, Goroutine
<1>9. ASSUME NEW h \in Goroutine PROVE JobInv(h)'
  <2>1. CASE h = g
    BY <2>1, <1>5, <1>6 DEF JobInv, Opens
  <2>2. CASE h # g
    <3>1. JobInv(h) /\ job'[h] = job[h] /\ win' = win
      BY <2>2, <1>1, <1>5, Known
    <3>2. Opens(h) => job[h].window \in Window /\ win[job[h].window].state # "none"
      BY Known DEF JobInv
    <3>3. Opens(h) => (loop[job[h].window] = "none" => loop'[job[h].window] = "none")
      BY <3>2, <1>1, <1>7
    <3> QED
      BY <3>1, <3>2, <3>3, Aside
  <2> QED
    BY <2>1, <2>2
<1>10. Apart'
  BY <1>4, <1>5, <1>6, StillApart
<1>11. ASSUME NEW i \in Window PROVE WindowInv(i)'
  <2>1. win[i].dirty => \E h \in Goroutine : job'[h].window = i
    <3>1. \A h \in Goroutine : job'[h].window = job[h].window
      BY <1>5
    <3> QED
      BY <3>1, Known DEF WindowInv
  <2>2. CASE i = g
    BY <2>1, <2>2, <1>1, <1>6, <1>7, Known DEF WindowInv, Looped
  <2>3. CASE i # g
    <3>1. job'[i] = job[i] /\ loop'[i] = loop[i] /\ win'[i] = win[i] /\ known' = known
      BY <2>3, <1>1, <1>5, <1>7, Known
    <3> QED
      BY <2>1, <3>1, Known, Untouched
  <2> QED
    BY <2>2, <2>3
<1>12. FirstCall' /\ MainEnds' /\ ExitLosesNothing'
  BY <1>1, <1>4, <1>5, Known DEF FirstCall, MainEnds, ExitLosesNothing
<1> QED
  BY <1>8, <1>9, <1>10, <1>11, <1>12 DEF IInv

LEMMA LookForGoneKeeps == ASSUME IInv, NEW g \in Window, LookForGone(g) PROVE IInv'
<1>1. /\ up = "running" /\ UNCHANGED <<up, ready, autoExit, win, loop, job>>
  BY DEF LookForGone, Listens
<1>2. PICK k \in known : win[k].state = "deleted" /\ known' = known \ {k}
  BY DEF LookForGone
<1>3. TypeOK'
  BY <1>1, <1>2 DEF IInv, TypeOK
<1>4. (\A h \in Goroutine : JobInv(h)') /\ Apart' /\ FirstCall' /\ MainEnds' /\ ExitLosesNothing'
  BY <1>1 DEF IInv, JobInv, Opens, Apart, FirstCall, MainEnds, ExitLosesNothing
<1>5. ASSUME NEW i \in Window PROVE WindowInv(i)'
  BY <1>1, <1>2, Known DEF WindowInv, Looped
<1> QED
  BY <1>3, <1>4, <1>5 DEF IInv

LEMMA DelKeeps == ASSUME IInv, NEW g \in Window, Del(g) PROVE IInv'
<1>1. /\ up = "running" /\ win[g].state = "open" /\ loop[g] # "busy"
      /\ win' = [win EXCEPT ![g] = [NoWindow EXCEPT !.state = "deleted"]]
      /\ UNCHANGED <<up, ready, autoExit, known, loop, job>>
  BY DEF Del
<1>2. PICK w : w = [NoWindow EXCEPT !.state = "deleted"]
  OBVIOUS
<1>3. w \in Shown /\ w.state = "deleted" /\ w.dirty = FALSE
  BY <1>2, Blank DEF Shown, NoWindow
<1>4. /\ win' \in [Window -> Shown]
      /\ win'[g].state = "deleted" /\ win'[g].dirty = FALSE
      /\ \A i \in Window : i # g => win'[i] = win[i]
  BY <1>1, <1>2, <1>3, Known
<1>5. TypeOK'
  BY <1>1, <1>4 DEF IInv, TypeOK, Shown
<1>6. ASSUME NEW h \in Goroutine PROVE JobInv(h)'
  <2>1. JobInv(h) /\ job' = job /\ loop' = loop
    BY <1>1, Known
  <2>2. Opens(h) => job[h].window \in Window /\ win[job[h].window].state # "none"
    BY Known DEF JobInv
  <2>3. CASE job[h].window = g
    BY <2>1, <2>3, <1>4, Aside
  <2>4. CASE job[h].window # g
    BY <2>1, <2>2, <2>4, <1>4, Aside
  <2> QED
    BY <2>3, <2>4
<1>7. ASSUME NEW i \in Window PROVE WindowInv(i)'
  <2>1. job' = job /\ loop' = loop /\ known' = known
    BY <1>1
  <2>2. CASE i = g
    BY <2>1, <2>2, <1>1, <1>4, Known DEF WindowInv, Looped
  <2>3. CASE i # g
    <3>1. win[i].dirty => \E h \in Goroutine : job'[h].window = i
      BY <2>1, Known DEF WindowInv
    <3> QED
      BY <2>1, <2>3, <3>1, <1>4, Known, Untouched
  <2> QED
    BY <2>2, <2>3
<1>8. Apart' /\ FirstCall' /\ MainEnds' /\ ExitLosesNothing'
  BY <1>1 DEF IInv, Apart, Opens, FirstCall, MainEnds, ExitLosesNothing
<1> QED
  BY <1>5, <1>6, <1>7, <1>8 DEF IInv
LEMMA EndLoopKeeps == ASSUME IInv, NEW g \in Window, EndLoop(g) PROVE IInv'
<1>1. /\ up = "running" /\ win[g].state = "deleted" /\ loop[g] = "idle"
      /\ loop' = [loop EXCEPT ![g] = "ended"]
      /\ known' = known \ {g}
      /\ up' = IF autoExit /\ known' = {} THEN "exited" ELSE up
      /\ UNCHANGED <<ready, autoExit, win, job>>
  BY DEF EndLoop
<1>2. /\ loop' \in [Window -> {"none", "idle", "busy", "ended"}]
      /\ loop'[g] = "ended"
      /\ \A i \in Window : i # g => loop'[i] = loop[i]
  BY <1>1, Known
<1>3. TypeOK'
  BY <1>1, <1>2 DEF IInv, TypeOK
<1>4. ASSUME NEW h \in Goroutine PROVE JobInv(h)'
  <2>1. JobInv(h) /\ job' = job /\ win' = win
    BY <1>1, Known
  <2>2. Opens(h) => job[h].window \in Window /\ win[job[h].window].state # "none"
    BY Known DEF JobInv
  <2>3. Opens(h) => (loop[job[h].window] = "none" => loop'[job[h].window] = "none")
    BY <2>2, <1>1, <1>2
  <2> QED
    BY <2>1, <2>2, <2>3, Aside
<1>5. ASSUME NEW i \in Window PROVE WindowInv(i)'
  <2>1. job' = job /\ win' = win
    BY <1>1
  <2>2. win[i].dirty => \E h \in Goroutine : job'[h].window = i
    BY <2>1, Known DEF WindowInv
  <2>3. CASE i = g
    BY <2>1, <2>2, <2>3, <1>1, <1>2, Known DEF WindowInv, Looped
  <2>4. CASE i # g
    BY <2>1, <2>2, <2>4, <1>1, <1>2, Known, Untouched
  <2> QED
    BY <2>3, <2>4
<1>6. Apart' /\ FirstCall' /\ MainEnds'
  BY <1>1, Known DEF IInv, Apart, Opens, FirstCall, MainEnds
<1>7. ExitLosesNothing'
  <2> SUFFICES ASSUME autoExit, known' = {}
               PROVE  /\ \A i \in Window : win[i].state # "open"
                      /\ \A h \in DOMAIN job : job[h] = NoJob
    BY <1>1 DEF ExitLosesNothing
  <2>1. ASSUME NEW i \in Window PROVE win[i].state # "open"
    <3>1. win[i].state = "open" => i \in known
      BY Known DEF WindowInv
    <3> QED
      BY <3>1, <1>1
  <2>2. ASSUME NEW i \in Window PROVE job[i] = NoJob
    BY <2>1, Known DEF WindowInv
  <2>3. job[Main] = NoJob
    BY Known DEF MainEnds
  <2>4. DOMAIN job = {Main} \cup Window
    BY Known DEF Goroutine
  <2> QED
    BY <2>1, <2>2, <2>3, <2>4
<1> QED
  BY <1>3, <1>4, <1>5, <1>6, <1>7 DEF IInv

LEMMA InvStep == IInv /\ [Next]_vars => IInv'
<1> SUFFICES ASSUME IInv, [Next]_vars PROVE IInv'
  OBVIOUS
<1>1. CASE AutoExit
  BY <1>1, EndsKeep
<1>2. ASSUME NEW g \in Goroutine, Step(g) PROVE IInv'
  <2>1. CASE MakeFails(g)
    BY <2>1, EndsKeep
  <2> QED
    BY <1>2, <2>1, LookUpKeeps, MakeKeeps, LoadKeeps, LoadMoreKeeps, LoadFailsKeeps,
       StartKeeps, CleanKeeps DEF Step
<1>3. ASSUME NEW i \in Window, Look(i) \/ LookForGone(i) \/ Del(i) \/ EndLoop(i) PROVE IInv'
  BY <1>3, LookKeeps, LookForGoneKeeps, DelKeeps, EndLoopKeeps
<1>4. CASE UNCHANGED vars
  <2>1. UNCHANGED <<up, ready, autoExit, win, known, loop, job>>
    BY <1>4 DEF vars
  <2>2. TypeOK'
    BY <2>1 DEF IInv, TypeOK
  <2>3. (\A h \in Goroutine : JobInv(h)') /\ Apart' /\ FirstCall' /\ MainEnds'
    BY <2>1 DEF IInv, JobInv, Opens, Apart, FirstCall, MainEnds
  <2>4. (\A i \in Window : WindowInv(i)') /\ ExitLosesNothing'
    BY <2>1 DEF IInv, WindowInv, Looped, ExitLosesNothing
  <2> QED
    BY <2>2, <2>3, <2>4 DEF IInv
<1> QED
  BY <1>1, <1>2, <1>3, <1>4 DEF Next, Goroutine

LEMMA InvHolds == Spec => []IInv
BY InvInit, InvStep, PTL DEF Spec

(***************************************************************************)
(* What a window shows of a thread                                         *)
(***************************************************************************)
ThreadsLoaded == \A i \in Window : win[i].thread = loadComments(win[i].pool)

LEMMA NoComments == loadComments(<<>>) = <<>>
<1> DEFINE pool == <<>>
<1>1. pool \in Seq(Comment) /\ IsListing(pool) /\ There(pool) = {}
  BY DEF IsListing, IDs, There
<1> HIDE DEF pool
<1>2. Forest(pool, 0, There(pool), loadComments(pool))
  BY <1>1, CommentsAreForest
<1>3. loadComments(pool) \in Seq(Line) /\ Len(loadComments(pool)) = 0
  BY <1>1, <1>2, FS_EmptySet DEF Forest
<1>4. loadComments(pool) = <<>>
  BY <1>3, EmptySeq
<1> QED
  BY <1>4 DEF pool

LEMMA ThreadsStayLoaded == IInv /\ ThreadsLoaded /\ [Next]_vars => ThreadsLoaded'
<1> SUFFICES ASSUME IInv, ThreadsLoaded, [Next]_vars PROVE ThreadsLoaded'
  OBVIOUS
<1>0. win \in [Window -> Shown] /\ job \in [Goroutine -> Job]
  BY Typed DEF IInv
<1>1. ASSUME NEW i \in Window, NEW w, w.thread = loadComments(w.pool), win' = [win EXCEPT ![i] = w]
      PROVE  ThreadsLoaded'
  <2> SUFFICES ASSUME NEW k \in Window PROVE win'[k].thread = loadComments(win'[k].pool)
    BY DEF ThreadsLoaded
  <2>1. win'[k] = IF k = i THEN w ELSE win[k]
    BY <1>0, <1>1
  <2> QED
    BY <2>1, <1>1 DEF ThreadsLoaded
<1>2. win' = win => ThreadsLoaded'
  BY DEF ThreadsLoaded
<1>3. ASSUME NEW i \in Window, NEW w, w.thread = loadComments(w.pool), Write(i, w)
      PROVE  ThreadsLoaded'
  BY <1>1, <1>2, <1>3 DEF Write
<1>4. ASSUME NEW g \in Goroutine, Step(g) PROVE ThreadsLoaded'
  <2>1. CASE LookUp(g) \/ MakeFails(g) \/ LoadFails(g) \/ Start(g)
    BY <2>1, <1>2 DEF LookUp, MakeFails, LoadFails, Start
  <2>2. CASE Make(g)
    <3>1. PICK i \in Window :
            win' = [win EXCEPT ![i].state = "open", ![i].name = job[g].name, ![i].dirty = TRUE]
      BY <2>2 DEF Make
    <3> DEFINE w == [win[i] EXCEPT !.state = "open", !.name = job[g].name, !.dirty = TRUE]
    <3>2. win[i] \in Shown /\ win[i].thread = loadComments(win[i].pool)
      BY <1>0 DEF ThreadsLoaded
    <3>3. w.thread = loadComments(w.pool)
      BY <3>2 DEF Shown
    <3>4. win' = [win EXCEPT ![i] = w]
      BY <3>1, <1>0 DEF Shown
    <3> HIDE DEF w
    <3> QED
      BY <3>3, <3>4, <1>1
  <2>3. CASE Load(g)
    <3> DEFINE i == job[g].window
               w == [win[i] EXCEPT !.body = IF IsPost(win[i].name) THEN "some" ELSE "all"]
    <3>1. i \in Window /\ Write(i, w)
      <4>1. job[g].step = "load"
        BY <2>3 DEF Load, At
      <4> QED
        BY <4>1, <2>3, Known DEF Load, Opens
    <3>2. win[i] \in Shown /\ win[i].thread = loadComments(win[i].pool)
      BY <3>1, <1>0 DEF ThreadsLoaded
    <3>3. w.thread = loadComments(w.pool)
      BY <3>2 DEF Shown
    <3> HIDE DEF w, i
    <3> QED
      BY <3>1, <3>3, <1>3
  <2>4. CASE LoadMore(g)
    <3> DEFINE i == job[g].window
    <3>1. PICK pool \in Listings :
            Write(i, [win[i] EXCEPT !.body = "all", !.pool = pool, !.thread = loadComments(pool)])
      BY <2>4 DEF LoadMore
    <3>2. i \in Window
      <4>1. job[g].step = "load more"
        BY <2>4 DEF LoadMore, At
      <4> QED
        BY <4>1, Known DEF Opens
    <3> DEFINE w == [win[i] EXCEPT !.body = "all", !.pool = pool, !.thread = loadComments(pool)]
    <3>3. win[i] \in Shown
      BY <3>2, <1>0
    <3>4. w.thread = loadComments(w.pool)
      BY <3>3 DEF Shown
    <3>5. Write(i, w)
      BY <3>1
    <3> HIDE DEF w, i
    <3> QED
      BY <3>2, <3>4, <3>5, <1>3
  <2>5. CASE Clean(g)
    <3> DEFINE i == job[g].window
               w == [win[i] EXCEPT !.dirty = FALSE]
    <3>1. i \in Window /\ Write(i, w)
      <4>1. job[g].step = "clean"
        BY <2>5 DEF Clean, At
      <4> QED
        BY <4>1, <2>5, Known DEF Clean, Opens
    <3>2. win[i] \in Shown /\ win[i].thread = loadComments(win[i].pool)
      BY <3>1, <1>0 DEF ThreadsLoaded
    <3>3. w.thread = loadComments(w.pool)
      BY <3>2 DEF Shown
    <3> HIDE DEF w, i
    <3> QED
      BY <3>1, <3>3, <1>3
  <2> QED
    BY <1>4, <2>1, <2>2, <2>3, <2>4, <2>5 DEF Step
<1>5. ASSUME NEW i \in Window, Look(i) \/ LookForGone(i) \/ EndLoop(i) PROVE ThreadsLoaded'
  BY <1>5, <1>2 DEF Look, LookForGone, EndLoop
<1>6. ASSUME NEW i \in Window, Del(i) PROVE ThreadsLoaded'
  <2> DEFINE w == [NoWindow EXCEPT !.state = "deleted"]
  <2>1. w.thread = loadComments(w.pool)
    BY NoComments DEF NoWindow
  <2>2. win' = [win EXCEPT ![i] = w]
    BY <1>6 DEF Del
  <2> HIDE DEF w
  <2> QED
    BY <2>1, <2>2, <1>1
<1>7. CASE AutoExit
  BY <1>7, <1>2 DEF AutoExit
<1>8. CASE UNCHANGED vars
  BY <1>8, <1>2 DEF vars
<1> QED
  BY <1>4, <1>5, <1>6, <1>7, <1>8 DEF Next, Goroutine

(***************************************************************************)
(* The theorems                                                            *)
(***************************************************************************)
\* The state has its type: whatever is looked at, every window has a name that
\* acme can show, and what a goroutine opens is one of the windows made.
THEOREM TypeCorrect == Spec => []TypeOK
<1>1. IInv => TypeOK
  BY DEF IInv
<1> QED
  BY <1>1, InvHolds, PTL

\* A window with an event loop shows all of what it lists: none whose loading
\* failed or goes on has one (openCommunityList, openCommunity, openPost).
THEOREM LoopsWhole == Spec => []LoopsAreWhole
<1>1. IInv => LoopsAreWhole
  BY DEF IInv, WindowInv, LoopsAreWhole
<1> QED
  BY <1>1, InvHolds, PTL

\* A window is marked as modified only while a goroutine is opening it: the
\* deferred clean runs after a failure too.
THEOREM DirtyIsTemporary == Spec => []DirtyIsBeingOpened
<1>1. IInv => DirtyIsBeingOpened
  BY Known DEF WindowInv, DirtyIsBeingOpened
<1> QED
  BY <1>1, InvHolds, PTL

\* The first call, which makes the client ready without a lock, has returned
\* before any other goroutine can call.
THEOREM ReadyIsSettled == Spec => []ReadyBeforeLoops
<1>1. IInv => ReadyBeforeLoops
  BY Known DEF FirstCall, ReadyBeforeLoops
<1> QED
  BY <1>1, InvHolds, PTL

\* The library ends the program only when no window is left and none is being
\* opened, although it does not hear of every window that is deleted.
THEOREM ExitIsEmpty == Spec => []ExitLosesNothing
<1>1. IInv => ExitLosesNothing
  BY DEF IInv
<1> QED
  BY <1>1, InvHolds, PTL

\* Every thread that is shown is whole: each comment whose ancestors are listed
\* is there once, under its parent, in whatever order and however deep they are
\* (loadComments, printThread, children).
THEOREM ThreadsAreWhole == Spec => []ThreadIsWhole
<1>1. Init => ThreadsLoaded
  BY NoComments DEF Init, ThreadsLoaded, NoWindow
<1>2. ThreadsLoaded /\ TypeOK => ThreadIsWhole
  <2> SUFFICES ASSUME ThreadsLoaded, TypeOK, NEW i \in Window
               PROVE  ShowsAll(win[i].thread, win[i].pool)
    BY DEF ThreadIsWhole
  <2>1. win[i] \in Shown
    BY Typed
  <2>2. win[i].pool \in Listings \cup {<<>>}
    BY <2>1 DEF Shown
  <2> QED
    BY <2>2, LoadShowsAll DEF ThreadsLoaded
<1> QED
  BY <1>1, <1>2, ThreadsStayLoaded, InvHolds, TypeCorrect, PTL DEF Spec
=============================================================================
