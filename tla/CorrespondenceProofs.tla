------------------------ MODULE CorrespondenceProofs ------------------------
(***************************************************************************)
(* Theorems about Correspondence, for every directory of actors, every set  *)
(* of users and every length of a conversation.                            *)
(*                                                                         *)
(* What a mail says depends on Kept, which is recursive.  NatInSet is       *)
(* induction in the form of a set of numbers, from which FilterExists shows *)
(* that the function Kept chooses exists, and KeptElems what is in it.      *)
(***************************************************************************)
EXTENDS Correspondence, FiniteSetTheorems, WellFoundedInduction, TLAPS

(***************************************************************************)
(* Induction, and what Kept keeps                                          *)
(***************************************************************************)

\* Every nonempty set of naturals has a least element.
LEMMA LeastExists ==
  ASSUME NEW S, S \subseteq Nat, S # {}
  PROVE  \E n \in S : \A m \in S : n <= m
<1> DEFINE Less == {ss \in Nat \X Nat : ss[1] < ss[2]}
<1>1. IsWellFoundedOn(Less, Nat)
  BY NatLessThanWellFounded DEF OpToRel
<1> HIDE DEF Less
<1>2. PICK n \in S : \A m \in S : <<m, n>> \notin Less
  BY <1>1, WFMin
<1>3. \A m \in S : ~(m < n)
  BY <1>2 DEF Less
<1> QED
  BY <1>3

\* A set with 0 and the successor of each of its numbers contains them all.
LEMMA NatInSet ==
  ASSUME NEW T, 0 \in T, \A n \in Nat : n \in T => n + 1 \in T
  PROVE  Nat \subseteq T
<1> DEFINE Rest == Nat \ T
<1> SUFFICES ASSUME Rest # {} PROVE FALSE
  OBVIOUS
<1>1. PICK n \in Rest : \A m \in Rest : n <= m
  BY LeastExists
<1>2. n \in Nat /\ n # 0 /\ n - 1 \in Nat /\ n - 1 \notin T
  BY <1>1
<1>3. n - 1 \in Rest /\ ~(n <= n - 1)
  BY <1>2
<1> QED
  BY <1>1, <1>3

\* f is the function that Kept defines, as far as the first n elements of s.
Filters(f, n, s, S) ==
  f = [i \in 0..n |-> IF i = 0 THEN <<>>
                      ELSE IF s[i] \in S THEN Append(f[i - 1], s[i]) ELSE f[i - 1]]

\* There is such a function for every n.
LEMMA FilterExists ==
  ASSUME NEW s, NEW S
  PROVE  \A n \in Nat : \E f : Filters(f, n, s, S)
<1> DEFINE T == {n \in Nat : \E f : Filters(f, n, s, S)}
<1>1. 0 \in T
  <2> DEFINE f == [i \in 0..0 |-> <<>>]
  <2>1. Filters(f, 0, s, S)
    BY DEF Filters
  <2> QED
    BY <2>1
<1>2. ASSUME NEW n \in Nat, n \in T PROVE n + 1 \in T
  <2>1. PICK f : Filters(f, n, s, S)
    BY <1>2
  <2> DEFINE last == IF s[n + 1] \in S THEN Append(f[n], s[n + 1]) ELSE f[n]
             g    == [i \in 0..n + 1 |-> IF i = n + 1 THEN last ELSE f[i]]
  <2>2. \A i \in 0..n + 1 :
          g[i] = IF i = 0 THEN <<>>
                 ELSE IF s[i] \in S THEN Append(g[i - 1], s[i]) ELSE g[i - 1]
    <3>1. \A i \in 0..n : f[i] = IF i = 0 THEN <<>>
                 ELSE IF s[i] \in S THEN Append(f[i - 1], s[i]) ELSE f[i - 1]
      BY <2>1 DEF Filters
    <3>2. \A i \in 0..n : g[i] = f[i]
      OBVIOUS
    <3>3. g[n + 1] = last
      OBVIOUS
    <3> HIDE DEF g
    <3>4. ASSUME NEW i \in 0..n + 1, i # n + 1
          PROVE  g[i] = IF i = 0 THEN <<>>
                        ELSE IF s[i] \in S THEN Append(g[i - 1], s[i]) ELSE g[i - 1]
      <4>1. i \in 0..n
        BY <3>4
      <4>2. i # 0 => i - 1 \in 0..n
        BY <4>1
      <4> QED
        BY <4>1, <4>2, <3>1, <3>2
    <3>5. g[n] = f[n]
      BY <3>2
    <3> QED
      BY <3>3, <3>4, <3>5
  <2>3. Filters(g, n + 1, s, S)
    BY <2>2 DEF Filters
  <2> QED
    BY <2>3
<1> QED
  BY <1>1, <1>2, NatInSet

\* Kept is the last value of such a function.
LEMMA KeptSteps ==
  ASSUME NEW s, NEW S, Len(s) \in Nat
  PROVE  \E f : Filters(f, Len(s), s, S) /\ Kept(s, S) = f[Len(s)]
<1> DEFINE kept[i \in 0..Len(s)] ==
        IF i = 0 THEN <<>>
        ELSE IF s[i] \in S THEN Append(kept[i - 1], s[i]) ELSE kept[i - 1]
<1>1. kept = CHOOSE f : Filters(f, Len(s), s, S)
  BY DEF Filters
<1>2. Filters(kept, Len(s), s, S)
  <2> HIDE DEF kept
  <2> QED
    BY <1>1, FilterExists
<1>3. Kept(s, S) = kept[Len(s)]
  BY DEF Kept
<1> QED
  BY <1>2, <1>3

LEMMA ElemsAppend ==
  ASSUME NEW S, NEW s \in Seq(S), NEW e \in S
  PROVE  Elems(Append(s, e)) = Elems(s) \cup {e}
<1>1. DOMAIN Append(s, e) = 1..Len(s) + 1 /\ DOMAIN s = 1..Len(s) /\ Len(s) \in Nat
  OBVIOUS
<1>2. \A i \in 1..Len(s) : Append(s, e)[i] = s[i]
  OBVIOUS
<1>3. Append(s, e)[Len(s) + 1] = e
  OBVIOUS
<1>4. 1..Len(s) + 1 = 1..Len(s) \cup {Len(s) + 1}
  BY <1>1
<1> QED
  BY <1>1, <1>2, <1>3, <1>4 DEF Elems

LEMMA ElemsConcat ==
  ASSUME NEW S, NEW s \in Seq(S), NEW t \in Seq(S)
  PROVE  Elems(s \o t) = Elems(s) \cup Elems(t)
<1>1. \A i \in 1..Len(s) : (s \o t)[i] = s[i] /\ i \in DOMAIN (s \o t)
  OBVIOUS
<1>2. \A i \in 1..Len(t) : (s \o t)[Len(s) + i] = t[i] /\ Len(s) + i \in DOMAIN (s \o t)
  OBVIOUS
<1>3. \A i \in DOMAIN (s \o t) : i \in 1..Len(s) \/ (i - Len(s)) \in 1..Len(t)
  OBVIOUS
<1>4. \A i \in DOMAIN (s \o t) : ~(i \in 1..Len(s)) => (s \o t)[i] = t[i - Len(s)]
  OBVIOUS
<1>5. DOMAIN s = 1..Len(s) /\ DOMAIN t = 1..Len(t)
  OBVIOUS
<1>6. ASSUME NEW i \in DOMAIN (s \o t) PROVE (s \o t)[i] \in Elems(s) \cup Elems(t)
  BY <1>1, <1>3, <1>4, <1>5 DEF Elems
<1>7. Elems(s) \subseteq Elems(s \o t) /\ Elems(t) \subseteq Elems(s \o t)
  BY <1>1, <1>2, <1>5 DEF Elems
<1> QED
  BY <1>6, <1>7 DEF Elems

\* Kept(s, S) is a sequence of the elements of s that are in S, all of them.
LEMMA KeptElems ==
  ASSUME NEW R, NEW s \in Seq(R), NEW S
  PROVE  /\ Kept(s, S) \in Seq(R \cap S)
         /\ Elems(Kept(s, S)) = Elems(s) \cap S
<1>0. Len(s) \in Nat /\ \A i \in 1..Len(s) : s[i] \in R
  OBVIOUS
<1>1. PICK f : Filters(f, Len(s), s, S) /\ Kept(s, S) = f[Len(s)]
  BY <1>0, KeptSteps
<1>2. \A i \in 0..Len(s) : f[i] = IF i = 0 THEN <<>>
                 ELSE IF s[i] \in S THEN Append(f[i - 1], s[i]) ELSE f[i - 1]
  BY <1>1 DEF Filters
<1> DEFINE First(n) == {s[j] : j \in 1..n}
           T == {n \in Nat : n <= Len(s) => /\ f[n] \in Seq(R \cap S)
                                            /\ Elems(f[n]) = First(n) \cap S}
<1>3. 0 \in T
  <2>1. f[0] = <<>> /\ <<>> \in Seq(R \cap S) /\ First(0) = {}
    BY <1>0, <1>2
  <2>2. Elems(<<>>) = {}
    BY DEF Elems
  <2> QED
    BY <2>1, <2>2
<1>4. ASSUME NEW n \in Nat, n \in T, n + 1 <= Len(s)
      PROVE  n + 1 \in T
  <2>1. f[n] \in Seq(R \cap S) /\ Elems(f[n]) = First(n) \cap S
    BY <1>4, <1>0
  <2>2. First(n + 1) = First(n) \cup {s[n + 1]}
    <3>1. 1..n + 1 = 1..n \cup {n + 1}
      OBVIOUS
    <3> QED
      BY <3>1
  <2>3. f[n + 1] = IF s[n + 1] \in S THEN Append(f[n], s[n + 1]) ELSE f[n]
    BY <1>2, <1>0, <1>4
  <2>4. s[n + 1] \in R
    BY <1>0, <1>4
  <2>5. /\ f[n + 1] \in Seq(R \cap S)
        /\ Elems(f[n + 1]) = First(n + 1) \cap S
    <3> HIDE DEF First
    <3>1. CASE s[n + 1] \in S
      <4>1. Elems(f[n + 1]) = Elems(f[n]) \cup {s[n + 1]}
        BY <3>1, <2>1, <2>3, <2>4, ElemsAppend
      <4> QED
        BY <4>1, <3>1, <2>1, <2>2, <2>3, <2>4
    <3>2. CASE s[n + 1] \notin S
      BY <3>2, <2>1, <2>2, <2>3
    <3> QED
      BY <3>1, <3>2
  <2> QED
    BY <2>5
<1>5. Nat \subseteq T
  <2>1. ASSUME NEW n \in Nat, n \in T PROVE n + 1 \in T
    <3>1. CASE n + 1 <= Len(s)
      BY <3>1, <2>1, <1>4
    <3>2. CASE ~(n + 1 <= Len(s))
      BY <3>2
    <3> QED
      BY <3>1, <3>2
  <2> HIDE DEF T
  <2> QED
    BY <1>3, <2>1, NatInSet
<1>6. Kept(s, S) \in Seq(R \cap S) /\ Elems(Kept(s, S)) = First(Len(s)) \cap S
  <2>1. Len(s) \in T
    BY <1>5, <1>0
  <2> HIDE DEF First
  <2> QED
    BY <2>1, <1>1, <1>0
<1>7. First(Len(s)) = Elems(s)
  BY DEF Elems
<1> QED
  BY <1>6, <1>7

\* An element that is not in S does not show in Kept(_, S).
LEMMA KeptSkips ==
  ASSUME NEW R, NEW s \in Seq(R), NEW e \in R, NEW S, e \notin S
  PROVE  Kept(Append(s, e), S) = Kept(s, S)
<1> DEFINE t == Append(s, e)
<1>0. /\ Len(s) \in Nat /\ Len(t) = Len(s) + 1
      /\ \A i \in 1..Len(s) : t[i] = s[i]
      /\ t[Len(s) + 1] = e
  OBVIOUS
<1> HIDE DEF t
<1>1. PICK f : Filters(f, Len(s), s, S) /\ Kept(s, S) = f[Len(s)]
  BY <1>0, KeptSteps
<1>2. PICK g : Filters(g, Len(s) + 1, t, S) /\ Kept(t, S) = g[Len(s) + 1]
  <2>1. \E g : Filters(g, Len(t), t, S) /\ Kept(t, S) = g[Len(t)]
    BY <1>0, KeptSteps
  <2> QED
    BY <2>1, <1>0
<1>3. \A i \in 0..Len(s) : f[i] = IF i = 0 THEN <<>>
                 ELSE IF s[i] \in S THEN Append(f[i - 1], s[i]) ELSE f[i - 1]
  BY <1>1 DEF Filters
<1>4. \A i \in 0..Len(s) + 1 : g[i] = IF i = 0 THEN <<>>
                 ELSE IF t[i] \in S THEN Append(g[i - 1], t[i]) ELSE g[i - 1]
  BY <1>2 DEF Filters
<1> DEFINE T == {n \in Nat : n <= Len(s) => f[n] = g[n]}
<1>5. 0 \in T
  BY <1>0, <1>3, <1>4
<1>6. ASSUME NEW n \in Nat, n \in T PROVE n + 1 \in T
  <2>1. CASE n + 1 <= Len(s)
    BY <2>1, <1>0, <1>3, <1>4, <1>6
  <2>2. CASE ~(n + 1 <= Len(s))
    BY <2>2
  <2> QED
    BY <2>1, <2>2
<1>7. Len(s) \in T
  <2> HIDE DEF T
  <2> QED
    BY <1>0, <1>5, <1>6, NatInSet
<1>8. g[Len(s) + 1] = g[Len(s)]
  BY <1>0, <1>4
<1> QED
  BY <1>0, <1>1, <1>2, <1>7, <1>8 DEF t

(***************************************************************************)
(* What is in a header                                                     *)
(***************************************************************************)

\* The first actor seen whose followers c holds is one who has been seen.
LEMMA OwnerOwns ==
  ASSUME NEW seen \in Seq(Actor), NEW c
  PROVE  /\ Owners(seen, c) # {} <=> c \in Owned(seen)
         /\ c \in Owned(seen) => /\ Owner(seen, c) \in Elems(seen)
                                 /\ Followers[Owner(seen, c)] = c
<1>1. Owners(seen, c) # {} <=> c \in Owned(seen)
  BY DEF Owners, Owned, Elems
<1>2. ASSUME c \in Owned(seen)
      PROVE  /\ Owner(seen, c) \in Elems(seen)
             /\ Followers[Owner(seen, c)] = c
  <2>1. Owners(seen, c) \subseteq Nat
    BY DEF Owners
  <2>2. \E i \in Owners(seen, c) : \A k \in Owners(seen, c) : i <= k
    BY <1>1, <1>2, <2>1, LeastExists
  <2>3. PICK i \in Owners(seen, c) : Owner(seen, c) = seen[i]
    BY <2>2 DEF Owner
  <2> QED
    BY <2>3 DEF Owners, Elems
<1> QED
  BY <1>1, <1>2

\* The collections that a line shows.
Shown(ids, seen) == Elems(ids) \cap Collection \cap Owned(seen)

\* Every line is of people addressed, and of owners of collections addressed.
LEMMA LineElems ==
  ASSUME NEW ids \in Seq(Recipient), NEW seen \in Seq(Actor)
  PROVE  /\ Line(ids, seen) \in Seq(Box)
         /\ Elems(Line(ids, seen)) =
              {PersonBox(a) : a \in Elems(ids) \cap Actor}
              \cup {FollowersBox(Owner(seen, c)) : c \in Shown(ids, seen)}
<1> DEFINE With   == {c \in Collection : Owners(seen, c) # {}}
           people == People(ids)
           owned  == Kept(ids, With)
           first  == Each(PersonBox, people)
           second == Each(LAMBDA c : FollowersBox(Owner(seen, c)), owned)
<1>1. people \in Seq(Actor) /\ Elems(people) = Elems(ids) \cap Actor
  <2>1. people \in Seq(Recipient \cap Actor)
    BY KeptElems DEF People
  <2>2. Recipient \cap Actor = Actor
    BY DEF Recipient
  <2> QED
    BY <2>1, <2>2, KeptElems DEF People
<1>2. With = Collection \cap Owned(seen)
  BY OwnerOwns
<1>3. owned \in Seq(With) /\ Elems(owned) = Shown(ids, seen)
  <2>1. owned \in Seq(Recipient \cap With) /\ Elems(owned) = Elems(ids) \cap With
    BY KeptElems
  <2>2. Recipient \cap With = With
    BY DEF Recipient
  <2> HIDE DEF With
  <2> QED
    BY <2>1, <2>2, <1>2 DEF Shown
<1>4. \A a \in Actor : PersonBox(a) \in Box /\ FollowersBox(a) \in Box
  BY DirectoryAssumption DEF PersonBox, FollowersBox, Box
<1>5. \A c \in With : Owner(seen, c) \in Actor
  <2>1. Elems(seen) \subseteq Actor
    BY DEF Elems
  <2> QED
    BY <2>1, <1>2, OwnerOwns
<1>6. first \in Seq(Box) /\ Elems(first) = {PersonBox(a) : a \in Elems(people)}
  <2> HIDE DEF people
  <2>1. Len(people) \in Nat /\ DOMAIN people = 1..Len(people)
    BY <1>1
  <2>2. \A i \in 1..Len(people) : people[i] \in Actor
    BY <1>1
  <2>3. first = [i \in 1..Len(people) |-> PersonBox(people[i])]
    BY <2>1 DEF Each
  <2> HIDE DEF first
  <2>4. \A i \in 1..Len(people) : PersonBox(people[i]) \in Box
    BY <2>2, <1>4
  <2>5. first \in Seq(Box)
    BY <2>1, <2>3, <2>4
  <2> QED
    BY <2>1, <2>3, <2>5 DEF Elems
<1>7. /\ second \in Seq(Box)
      /\ Elems(second) = {FollowersBox(Owner(seen, c)) : c \in Elems(owned)}
  <2> HIDE DEF owned, With
  <2>1. Len(owned) \in Nat /\ DOMAIN owned = 1..Len(owned)
    BY <1>3
  <2>2. \A i \in 1..Len(owned) : Owner(seen, owned[i]) \in Actor
    BY <1>3, <1>5
  <2>3. second = [i \in 1..Len(owned) |-> FollowersBox(Owner(seen, owned[i]))]
    BY <2>1 DEF Each
  <2> HIDE DEF second
  <2>4. \A i \in 1..Len(owned) : FollowersBox(Owner(seen, owned[i])) \in Box
    BY <2>2, <1>4
  <2>5. second \in Seq(Box)
    BY <2>1, <2>3, <2>4
  <2> QED
    BY <2>1, <2>3, <2>5 DEF Elems
<1>8. Line(ids, seen) = first \o second
  BY DEF Line
<1> HIDE DEF first, second, people, owned
<1>9. Line(ids, seen) \in Seq(Box)
  BY <1>6, <1>7, <1>8
<1>10. Elems(Line(ids, seen)) = Elems(first) \cup Elems(second)
  BY <1>6, <1>7, <1>8, ElemsConcat
<1>11. Elems(first) = {PersonBox(a) : a \in Elems(ids) \cap Actor}
  BY <1>1, <1>6
<1>12. Elems(second) = {FollowersBox(Owner(seen, c)) : c \in Shown(ids, seen)}
  BY <1>3, <1>7
<1> QED
  BY <1>9, <1>10, <1>11, <1>12

\* A line stays as it is when the public is added to those it is made from.
LEMMA LineSkipsPublic ==
  ASSUME NEW ids \in Seq(Recipient), NEW seen
  PROVE  Line(Append(ids, Public), seen) = Line(ids, seen)
<1>1. Public \in Recipient
  BY DEF Recipient
<1>2. Public \notin Actor /\ Public \notin {c \in Collection : Owners(seen, c) # {}}
  BY DirectoryAssumption
<1>3. Kept(Append(ids, Public), Actor) = Kept(ids, Actor)
  BY <1>1, <1>2, KeptSkips
<1>4. Kept(Append(ids, Public), {c \in Collection : Owners(seen, c) # {}})
        = Kept(ids, {c \in Collection : Owners(seen, c) # {}})
  BY <1>1, <1>2, KeptSkips
<1> QED
  BY <1>3, <1>4 DEF Line, People

\* Permit does not show in mail: the copy, made before the activity is
\* permitted for the public, is the mail its readers will have.
LEMMA PermitHidden ==
  ASSUME NEW n \in Note
  PROVE  /\ Permit(n) \in Note
         /\ MarshalMail(Permit(n)) = MarshalMail(n)
<1>1. n.to \in Seq(Recipient) /\ n.cc \in Seq(Recipient)
  BY DEF Note
<1>2. Public \in Recipient
  BY DEF Recipient
<1>3. Permit(n) = [n EXCEPT !.to = Append(n.to, Public)]
  BY DEF Permit, Note
<1>4. /\ Permit(n).to = Append(n.to, Public) /\ Permit(n).cc = n.cc
      /\ Permit(n).author = n.author /\ Permit(n).id = n.id
      /\ Permit(n).inReplyTo = n.inReplyTo
  BY <1>3 DEF Note
<1>5. Permit(n) \in Note
  BY <1>1, <1>2, <1>3 DEF Note
<1>6. People(Permit(n).to) = People(n.to)
  <2>1. Public \notin Actor
    BY DirectoryAssumption
  <2> QED
    BY <1>1, <1>2, <1>4, <2>1, KeptSkips DEF People
<1>7. SeenAtTo(Permit(n)) = SeenAtTo(n) /\ SeenAtCC(Permit(n)) = SeenAtCC(n)
  BY <1>4, <1>6 DEF SeenAtTo, SeenAtCC
<1>8. Line(Permit(n).to, SeenAtTo(n)) = Line(n.to, SeenAtTo(n))
  BY <1>1, <1>4, LineSkipsPublic
<1> QED
  BY <1>4, <1>5, <1>7, <1>8 DEF MarshalMail

\* The actors looked up are those named.
LEMMA SeenElems ==
  ASSUME NEW n \in Note
  PROVE  /\ SeenAtTo(n) \in Seq(Actor)
         /\ SeenAtCC(n) \in Seq(Actor)
         /\ Elems(SeenAtTo(n)) \subseteq Named(n)
         /\ Elems(SeenAtCC(n)) \subseteq Named(n)
<1>1. n.to \in Seq(Recipient) /\ n.cc \in Seq(Recipient) /\ n.author \in Actor
  BY DEF Note
<1>2. Recipient \cap Actor = Actor
  BY DEF Recipient
<1>3. /\ People(n.to) \in Seq(Actor) /\ Elems(People(n.to)) = Elems(n.to) \cap Actor
      /\ People(n.cc) \in Seq(Actor) /\ Elems(People(n.cc)) = Elems(n.cc) \cap Actor
  BY <1>1, <1>2, KeptElems DEF People
<1>4. <<n.author>> \in Seq(Actor) /\ Elems(<<n.author>>) = {n.author}
  BY <1>1 DEF Elems
<1>5. /\ SeenAtTo(n) \in Seq(Actor)
      /\ Elems(SeenAtTo(n)) = {n.author} \cup (Elems(n.to) \cap Actor)
  <2>1. PICK first \in Seq(Actor) : first = <<n.author>>
    BY <1>4
  <2>2. SeenAtTo(n) = first \o People(n.to)
    BY <2>1 DEF SeenAtTo
  <2>3. Elems(first \o People(n.to)) = Elems(first) \cup Elems(People(n.to))
    BY <1>3, ElemsConcat
  <2> QED
    BY <1>3, <1>4, <2>1, <2>2, <2>3
<1>6. /\ SeenAtCC(n) \in Seq(Actor)
      /\ Elems(SeenAtCC(n)) = Elems(SeenAtTo(n)) \cup (Elems(n.cc) \cap Actor)
  BY <1>3, <1>5, ElemsConcat DEF SeenAtCC
<1> QED
  BY <1>5, <1>6 DEF Named, Addressed

\* The addresses in the header of a mail.
Boxes(mail) == Elems(mail.to) \cup Elems(mail.cc)

\* The mail made of an activity is a mail, addressed to people whom the
\* activity names and to followers of theirs, to whom it is addressed; and to
\* all of them but the collections dropped.
LEMMA MailBoxes ==
  ASSUME NEW n \in Note
  PROVE  /\ MarshalMail(n) \in Mail
         /\ \A b \in Boxes(MarshalMail(n)) :
              \/ \E a \in Addressed(n) \cap Actor : b = PersonBox(a)
              \/ \E o \in Named(n) : Followers[o] \in Addressed(n) /\ b = FollowersBox(o)
         /\ \A a \in Addressed(n) \cap Actor : PersonBox(a) \in Boxes(MarshalMail(n))
         /\ \A c \in (Addressed(n) \cap Collection) \ Dropped(n) :
              \E o \in Actor : Followers[o] = c /\ FollowersBox(o) \in Boxes(MarshalMail(n))
<1> DEFINE m == MarshalMail(n)
<1>1. /\ n.to \in Seq(Recipient) /\ n.cc \in Seq(Recipient) /\ n.author \in Actor
      /\ n.id \in NoteID /\ n.inReplyTo \in NoteID \cup {NoID}
  BY DEF Note
<1>2. m = [from |-> AddressOf[n.author], to |-> Line(n.to, SeenAtTo(n)),
           cc |-> Line(n.cc, SeenAtCC(n)), id |-> n.id, inReplyTo |-> n.inReplyTo]
  BY DEF MarshalMail
<1>3. /\ m.to \in Seq(Box)
      /\ Elems(m.to) = {PersonBox(a) : a \in Elems(n.to) \cap Actor}
           \cup {FollowersBox(Owner(SeenAtTo(n), c)) : c \in Shown(n.to, SeenAtTo(n))}
  <2>1. m.to = Line(n.to, SeenAtTo(n))
    BY <1>2
  <2> HIDE DEF m
  <2> QED
    BY <1>1, <2>1, SeenElems, LineElems
<1>4. /\ m.cc \in Seq(Box)
      /\ Elems(m.cc) = {PersonBox(a) : a \in Elems(n.cc) \cap Actor}
           \cup {FollowersBox(Owner(SeenAtCC(n), c)) : c \in Shown(n.cc, SeenAtCC(n))}
  <2>1. m.cc = Line(n.cc, SeenAtCC(n))
    BY <1>2
  <2> HIDE DEF m
  <2> QED
    BY <1>1, <2>1, SeenElems, LineElems
<1>5. m \in Mail
  BY <1>1, <1>2, <1>3, <1>4, DirectoryAssumption DEF Mail
<1>6. \A c \in Shown(n.to, SeenAtTo(n)) :
        /\ Owner(SeenAtTo(n), c) \in Named(n) \cap Actor
        /\ Followers[Owner(SeenAtTo(n), c)] = c /\ c \in Addressed(n)
  <2>1. Elems(SeenAtTo(n)) \subseteq Named(n) \cap Actor
    BY SeenElems DEF Elems
  <2> QED
    BY <2>1, SeenElems, OwnerOwns DEF Shown, Addressed
<1>7. \A c \in Shown(n.cc, SeenAtCC(n)) :
        /\ Owner(SeenAtCC(n), c) \in Named(n) \cap Actor
        /\ Followers[Owner(SeenAtCC(n), c)] = c /\ c \in Addressed(n)
  <2>1. Elems(SeenAtCC(n)) \subseteq Named(n) \cap Actor
    BY SeenElems DEF Elems
  <2> QED
    BY <2>1, SeenElems, OwnerOwns DEF Shown, Addressed
<1>8. \A c \in (Addressed(n) \cap Collection) \ Dropped(n) :
        c \in Shown(n.to, SeenAtTo(n)) \/ c \in Shown(n.cc, SeenAtCC(n))
  BY DEF Addressed, Dropped, Shown
<1> HIDE DEF m
<1>9. ASSUME NEW b \in Boxes(m)
      PROVE  \/ \E a \in Addressed(n) \cap Actor : b = PersonBox(a)
             \/ \E o \in Named(n) : Followers[o] \in Addressed(n) /\ b = FollowersBox(o)
  BY <1>3, <1>4, <1>6, <1>7 DEF Boxes, Addressed
<1>10. \A a \in Addressed(n) \cap Actor : PersonBox(a) \in Boxes(m)
  BY <1>3, <1>4 DEF Boxes, Addressed
<1>11. ASSUME NEW c \in (Addressed(n) \cap Collection) \ Dropped(n)
       PROVE  \E o \in Actor : Followers[o] = c /\ FollowersBox(o) \in Boxes(m)
  BY <1>3, <1>4, <1>6, <1>7, <1>8 DEF Boxes
<1> QED
  BY <1>5, <1>9, <1>10, <1>11 DEF m

\* A mail as a mail client hands it on.
Submitted == [from : Address \cup {BadAddress}, to : Seq(Box), cc : Seq(Box),
              id : {ClientID}, inReplyTo : NoteID \cup {NoID}]

\* The activity made of a readable mail, under an ID, is one, and addressed to
\* whom its addresses stand for.
LEMMA ReadMail ==
  ASSUME NEW mail \in Submitted, Readable(mail), NEW id \in NoteID
  PROVE  LET n == [UnmarshalMail(mail) EXCEPT !.id = id] IN
         /\ n \in Note
         /\ n.author = Resolves[mail.from] /\ n.id = id /\ n.inReplyTo = mail.inReplyTo
         /\ Addressed(n) = {Addressee(b) : b \in Boxes(mail)}
<1> DEFINE n == [UnmarshalMail(mail) EXCEPT !.id = id]
<1>1. mail.to \in Seq(Box) /\ mail.cc \in Seq(Box) /\ mail.inReplyTo \in NoteID \cup {NoID}
  BY DEF Submitted
<1>2. \A b \in Boxes(mail) : Addressee(b) \in Recipient
  <2> SUFFICES ASSUME NEW b \in Boxes(mail) PROVE Addressee(b) \in Recipient
    OBVIOUS
  <2>1. Resolves[b.addr] \in Actor
    BY DirectoryAssumption DEF Readable, Boxes, Found
  <2> QED
    BY <2>1, DirectoryAssumption DEF Addressee, Recipient
<1>3. ASSUME NEW s \in Seq(Box), Elems(s) \subseteq Boxes(mail)
      PROVE  /\ Each(Addressee, s) \in Seq(Recipient)
             /\ Elems(Each(Addressee, s)) = {Addressee(b) : b \in Elems(s)}
  <2>1. Len(s) \in Nat /\ DOMAIN s = 1..Len(s)
    OBVIOUS
  <2>2. Each(Addressee, s) = [i \in 1..Len(s) |-> Addressee(s[i])]
    BY <2>1 DEF Each
  <2>3. \A i \in 1..Len(s) : Addressee(s[i]) \in Recipient
    BY <1>2, <1>3, <2>1 DEF Elems
  <2>4. Each(Addressee, s) \in Seq(Recipient)
    BY <2>1, <2>2, <2>3
  <2> QED
    BY <2>1, <2>2, <2>4 DEF Elems
<1>4. n = [author |-> Resolves[mail.from], to |-> Each(Addressee, mail.to),
           cc |-> Each(Addressee, mail.cc), id |-> id, inReplyTo |-> mail.inReplyTo]
  BY DEF UnmarshalMail
<1>5. Resolves[mail.from] \in Actor
  BY DirectoryAssumption DEF Readable, Found
<1>6. /\ n.to \in Seq(Recipient) /\ Elems(n.to) = {Addressee(b) : b \in Elems(mail.to)}
      /\ n.cc \in Seq(Recipient) /\ Elems(n.cc) = {Addressee(b) : b \in Elems(mail.cc)}
  BY <1>1, <1>3, <1>4 DEF Boxes
<1>7. n \in Note
  BY <1>1, <1>4, <1>5, <1>6 DEF Note
<1>8. Addressed(n) = {Addressee(b) : b \in Boxes(mail)}
  <2> HIDE DEF n
  <2> QED
    BY <1>6 DEF Addressed, Boxes
<1> QED
  BY <1>4, <1>7, <1>8

FromBox(m) == [addr |-> m.from, followers |-> FALSE]

\* An answer is addressed to nobody but those in the mail answered, and to all
\* of them if it is meant to be, one's own address aside.
LEMMA AnswerBoxes ==
  ASSUME NEW u \in Local, NEW m \in Mail, NEW all \in BOOLEAN
  PROVE  LET a == Answer(u, m, all) IN
         /\ a \in Submitted
         /\ a.from = AddressOf[u] /\ a.inReplyTo = m.id
         /\ Boxes(a) \subseteq Boxes(m) \cup {FromBox(m)}
         /\ all => Boxes(m) \ {PersonBox(u)} \subseteq Boxes(a)
         /\ m.from # AddressOf[u] => FromBox(m) \in Boxes(a)
<1> DEFINE to == Others(u, m.to)
           cc == Others(u, m.cc)
<1>1. /\ m.from \in Address \cup {BadAddress} /\ m.id \in NoteID
      /\ m.to \in Seq(Box) /\ m.cc \in Seq(Box)
  BY DEF Mail
<1>2. AddressOf[u] \in Address
  BY LocalAssumption DEF Verified
<1>3. /\ to \in Seq(Box) /\ Elems(to) = Elems(m.to) \ {PersonBox(u)}
      /\ cc \in Seq(Box) /\ Elems(cc) = Elems(m.cc) \ {PersonBox(u)}
  <2>1. Box \cap (Box \ {PersonBox(u)}) \subseteq Box
    OBVIOUS
  <2>2. Elems(m.to) \subseteq Box /\ Elems(m.cc) \subseteq Box
    BY <1>1 DEF Elems
  <2>3. /\ to \in Seq(Box \cap (Box \ {PersonBox(u)}))
        /\ Elems(to) = Elems(m.to) \cap (Box \ {PersonBox(u)})
    BY <1>1, KeptElems DEF Others
  <2>4. /\ cc \in Seq(Box \cap (Box \ {PersonBox(u)}))
        /\ Elems(cc) = Elems(m.cc) \cap (Box \ {PersonBox(u)})
    BY <1>1, KeptElems DEF Others
  <2> HIDE DEF to, cc
  <2> QED
    BY <2>2, <2>3, <2>4
<1> HIDE DEF to, cc
<1>4. /\ to \o cc \in Seq(Box) /\ Elems(to \o cc) = Elems(to) \cup Elems(cc)
      /\ <<FromBox(m)>> \in Seq(Box) /\ Elems(<<FromBox(m)>>) = {FromBox(m)}
      /\ Elems(<<>>) = {}
  <2>1. FromBox(m) \in Box
    BY <1>1 DEF FromBox, Box
  <2>2. to \o cc \in Seq(Box) /\ Elems(to \o cc) = Elems(to) \cup Elems(cc)
    BY <1>3, ElemsConcat
  <2>3. <<FromBox(m)>> \in Seq(Box) /\ Elems(<<FromBox(m)>>) = {FromBox(m)}
    BY <2>1 DEF Elems
  <2>4. Elems(<<>>) = {}
    BY DEF Elems
  <2> QED
    BY <2>2, <2>3, <2>4
<1>5. Answer(u, m, all) =
        [from |-> AddressOf[u], id |-> ClientID, inReplyTo |-> m.id,
         to |-> IF m.from = AddressOf[u] THEN to ELSE <<FromBox(m)>>,
         cc |-> IF ~all THEN <<>> ELSE IF m.from = AddressOf[u] THEN cc ELSE to \o cc]
  BY DEF Answer, to, cc, FromBox
<1> DEFINE a == Answer(u, m, all)
<1>6. /\ a.from = AddressOf[u] /\ a.inReplyTo = m.id /\ a.id = ClientID
      /\ a.to = IF m.from = AddressOf[u] THEN to ELSE <<FromBox(m)>>
      /\ a.cc = IF ~all THEN <<>> ELSE IF m.from = AddressOf[u] THEN cc ELSE to \o cc
      /\ a = [from |-> a.from, id |-> a.id, inReplyTo |-> a.inReplyTo,
              to |-> a.to, cc |-> a.cc]
  BY <1>5
<1> HIDE DEF a
<1>7. a.to \in Seq(Box) /\ a.cc \in Seq(Box)
  BY <1>3, <1>4, <1>6
<1>8. a \in Submitted
  BY <1>1, <1>2, <1>6, <1>7 DEF Submitted
<1>9. Boxes(a) \subseteq Boxes(m) \cup {FromBox(m)}
  BY <1>3, <1>4, <1>6 DEF Boxes
<1>10. all => Boxes(m) \ {PersonBox(u)} \subseteq Boxes(a)
  BY <1>3, <1>4, <1>6 DEF Boxes
<1>11. m.from # AddressOf[u] => FromBox(m) \in Boxes(a)
  BY <1>4, <1>6 DEF Boxes
<1> QED
  BY <1>6, <1>8, <1>9, <1>10, <1>11 DEF a

(***************************************************************************)
(* The inductive invariant                                                 *)
(***************************************************************************)

\* Activities from elsewhere are numbered as they are published.
Numbered ==
  /\ IsFiniteSet(written)
  /\ \A n \in written : n.id[1] = Elsewhere => n.id[2] <= Cardinality(written)

\* All mail, received or filed, is made of an activity that was published.
Sourced ==
  \A u \in Local : \A m \in mailbox[u] : \E p \in written : MarshalMail(p) = m

\* Each ID that was published names something that can be fetched.
Filed == \A n \in written : \E p \in published : p.id = n.id

\* What a user's activity is in reply to is in the user's mailbox.
Threaded ==
  \A n \in written :
    n.author \in Local /\ n.inReplyTo # NoID =>
      \E m \in mailbox[n.author] : m.id = n.inReplyTo

\* An activity that answers a mail is what was read from the answer to it.
Answered ==
  \A r \in replies :
    /\ r.note.author \in Local
    /\ Readable(Answer(r.note.author, r.mail, r.all))
    /\ r.note = Permit([UnmarshalMail(Answer(r.note.author, r.mail, r.all))
                          EXCEPT !.id = r.note.id])

IInv == TypeOK /\ Numbered /\ Filed /\ Sourced /\ Threaded /\ Answered

LEMMA LocalIsActor ==
  ASSUME NEW u \in Local
  PROVE  u \in Actor /\ AddressOf[u] \in Address /\ Resolves[AddressOf[u]] = u
  BY LocalAssumption DEF Verified

LEMMA InitInv == Init => IInv
<1> SUFFICES ASSUME Init PROVE IInv
  OBVIOUS
<1>1. TypeOK
  BY BoundAssumption DEF Init, TypeOK
<1>2. Numbered
  BY FS_EmptySet DEF Init, Numbered
<1> QED
  BY <1>1, <1>2 DEF Init, IInv, Filed, Sourced, Threaded, Answered

\* Publishing keeps the set finite, and counts.
LEMMA Published ==
  ASSUME IInv, NEW note, Publish(note)
  PROVE  /\ written' = written \cup {note}
         /\ published' \subseteq written'
         /\ Filed'
         /\ IsFiniteSet(written')
         /\ Cardinality(written) \in Nat /\ Cardinality(written') \in Nat
         /\ Cardinality(written) <= Cardinality(written')
         /\ Cardinality(written') <= MaxNotes
         /\ note \notin written => Cardinality(written') = Cardinality(written) + 1
<1>1. IsFiniteSet(written)
  BY DEF IInv, Numbered
<1>2. written' = written \cup {note} /\ Cardinality(written') <= MaxNotes
  BY DEF Publish
<1>3. /\ IsFiniteSet(written')
      /\ Cardinality(written') =
           IF note \in written THEN Cardinality(written) ELSE Cardinality(written) + 1
  BY <1>1, <1>2, FS_AddElement
<1>4. Cardinality(written) \in Nat
  BY <1>1, FS_CardinalityType
<1>5. published' = {p \in published : p.id # note.id} \cup {note}
  BY DEF Publish, Outbox
<1>6. published' \subseteq written'
  BY <1>2, <1>5 DEF IInv, TypeOK
<1>7. Filed'
  <2> SUFFICES ASSUME NEW n \in written' PROVE \E p \in published' : p.id = n.id
    BY DEF Filed
  <2>1. CASE n.id = note.id
    BY <2>1, <1>5
  <2>2. CASE n.id # note.id
    <3>1. PICK p \in published : p.id = n.id
      BY <2>2, <1>2 DEF IInv, Filed
    <3> QED
      BY <3>1, <2>2, <1>5
  <2> QED
    BY <2>1, <2>2
<1> QED
  BY <1>2, <1>3, <1>4, <1>6, <1>7

\* What others write has a number of its own.
LEMMA OthersInv == IInv /\ OthersWrite => IInv'
<1> SUFFICES ASSUME IInv, OthersWrite PROVE IInv'
  OBVIOUS
<1>0. TypeOK /\ Numbered /\ Filed /\ Sourced /\ Threaded /\ Answered
  BY DEF IInv
<1>1. PICK note :
        \E n \in Notes, S \in SUBSET Local, parent \in {NoID} \cup {p.id : p \in published} :
          /\ note = [author |-> n.author, to |-> n.to, cc |-> n.cc,
                     id |-> <<Elsewhere, Cardinality(written) + 1>>,
                     inReplyTo |-> parent]
          /\ Publish(note)
          /\ wire' = wire \cup [to : S, note : {note}]
  BY DEF OthersWrite
<1>1a. PICK n \in Notes, S \in SUBSET Local, parent \in {NoID} \cup {p.id : p \in published} :
        /\ note = [author |-> n.author, to |-> n.to, cc |-> n.cc,
                   id |-> <<Elsewhere, Cardinality(written) + 1>>,
                   inReplyTo |-> parent]
        /\ Publish(note)
        /\ wire' = wire \cup [to : S, note : {note}]
  BY <1>1
<1>2. UNCHANGED <<now, mailbox, replies>>
  BY DEF OthersWrite
<1>3. /\ note.author = n.author /\ note.to = n.to /\ note.cc = n.cc
      /\ note.id = <<Elsewhere, Cardinality(written) + 1>> /\ note.inReplyTo = parent
      /\ note = [author |-> note.author, to |-> note.to, cc |-> note.cc,
                 id |-> note.id, inReplyTo |-> note.inReplyTo]
  BY <1>1a
<1>4. /\ written' = written \cup {note}
      /\ IsFiniteSet(written')
      /\ Cardinality(written) \in Nat /\ Cardinality(written') \in Nat
      /\ Cardinality(written) <= Cardinality(written')
      /\ Cardinality(written') <= MaxNotes
      /\ published' \subseteq written' /\ Filed'
  BY <1>1a, Published
<1>5. note \notin written
  BY <1>0, <1>3, <1>4 DEF Numbered
<1>6. Cardinality(written') = Cardinality(written) + 1
  BY <1>1a, <1>5, Published
<1>7. note \in Note
  <2>1. note.id \in NoteID
    BY <1>3, <1>4, <1>6, BoundAssumption DEF NoteID
  <2>2. parent \in NoteID \cup {NoID}
    BY <1>0 DEF TypeOK, Note
  <2>3. n.author \in Actor /\ n.to \in Seq(Recipient) /\ n.cc \in Seq(Recipient)
    BY NotesAssumption
  <2> QED
    BY <1>3, <2>1, <2>2, <2>3 DEF Note
<1>8. note.author \notin Local
  BY <1>3, NotesAssumption
<1>9. TypeOK'
  BY <1>0, <1>1a, <1>2, <1>4, <1>7 DEF TypeOK
<1>10. Numbered'
  <2>1. note.id[2] = Cardinality(written')
    BY <1>3, <1>6
  <2>2. ASSUME NEW p \in written, p.id[1] = Elsewhere
        PROVE  p.id[2] <= Cardinality(written')
    <3>1. p.id \in NoteID
      BY <1>0 DEF TypeOK, Note
    <3>2. p.id[2] \in Nat
      BY <3>1, BoundAssumption DEF NoteID
    <3> QED
      BY <1>0, <1>4, <2>2, <3>2 DEF Numbered
  <2>3. ASSUME NEW p \in written', p.id[1] = Elsewhere
        PROVE  p.id[2] <= Cardinality(written')
    <3>1. CASE p \in written
      BY <3>1, <2>2, <2>3
    <3>2. CASE p = note
      BY <3>2, <2>1, <1>4
    <3> QED
      BY <3>1, <3>2, <1>4
  <2> QED
    BY <1>4, <2>3 DEF Numbered
<1>11. Sourced' /\ Threaded' /\ Answered'
  BY <1>0, <1>2, <1>4, <1>8 DEF Sourced, Threaded, Answered
<1> QED
  BY <1>4, <1>9, <1>10, <1>11 DEF IInv

\* A run of apsend: what it files is what its readers will have, and what it
\* publishes is what was read from the mail.
LEMMA SendInv ==
  ASSUME IInv, NEW u \in Local, NEW mail \in Submitted, mail.from = AddressOf[u],
         NEW bcc, NEW answering \in SUBSET [mail : mailbox[u], all : BOOLEAN],
         \A a \in answering : mail = Answer(u, a.mail, a.all),
         mail.inReplyTo # NoID => \E m \in mailbox[u] : m.id = mail.inReplyTo,
         Send(mail, bcc, answering)
  PROVE  IInv'
<1>0. TypeOK /\ Numbered /\ Filed /\ Sourced /\ Threaded /\ Answered
  BY DEF IInv
<1>1. u \in Actor /\ Resolves[mail.from] = u
  BY LocalIsActor
<1>2. PICK id : id = <<u, now>>
  OBVIOUS
<1>3. PICK note : note = [UnmarshalMail(mail) EXCEPT !.id = id]
  OBVIOUS
<1>4. PICK sent : sent = Permit(note)
  OBVIOUS
<1>5. /\ Readable(mail)
      /\ note.author \in Local
      /\ Publish(sent)
      /\ wire' = wire \cup [to : Inboxes(mail, bcc) \cap Local, note : {sent}]
      /\ \/ mailbox' = [mailbox EXCEPT ![note.author] = @ \cup {MarshalMail(note)}]
         \/ mailbox' = mailbox
      /\ replies' = replies \cup {[note |-> sent, mail |-> a.mail, all |-> a.all] :
                                    a \in answering}
      /\ now' = now
  BY <1>1, <1>2, <1>3, <1>4 DEF Send, FiledCopy
<1>6. id \in NoteID /\ id[1] # Elsewhere
  BY <1>0, <1>2, LocalAssumption DEF TypeOK, NoteID
<1>7. /\ note \in Note /\ note.author = u /\ note.id = id
      /\ note.inReplyTo = mail.inReplyTo
  BY <1>1, <1>3, <1>5, <1>6, ReadMail
<1>8. /\ sent \in Note /\ MarshalMail(sent) = MarshalMail(note)
      /\ sent.author = u /\ sent.id = id /\ sent.inReplyTo = mail.inReplyTo
  BY <1>4, <1>7, PermitHidden DEF Permit, Note
<1>9. MarshalMail(note) \in Mail
  BY <1>7, MailBoxes
<1>10. /\ written' = written \cup {sent}
       /\ IsFiniteSet(written')
       /\ Cardinality(written) \in Nat /\ Cardinality(written') \in Nat
       /\ Cardinality(written) <= Cardinality(written')
       /\ published' \subseteq written' /\ Filed'
  BY <1>5, Published
<1>11. /\ mailbox' \in [Local -> SUBSET Mail]
       /\ \A v \in Local : mailbox[v] \subseteq mailbox'[v]
       /\ \A v \in Local : mailbox'[v] \subseteq mailbox[v] \cup {MarshalMail(note)}
  BY <1>0, <1>5, <1>7, <1>9 DEF TypeOK
<1>12. \A r \in replies' :
         \/ r \in replies
         \/ \E a \in answering : r = [note |-> sent, mail |-> a.mail, all |-> a.all]
  BY <1>5
<1>13. TypeOK'
  <2>1. wire' \subseteq [to : Local, note : written']
    BY <1>0, <1>5, <1>10 DEF TypeOK
  <2>2. written' \subseteq Note
    BY <1>0, <1>8, <1>10 DEF TypeOK
  <2>3. \A a \in answering : a.mail \in mailbox[u] /\ a.mail \in Mail /\ a.all \in BOOLEAN
    BY <1>0 DEF TypeOK
  <2>4. ASSUME NEW r \in replies'
        PROVE  r \in [note : written', mail : Mail, all : BOOLEAN]
               /\ r.mail \in mailbox'[r.note.author]
    <3>1. CASE r \in replies
      <4>1. r \in [note : written, mail : Mail, all : BOOLEAN]
            /\ r.mail \in mailbox[r.note.author]
        BY <1>0, <3>1 DEF TypeOK
      <4>2. r.note.author \in Local
        BY <1>0, <3>1 DEF Answered
      <4> QED
        BY <4>1, <4>2, <1>10, <1>11
    <3>2. CASE \E a \in answering : r = [note |-> sent, mail |-> a.mail, all |-> a.all]
      BY <3>2, <2>3, <1>8, <1>10, <1>11
    <3> QED
      BY <3>1, <3>2, <1>12
  <2>5. now' \in 1..MaxSecond
    BY <1>0, <1>5 DEF TypeOK
  <2> QED
    BY <2>1, <2>2, <2>4, <2>5, <1>10, <1>11 DEF TypeOK
<1>14. Numbered'
  <2>1. ASSUME NEW p \in written, p.id[1] = Elsewhere
        PROVE  p.id[2] <= Cardinality(written')
    <3>1. p.id \in NoteID
      BY <1>0 DEF TypeOK, Note
    <3>2. p.id[2] \in Nat
      BY <3>1, BoundAssumption DEF NoteID
    <3> QED
      BY <1>0, <1>10, <2>1, <3>2 DEF Numbered
  <2> QED
    BY <1>6, <1>8, <1>10, <2>1 DEF Numbered
<1>15. Sourced'
  BY <1>0, <1>8, <1>10, <1>11 DEF Sourced
<1>16. Threaded'
  <2>1. ASSUME NEW n \in written', n.author \in Local, n.inReplyTo # NoID
        PROVE  \E m \in mailbox'[n.author] : m.id = n.inReplyTo
    <3>1. CASE n \in written
      BY <3>1, <2>1, <1>0, <1>11 DEF Threaded
    <3>2. CASE n = sent
      BY <3>2, <2>1, <1>8, <1>11
    <3> QED
      BY <3>1, <3>2, <1>10
  <2> QED
    BY <2>1 DEF Threaded
<1>17. Answered'
  <2>1. ASSUME NEW a \in answering, NEW r,
               r = [note |-> sent, mail |-> a.mail, all |-> a.all]
        PROVE  /\ r.note.author \in Local
               /\ Readable(Answer(r.note.author, r.mail, r.all))
               /\ r.note = Permit([UnmarshalMail(Answer(r.note.author, r.mail, r.all))
                                     EXCEPT !.id = r.note.id])
    <3>1. /\ r.note = sent /\ r.note.author = u /\ r.note.id = id
          /\ Answer(r.note.author, r.mail, r.all) = mail
      BY <2>1, <1>8
    <3> QED
      BY <3>1, <1>3, <1>4, <1>5
  <2> QED
    BY <2>1, <1>0, <1>12 DEF Answered
<1> QED
  BY <1>10, <1>13, <1>14, <1>15, <1>16, <1>17 DEF IInv

LEMMA WriteInv == ASSUME NEW u \in Local PROVE IInv /\ Write(u) => IInv'
<1> SUFFICES ASSUME IInv, Write(u) PROVE IInv'
  OBVIOUS
<1>1. PICK d \in Drafts, bcc \in Bcc :
        Send([from |-> AddressOf[u], to |-> d.to, cc |-> d.cc, id |-> ClientID,
              inReplyTo |-> NoID], bcc, {})
  BY DEF Write
<1>1m. PICK mail : mail = [from |-> AddressOf[u], to |-> d.to, cc |-> d.cc, id |-> ClientID,
                          inReplyTo |-> NoID]
  OBVIOUS
<1>2. mail \in Submitted /\ mail.from = AddressOf[u] /\ mail.inReplyTo = NoID
  BY <1>1m, LocalIsActor, DraftsAssumption DEF Submitted
<1>3. Send(mail, bcc, {})
  BY <1>1, <1>1m
<1> QED
  BY <1>2, <1>3, SendInv

LEMMA ReplyInv == ASSUME NEW u \in Local PROVE IInv /\ Reply(u) => IInv'
<1> SUFFICES ASSUME IInv, Reply(u) PROVE IInv'
  OBVIOUS
<1>1. PICK m \in mailbox[u], all \in BOOLEAN :
        Send(Answer(u, m, all), {}, {[mail |-> m, all |-> all]})
  BY DEF Reply
<1>2. m \in Mail
  BY DEF IInv, TypeOK
<1>3. /\ Answer(u, m, all) \in Submitted
      /\ Answer(u, m, all).from = AddressOf[u]
      /\ Answer(u, m, all).inReplyTo = m.id
  BY <1>2, AnswerBoxes
<1> QED
  BY <1>1, <1>3, SendInv

LEMMA RelayInv == ASSUME NEW u \in Local PROVE IInv /\ Relay(u) => IInv'
<1> SUFFICES ASSUME IInv, Relay(u) PROVE IInv'
  OBVIOUS
<1>0. TypeOK /\ Numbered /\ Filed /\ Sourced /\ Threaded /\ Answered
  BY DEF IInv
<1>1. PICK p \in wire :
        /\ mailbox' = [mailbox EXCEPT ![u] = @ \cup {MarshalMail(p.note)}]
        /\ UNCHANGED <<now, published, wire, written, replies>>
  BY DEF Relay
<1>2. p.note \in written /\ p.note \in Note /\ MarshalMail(p.note) \in Mail
  BY <1>0, MailBoxes DEF TypeOK
<1>3. /\ mailbox' \in [Local -> SUBSET Mail]
      /\ \A v \in Local : mailbox[v] \subseteq mailbox'[v]
      /\ \A v \in Local : mailbox'[v] \subseteq mailbox[v] \cup {MarshalMail(p.note)}
  BY <1>0, <1>1, <1>2 DEF TypeOK
<1>4. \A r \in replies : r.mail \in mailbox'[r.note.author]
  BY <1>0, <1>3 DEF TypeOK, Answered
<1>5. TypeOK'
  BY <1>0, <1>1, <1>3, <1>4 DEF TypeOK
<1> QED
  BY <1>0, <1>1, <1>2, <1>3, <1>5 DEF IInv, Numbered, Filed, Sourced, Threaded, Answered

LEMMA StepInv == IInv /\ [Next]_vars => IInv'
<1> SUFFICES ASSUME IInv, [Next]_vars PROVE IInv'
  OBVIOUS
<1>1. CASE Tick
  <2>1. UNCHANGED <<published, wire, mailbox, written, replies>>
    BY <1>1 DEF Tick
  <2>2. now' \in 1..MaxSecond
    BY <1>1, BoundAssumption DEF Tick, IInv, TypeOK
  <2>3. TypeOK'
    BY <2>1, <2>2 DEF IInv, TypeOK
  <2> QED
    BY <2>1, <2>3 DEF IInv, Tick, Numbered, Filed, Sourced, Threaded, Answered
<1>2. CASE UNCHANGED vars
  BY <1>2 DEF IInv, vars, TypeOK, Numbered, Filed, Sourced, Threaded, Answered
<1> QED
  BY <1>1, <1>2, OthersInv, WriteInv, ReplyInv, RelayInv DEF Next

LEMMA Invariance == Spec => []IInv
  BY InitInv, StepInv, PTL DEF Spec

(***************************************************************************)
(* An answer to mail                                                       *)
(***************************************************************************)

\* Who has the address that somebody named only seems to have.
Mistaken(p) == {Resolves[AddressOf[a]] :
                  a \in {b \in Named(p) \ Verified : AddressOf[b] \in Address}}

\* An address in a mail made of p stands for somebody p names, or is mistaken.
LEMMA StandsFor ==
  ASSUME NEW p \in Note, NEW b, Found(b.addr),
         \/ \E a \in Named(p) : b = PersonBox(a)
         \/ \E o \in Named(p) : Followers[o] \in Addressed(p) /\ b = FollowersBox(o)
  PROVE  /\ Addressee(b) \in Actor => Addressee(b) \in Named(p) \cup Mistaken(p)
         /\ Addressee(b) \in Collection =>
              Addressee(b) \in Addressed(p) \cup {Followers[a] : a \in Mistaken(p)}
<1>0. Named(p) \subseteq Actor
  BY DEF Named, Note
<1>1. ASSUME NEW a \in Named(p), b = PersonBox(a) \/ b = FollowersBox(a)
      PROVE  IF a \in Verified THEN Resolves[b.addr] = a
                               ELSE Resolves[b.addr] \in Mistaken(p)
  <2>1. b.addr = AddressOf[a] /\ AddressOf[a] \in Address
    BY <1>1 DEF PersonBox, FollowersBox, Found
  <2> QED
    BY <2>1, <1>0 DEF Mistaken, Verified
<1>2. CASE \E a \in Named(p) : b = PersonBox(a)
  <2>1. PICK a \in Named(p) : b = PersonBox(a)
    BY <1>2
  <2>2. Addressee(b) = Resolves[b.addr]
    BY <2>1 DEF Addressee, PersonBox
  <2>3. Addressee(b) \in Named(p) \cup Mistaken(p)
    BY <1>1, <2>1, <2>2
  <2>4. Addressee(b) \in Actor
    BY <2>2, DirectoryAssumption DEF Found
  <2> QED
    BY <2>3, <2>4, DirectoryAssumption
<1>3. CASE \E o \in Named(p) : Followers[o] \in Addressed(p) /\ b = FollowersBox(o)
  <2>1. PICK o \in Named(p) : Followers[o] \in Addressed(p) /\ b = FollowersBox(o)
    BY <1>3
  <2>2. Addressee(b) = Followers[Resolves[b.addr]]
    BY <2>1 DEF Addressee, FollowersBox
  <2>3. Addressee(b) \in Addressed(p) \cup {Followers[a] : a \in Mistaken(p)}
    BY <1>1, <2>1, <2>2
  <2>4. Addressee(b) \in Collection \cup {NoID}
    BY <2>2, DirectoryAssumption DEF Found
  <2> QED
    BY <2>3, <2>4, DirectoryAssumption
<1> QED
  BY <1>2, <1>3

\* What an answer to the mail made of p publishes, and for whom.
LEMMA AnswerReaches ==
  ASSUME NEW p \in Note, NEW u \in Local, NEW all \in BOOLEAN, NEW id \in NoteID, NEW n,
         Readable(Answer(u, MarshalMail(p), all)),
         n = Permit([UnmarshalMail(Answer(u, MarshalMail(p), all)) EXCEPT !.id = id])
  PROVE  /\ n.author = u
         /\ Named(n) \ {u} \subseteq Named(p) \cup Mistaken(p)
         /\ Addressed(n) \cap Collection
              \subseteq Addressed(p) \cup {Followers[a] : a \in Mistaken(p)}
         /\ all => (Named(p) \cap Verified) \subseteq Named(n)
         /\ all => \A c \in (Addressed(p) \cap Collection) \ Dropped(p) :
                     (\A a \in Actor : Followers[a] = c => a \in Verified)
                       => c \in Addressed(n)
<1>1. PICK m : m = MarshalMail(p)
  OBVIOUS
<1>2. PICK a : a = Answer(u, m, all)
  OBVIOUS
<1>3. PICK read : read = [UnmarshalMail(a) EXCEPT !.id = id]
  OBVIOUS
<1>4. /\ m \in Mail
      /\ \A b \in Boxes(m) :
           \/ \E x \in Addressed(p) \cap Actor : b = PersonBox(x)
           \/ \E o \in Named(p) : Followers[o] \in Addressed(p) /\ b = FollowersBox(o)
      /\ \A x \in Addressed(p) \cap Actor : PersonBox(x) \in Boxes(m)
      /\ \A c \in (Addressed(p) \cap Collection) \ Dropped(p) :
           \E o \in Actor : Followers[o] = c /\ FollowersBox(o) \in Boxes(m)
  BY <1>1, MailBoxes
<1>5. /\ a \in Submitted
      /\ a.from = AddressOf[u] /\ a.inReplyTo = m.id
      /\ Boxes(a) \subseteq Boxes(m) \cup {FromBox(m)}
      /\ all => Boxes(m) \ {PersonBox(u)} \subseteq Boxes(a)
      /\ m.from # AddressOf[u] => FromBox(m) \in Boxes(a)
  BY <1>2, <1>4, AnswerBoxes
<1>6. Readable(a) /\ n = Permit(read)
  BY <1>1, <1>2, <1>3
<1>7. /\ read \in Note /\ read.author = u
      /\ Addressed(read) = {Addressee(b) : b \in Boxes(a)}
  BY <1>3, <1>5, <1>6, ReadMail, LocalIsActor
<1>8. /\ n.author = u
      /\ Addressed(n) = Addressed(read) \cup {Public}
  <2>1. /\ n.author = read.author /\ n.cc = read.cc /\ n.to = Append(read.to, Public)
        /\ read.to \in Seq(Recipient) /\ Public \in Recipient
    BY <1>6, <1>7 DEF Permit, Note, Recipient
  <2>2. Elems(n.to) = Elems(read.to) \cup {Public}
    <3>1. \A s \in Seq(Recipient) : Elems(Append(s, Public)) = Elems(s) \cup {Public}
      BY <2>1, ElemsAppend
    <3> QED
      BY <2>1, <3>1
  <2> QED
    BY <2>1, <2>2, <1>7 DEF Addressed
<1>9. p.author \in Actor /\ p.author \in Named(p) /\ FromBox(m) = PersonBox(p.author)
      /\ m.from = AddressOf[p.author] /\ Named(p) \subseteq Actor
  BY <1>1 DEF Note, Named, MarshalMail, FromBox, PersonBox
<1>10. Public \notin Actor /\ Public \notin Collection
  BY DirectoryAssumption
<1>11. \A b \in Boxes(a) : Found(b.addr)
  BY <1>6 DEF Readable, Boxes
<1>12. \A b \in Boxes(a) :
         /\ Addressee(b) \in Actor => Addressee(b) \in Named(p) \cup Mistaken(p)
         /\ Addressee(b) \in Collection =>
              Addressee(b) \in Addressed(p) \cup {Followers[x] : x \in Mistaken(p)}
  <2> SUFFICES ASSUME NEW b \in Boxes(a)
               PROVE  /\ Addressee(b) \in Actor => Addressee(b) \in Named(p) \cup Mistaken(p)
                      /\ Addressee(b) \in Collection =>
                           Addressee(b) \in Addressed(p)
                                              \cup {Followers[x] : x \in Mistaken(p)}
    OBVIOUS
  <2>1. \/ \E x \in Named(p) : b = PersonBox(x)
        \/ \E o \in Named(p) : Followers[o] \in Addressed(p) /\ b = FollowersBox(o)
    BY <1>4, <1>5, <1>9 DEF Named
  <2> QED
    BY <2>1, <1>11, StandsFor
<1>13. Named(n) \ {u} \subseteq Named(p) \cup Mistaken(p)
  BY <1>7, <1>8, <1>10, <1>12 DEF Named
<1>14. Addressed(n) \cap Collection
         \subseteq Addressed(p) \cup {Followers[x] : x \in Mistaken(p)}
  BY <1>7, <1>8, <1>10, <1>12
<1>15. ASSUME all, NEW x \in Named(p) \cap Verified PROVE x \in Named(n)
  <2>1. x \in Actor /\ Addressee(PersonBox(x)) = x
    BY DEF Verified, Addressee, PersonBox
  <2>2. CASE PersonBox(x) = PersonBox(u)
    <3>1. AddressOf[x] = AddressOf[u]
      BY <2>2 DEF PersonBox
    <3>2. x = u
      BY <3>1, <1>15, LocalIsActor DEF Verified
    <3> QED
      BY <3>2, <1>8 DEF Named
  <2>3. CASE PersonBox(x) # PersonBox(u)
    <3>1. AddressOf[x] # AddressOf[u]
      BY <2>3 DEF PersonBox
    <3>2. PersonBox(x) \in Boxes(a)
      BY <1>4, <1>5, <1>9, <1>15, <2>1, <2>3, <3>1 DEF Named
    <3> QED
      BY <3>2, <2>1, <1>7, <1>8 DEF Named
  <2> QED
    BY <2>2, <2>3
<1>16. ASSUME all, NEW c \in (Addressed(p) \cap Collection) \ Dropped(p),
              \A x \in Actor : Followers[x] = c => x \in Verified
       PROVE  c \in Addressed(n)
  <2>1. PICK o \in Actor : Followers[o] = c /\ FollowersBox(o) \in Boxes(m)
    BY <1>4
  <2>2. FollowersBox(o) # PersonBox(u)
    BY DEF FollowersBox, PersonBox
  <2>3. FollowersBox(o) \in Boxes(a)
    BY <1>5, <1>16, <2>1, <2>2
  <2>4. Addressee(FollowersBox(o)) = c
    BY <1>16, <2>1 DEF Addressee, FollowersBox, Verified
  <2> QED
    BY <2>3, <2>4, <1>7, <1>8
<1> QED
  BY <1>8, <1>13, <1>14, <1>15, <1>16

(***************************************************************************)
(* Theorems                                                                *)
(***************************************************************************)

\* Activities, POSTs, mail and answers are of their types.
THEOREM TypeCorrect == Spec => []TypeOK
<1>1. IInv => TypeOK
  BY DEF IInv
<1> QED
  BY <1>1, Invariance, PTL

\* Everybody who has an activity as mail has the same mail, its author's copy
\* included: marshalMail hides what permitting it for the public adds.
THEOREM AllHaveOneMail == Spec => []OneMail
<1>1. IInv => OneMail
  BY DEF IInv, TypeOK, Sourced, OneMail, Reused, MarshalMail
<1> QED
  BY <1>1, Invariance, PTL

\* What a user's activity is in reply to is mail of theirs, and the activity that
\* mail was made of is what the ID fetches; if a second has taken its file, one of
\* the two.
THEOREM ThreadsAreWhole == Spec => []ThreadsHold
<1>1. IInv => ThreadsHold
  <2> SUFFICES ASSUME IInv, NEW n \in written, n.author \in Local, n.inReplyTo # NoID
               PROVE  \E m \in mailbox[n.author], p \in published :
                        /\ m.id = n.inReplyTo /\ p.id = m.id
                        /\ MarshalMail(p) = m \/ Reused(m.id)
    BY DEF ThreadsHold
  <2>1. PICK m \in mailbox[n.author] : m.id = n.inReplyTo
    BY DEF IInv, Threaded
  <2>2. PICK q \in written : MarshalMail(q) = m
    BY DEF IInv, Sourced
  <2>3. q.id = m.id
    BY <2>2 DEF MarshalMail
  <2>4. PICK p \in published : p.id = q.id
    BY DEF IInv, Filed
  <2>5. p \in written
    BY DEF IInv, TypeOK
  <2>6. p = q \/ Reused(m.id)
    BY <2>3, <2>4, <2>5 DEF Reused
  <2> QED
    BY <2>1, <2>2, <2>3, <2>4, <2>6
<1> QED
  BY <1>1, Invariance, PTL

\* An answer of a reply made of p is as AnswerReaches says.
LEMMA AnswersReach ==
  ASSUME IInv, NEW r \in replies, NEW p \in Sources(r.mail)
  PROVE  /\ Named(r.note) \ {r.note.author} \subseteq Named(p) \cup Mistaken(p)
         /\ Addressed(r.note) \cap Collection
              \subseteq Addressed(p) \cup {Followers[a] : a \in Mistaken(p)}
         /\ r.all => (Named(p) \cap Verified) \subseteq Named(r.note)
         /\ r.all => \A c \in (Addressed(p) \cap Collection) \ Dropped(p) :
                       (\A a \in Actor : Followers[a] = c => a \in Verified)
                         => c \in Addressed(r.note)
<1>1. p \in Note /\ MarshalMail(p) = r.mail
  BY DEF IInv, TypeOK, Sources
<1>2. r.note \in Note /\ r.all \in BOOLEAN
  BY DEF IInv, TypeOK
<1>3. r.note.id \in NoteID
  BY <1>2 DEF Note
<1>4. /\ r.note.author \in Local
      /\ Readable(Answer(r.note.author, MarshalMail(p), r.all))
      /\ r.note = Permit([UnmarshalMail(Answer(r.note.author, MarshalMail(p), r.all))
                            EXCEPT !.id = r.note.id])
  BY <1>1 DEF IInv, Answered
<1> QED
  BY <1>1, <1>2, <1>3, <1>4, AnswerReaches

\* An answer to all reaches everybody named in what it answers, and every
\* followers collection its mail shows, if their addresses are theirs.
THEOREM AnswersReachAll == Spec => []ReplyReachesAll
<1>1. IInv => ReplyReachesAll
  BY AnswersReach DEF ReplyReachesAll
<1> QED
  BY <1>1, Invariance, PTL

\* An answer reaches nobody else, but for mistaken addresses.
THEOREM AnswersReachNoStrangers == Spec => []NoStrangers
<1>1. IInv => NoStrangers
  BY AnswersReach DEF NoStrangers, Mistaken
<1> QED
  BY <1>1, Invariance, PTL

(***************************************************************************)
(* Mail that can be answered                                               *)
(***************************************************************************)

\* Whoever an address resolves to has an address that resolves, perhaps
\* another.  Nothing in the code says so of other servers, hence it is a
\* hypothesis of the theorem that needs it.
DirectoryIsClosed ==
  \A d \in Address : Resolves[d] # NoID => Found(AddressOf[Resolves[d]])

\* Every mail in a mailbox can be read back.
Legible == \A u \in Local : \A m \in mailbox[u] : Readable(m)

\* A mail made of an activity whose actors can all be found is readable.
LEMMA FoundIsReadable ==
  ASSUME NEW n \in Note, \A a \in Named(n) : Found(AddressOf[a])
  PROVE  Readable(MarshalMail(n))
<1>1. \A b \in Boxes(MarshalMail(n)) : \E a \in Named(n) : b.addr = AddressOf[a]
  BY MailBoxes DEF Named, PersonBox, FollowersBox
<1>2. MarshalMail(n).from = AddressOf[n.author] /\ n.author \in Named(n)
  BY DEF MarshalMail, Named
<1> QED
  BY <1>1, <1>2 DEF Readable, Boxes

\* A copy is made of an activity whose actors WebFinger has found.
LEMMA SendLegible ==
  ASSUME DirectoryIsClosed, IInv, Legible, NEW u \in Local, NEW mail \in Submitted,
         mail.from = AddressOf[u], NEW bcc, NEW answering, Send(mail, bcc, answering)
  PROVE  Legible'
<1>1. PICK id : id = <<u, now>>
  OBVIOUS
<1>2. PICK note : note = [UnmarshalMail(mail) EXCEPT !.id = id]
  OBVIOUS
<1>3. /\ Readable(mail)
      /\ note.author \in Local
      /\ \/ mailbox' = [mailbox EXCEPT ![note.author] = @ \cup {MarshalMail(note)}]
         \/ mailbox' = mailbox
  BY <1>1, <1>2, LocalIsActor DEF Send, FiledCopy
<1>4. id \in NoteID
  BY <1>1 DEF IInv, TypeOK, NoteID
<1>5. /\ note \in Note /\ note.author = u
      /\ Addressed(note) = {Addressee(b) : b \in Boxes(mail)}
  BY <1>2, <1>3, <1>4, ReadMail, LocalIsActor
<1>6. ASSUME NEW a \in Addressed(note) \cap Actor
      PROVE  Found(AddressOf[a])
  <2>1. PICK b \in Boxes(mail) : a = Addressee(b)
    BY <1>5
  <2>2. Found(b.addr) /\ Resolves[b.addr] \in Actor
    BY <1>3, DirectoryAssumption DEF Readable, Boxes, Found
  <2>3. a = Resolves[b.addr]
    BY <2>1, <2>2, <1>6, DirectoryAssumption DEF Addressee
  <2> QED
    BY <2>2, <2>3 DEF DirectoryIsClosed, Found
<1>7. Found(AddressOf[u])
  BY LocalIsActor, DirectoryAssumption DEF Found
<1>8. Readable(MarshalMail(note))
  BY <1>5, <1>6, <1>7, FoundIsReadable DEF Named
<1> QED
  BY <1>3, <1>8 DEF Legible, IInv, TypeOK

LEMMA LegibleStep ==
  ASSUME DirectoryIsClosed
  PROVE  IInv /\ Legible /\ [Next]_vars => Legible'
<1> SUFFICES ASSUME IInv, Legible, [Next]_vars PROVE Legible'
  OBVIOUS
<1>1. CASE OthersWrite \/ Tick \/ UNCHANGED vars
  BY <1>1 DEF OthersWrite, Tick, vars, Legible
<1>2. ASSUME NEW u \in Local, Write(u) PROVE Legible'
  <2>1. PICK d \in Drafts, bcc \in Bcc :
          Send([from |-> AddressOf[u], to |-> d.to, cc |-> d.cc, id |-> ClientID,
                inReplyTo |-> NoID], bcc, {})
    BY <1>2 DEF Write
  <2>2. PICK mail : mail = [from |-> AddressOf[u], to |-> d.to, cc |-> d.cc,
                            id |-> ClientID, inReplyTo |-> NoID]
    OBVIOUS
  <2>3. mail \in Submitted /\ mail.from = AddressOf[u]
    BY <2>2, LocalIsActor, DraftsAssumption DEF Submitted
  <2>4. Send(mail, bcc, {})
    BY <2>1, <2>2
  <2> QED
    BY <2>3, <2>4, SendLegible
<1>3. ASSUME NEW u \in Local, Reply(u) PROVE Legible'
  <2>1. PICK m \in mailbox[u], all \in BOOLEAN :
          Send(Answer(u, m, all), {}, {[mail |-> m, all |-> all]})
    BY <1>3 DEF Reply
  <2>2. m \in Mail
    BY DEF IInv, TypeOK
  <2>3. Answer(u, m, all) \in Submitted /\ Answer(u, m, all).from = AddressOf[u]
    BY <2>2, AnswerBoxes
  <2> QED
    BY <2>1, <2>3, SendLegible
<1>4. ASSUME NEW u \in Local, Relay(u) PROVE Legible'
  BY <1>4 DEF Relay, Deliverable, Legible, IInv, TypeOK
<1> QED
  BY <1>1, <1>2, <1>3, <1>4 DEF Next

\* Mail that is received or filed can be answered to all, unless it is to the
\* followers of an address whose owner has none.  Received mail is read before
\* it is delivered; copies need a directory that is closed.
THEOREM MailCanBeAnswered ==
  ASSUME DirectoryIsClosed PROVE Spec => []Answerable
<1>1. Init => Legible
  BY DEF Init, Legible
<1>2. IInv /\ Legible => Answerable
  <2> SUFFICES ASSUME IInv, Legible, NEW u \in Local, NEW m \in mailbox[u], NEW reply,
                      reply = Answer(u, m, TRUE)
               PROVE  /\ Readable(reply)
                      /\ CanMarshal(UnmarshalMail(reply)) \/
                           \E b \in Boxes(reply) :
                             b.followers /\ Followers[Resolves[b.addr]] = NoID
    BY DEF Answerable, Boxes
  <2>1. m \in Mail /\ Readable(m)
    BY DEF IInv, TypeOK, Legible
  <2>2. reply \in Submitted /\ reply.from = AddressOf[u]
        /\ Boxes(reply) \subseteq Boxes(m) \cup {FromBox(m)}
    BY <2>1, AnswerBoxes
  <2>3. Readable(reply)
    <3>1. Found(reply.from)
      BY <2>2, LocalIsActor, DirectoryAssumption DEF Found
    <3>2. Found(m.from) /\ \A b \in Boxes(m) : Found(b.addr)
      BY <2>1 DEF Readable, Boxes
    <3>3. FromBox(m).addr = m.from
      BY DEF FromBox
    <3>4. \A b \in Boxes(reply) : Found(b.addr)
      BY <2>2, <3>2, <3>3
    <3> QED
      BY <3>1, <3>4 DEF Readable, Boxes
  <2>4. ASSUME ~ \E b \in Boxes(reply) :
                   b.followers /\ Followers[Resolves[b.addr]] = NoID
        PROVE  CanMarshal(UnmarshalMail(reply))
    <3>1. PICK id : id \in NoteID
      BY <2>1 DEF Mail
    <3>2. PICK note : note = [UnmarshalMail(reply) EXCEPT !.id = id]
      OBVIOUS
    <3>3. note.author = u /\ Addressed(note) = {Addressee(b) : b \in Boxes(reply)}
      BY <2>2, <2>3, <3>1, <3>2, ReadMail, LocalIsActor
    <3>4. UnmarshalMail(reply).author = note.author
          /\ UnmarshalMail(reply).to = note.to /\ UnmarshalMail(reply).cc = note.cc
      BY <3>2 DEF UnmarshalMail
    <3>5. ASSUME NEW b \in Boxes(reply) PROVE Addressee(b) # NoID
      <4>1. Found(b.addr)
        BY <2>3 DEF Readable, Boxes
      <4> QED
        BY <4>1, <2>4 DEF Addressee, Found
    <3> QED
      BY <3>3, <3>4, <3>5, LocalIsActor DEF CanMarshal, Addressed
  <2> QED
    BY <2>3, <2>4
<1> QED
  BY <1>1, <1>2, LegibleStep, Invariance, InitInv, StepInv, PTL DEF Spec
=============================================================================
