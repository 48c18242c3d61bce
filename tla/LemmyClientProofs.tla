------------------------- MODULE LemmyClientProofs -------------------------
(***************************************************************************)
(* What is proved of LemmyClient, for any number of goroutines, posts and  *)
(* communities, any edits and any max-age.                                 *)
(***************************************************************************)
EXTENDS LemmyClient, SequenceTheorems, TLAPS

(***************************************************************************)
(* The inductive invariant                                                 *)
(***************************************************************************)

\* The instance has, or had, this revision.
IsTrue(v) == v.of \in Kept => v.rev \in 1..rev[v.of]

\* What a lookup found and will delete is what it looked up.
FoundInv(c) == IF IsPost(c) THEN found[c].post.of = key[c]
                            ELSE found[c].community.of = key[c]

\* The instance's leave for it covers the age that came with c's answer.
Allowed(c, v) == v.of \in Kept => answered[c] + age[c] <= until[v]

\* So it has, or had, all that is yet to store, and allows c to keep it.
AnswerInv(c) ==
  \A i \in DOMAIN answer[c] : \A v \in {answer[c][i].post, answer[c][i].community} :
    IsTrue(v) /\ Allowed(c, v)

CallInv(c) ==
  /\ pc[c] \in {"read", "delete", "deleting"} => key[c] \in Key
  /\ pc[c] \in {"delete", "deleting"} => FoundInv(c)
  /\ pc[c] \in {"store", "storing"} => answer[c] # <<>>
  /\ AnswerInv(c)
  /\ began[c] <= now
  /\ answered[c] <= now

\* An entry expires no later than the leave for what it holds, and the delay.
Within(v, t) == v.of \in Kept => t <= until[v] + late
Permitted ==
  /\ \A k \in PostKey : posts[k] # None => Within(posts[k].post, posts[k].expiry)
  /\ \A k \in CommunityKey : communities[k] # None =>
       Within(communities[k].community, communities[k].expiry)

CallsKept == \A c \in Caller : CallInv(c)
CacheKept == EntriesAreTrue /\ Permitted
IInv      == TypeOK /\ CallsKept /\ CacheKept /\ ExpiredIsDropped

(***************************************************************************)
(* Values                                                                  *)
(***************************************************************************)
Value == PostValue \cup CommunityValue

LEMMA RevIsNat == Rev \subseteq Nat /\ Time \subseteq Nat /\ 0 \in Rev /\ 0 \in Time
BY BoundAssumption DEF Rev, Time

LEMMA TimesAreNat ==
  ASSUME TypeOK, NEW c \in Caller
  PROVE  began[c] \in Nat /\ answered[c] \in Nat /\ age[c] \in Nat
<1>1. began[c] \in Time /\ answered[c] \in Time /\ age[c] \in Nat
  BY DEF TypeOK
<1> QED
  BY <1>1, RevIsNat

LEMMA NothingType ==
  /\ NoPost \in PostValue /\ NoCommunity \in CommunityValue
  /\ NoPost.of = Zero /\ NoCommunity.of = AtSign
  /\ Zero \notin Kept /\ AtSign \notin Kept
BY RevIsNat, KeyAssumption
DEF NoPost, NoCommunity, PostValue, CommunityValue, PostKey, CommunityKey, Kept

LEMMA SentType == \A v \in Value : v.of \in Kept => v \in Sent
BY DEF Value, PostValue, CommunityValue, Sent

\* A pair that cache.store may be called with: it is that of whatever it holds.
Clean(p) ==
  /\ p \in Pair
  /\ \A v \in {p.post, p.community} : IsTrue(v) /\ (v.of \in Kept => p = AsPair(v))

\* A value there is, and the pair cache.store is called with for it.
LEMMA CurrentType ==
  ASSUME TypeOK, NEW t, There(t)
  PROVE  Current(t) \in Value /\ Clean(AsPair(Current(t)))
<1>1. t \in Kept /\ rev[t] \in 1..MaxRev /\ rev[t] \in Rev
  BY DEF There, TypeOK
<1>2. 1 <= rev[t] /\ rev[t] \in 1..rev[t]
  BY <1>1, RevIsNat
<1>3. CASE t \in ID
  <2>1. Current(t) \in PostValue /\ Current(t).of \in PostKey
    BY <1>1, <1>3 DEF Current, PostValue, PostKey
  <2> QED
    BY <1>2, <2>1, NothingType DEF Value, AsPair, Pair, IsTrue, Current, Clean
<1>4. CASE t \in Name
  <2>1. Current(t) \in CommunityValue /\ Current(t).of \notin PostKey
    BY <1>1, <1>4, KeyAssumption DEF Current, CommunityValue, CommunityKey
  <2> QED
    BY <1>2, <2>1, NothingType DEF Value, AsPair, Pair, IsTrue, Current, Clean
<1> QED
  BY <1>1, <1>3, <1>4 DEF Kept

LEMMA NothingPair == Clean(AsPair(NoPost))
BY NothingType DEF AsPair, Pair, IsTrue, PostKey, Clean

\* What Store takes from an answer, and the entries it makes of it.
LEMMA NextPair ==
  ASSUME IInv, NEW c \in Caller, pc[c] = "storing"
  PROVE  /\ Head(answer[c]) \in Pair
         /\ \A v \in {Head(answer[c]).post, Head(answer[c]).community} :
              IsTrue(v) /\ (v.of \in Kept => Expiry(c) <= until[v] + (now - answered[c]))
         /\ now - answered[c] \in Nat
         /\ Tail(answer[c]) \in Seq(Pair)
         /\ \A i \in DOMAIN Tail(answer[c]) :
              i + 1 \in DOMAIN answer[c] /\ Tail(answer[c])[i] = answer[c][i + 1]
         /\ Expiry(c) \in Nat /\ now <= Expiry(c)
<1>1. answer[c] \in Seq(Pair) /\ answer[c] # <<>> /\ CallInv(c)
  BY DEF IInv, TypeOK, CallsKept, CallInv
<1>2. /\ Head(answer[c]) = answer[c][1] /\ 1 \in DOMAIN answer[c]
      /\ Tail(answer[c]) \in Seq(Pair) /\ Head(answer[c]) \in Pair
      /\ \A i \in DOMAIN Tail(answer[c]) :
           i + 1 \in DOMAIN answer[c] /\ Tail(answer[c])[i] = answer[c][i + 1]
  <2> DEFINE s == answer[c]
  <2>1. /\ s \in Seq(Pair) /\ Len(s) \in Nat /\ Len(s) # 0 /\ DOMAIN s = 1..Len(s)
    BY <1>1, LenProperties, EmptySeq
  <2>2. /\ Head(s) = s[1] /\ Tail(s) \in Seq(Pair) /\ Len(Tail(s)) = Len(s) - 1
        /\ \A i \in 1..Len(Tail(s)) : Tail(s)[i] = s[i + 1]
    BY <1>1, HeadTailProperties
  <2> HIDE DEF s
  <2>3. DOMAIN Tail(s) = 1..Len(s) - 1
    BY <2>2, LenProperties
  <2>4. 1 \in DOMAIN s /\ s[1] \in Pair
    BY <2>1, ElementOfSeq
  <2> QED
    BY <2>1, <2>2, <2>3, <2>4 DEF s
<1>3. now \in Nat /\ age[c] \in Nat /\ answered[c] \in Nat /\ answered[c] <= now
  BY <1>1, RevIsNat DEF IInv, TypeOK, CallInv
<1>4. Expiry(c) \in Nat /\ now <= Expiry(c) /\ now - answered[c] \in Nat
  BY <1>3 DEF Expiry
<1>5. ASSUME NEW v \in {Head(answer[c]).post, Head(answer[c]).community}
      PROVE  IsTrue(v) /\ (v.of \in Kept => Expiry(c) <= until[v] + (now - answered[c]))
  <2>1. IsTrue(v) /\ Allowed(c, v)
    BY <1>1, <1>2, <1>5 DEF CallInv, AnswerInv
  <2>2. v.of \in Kept => until[v] \in Nat
    BY <1>2, SentType DEF IInv, TypeOK, Pair, Value
  <2> QED
    BY <1>3, <2>1, <2>2 DEF Allowed, Expiry
<1> QED
  BY <1>2, <1>4, <1>5

\* What Read finds.
LEMMA CachedType ==
  ASSUME IInv, NEW c \in Caller, pc[c] = "read", Cached(c) # None
  PROVE  /\ Cached(c) \in Entry
         /\ IF IsPost(c) THEN Cached(c).post.of = key[c]
                         ELSE Cached(c).community.of = key[c]
         /\ LET v == IF IsPost(c) THEN Cached(c).post ELSE Cached(c).community
            IN v \in Value /\ v.of = key[c] /\ Within(v, Cached(c).expiry)
<1>1. key[c] \in PostKey \/ (key[c] \in CommunityKey /\ ~IsPost(c))
  BY DEF IInv, CallsKept, CallInv, Key, IsPost
<1>2. CASE key[c] \in PostKey
  <2>1. Cached(c) = posts[key[c]] /\ IsPost(c)
    BY <1>2 DEF Cached, IsPost
  <2>2. Cached(c) \in Entry
    BY <1>2, <2>1 DEF IInv, TypeOK
  <2>3. Cached(c).post.of = key[c] /\ Within(Cached(c).post, Cached(c).expiry)
    BY <1>2, <2>1 DEF IInv, CacheKept, EntriesAreTrue, Permitted
  <2> QED
    BY <2>1, <2>2, <2>3 DEF Entry, Value
<1>3. CASE key[c] \in CommunityKey /\ ~IsPost(c)
  <2>1. Cached(c) = communities[key[c]]
    BY <1>3 DEF Cached
  <2>2. Cached(c) \in Entry
    BY <1>3, <2>1 DEF IInv, TypeOK
  <2>3. Cached(c).community.of = key[c] /\ Within(Cached(c).community, Cached(c).expiry)
    BY <1>3, <2>1 DEF IInv, CacheKept, EntriesAreTrue, Permitted
  <2> QED
    BY <1>3, <2>2, <2>3 DEF Entry, Value
<1> QED
  BY <1>1, <1>2, <1>3

\* What a lookup asks for is one of the instance's.
LEMMA AskedType ==
  ASSUME TypeOK, NEW c \in Caller, There(Asked(c))
  PROVE  Current(Asked(c)) \in Value
BY CurrentType

(***************************************************************************)
(* Types                                                                   *)
(***************************************************************************)
LEMMA TypeInit == Init => TypeOK
<1> SUFFICES ASSUME Init PROVE TypeOK
  OBVIOUS
<1>1. Start \in Result
  BY NothingType DEF Start, Result
<1>2. rev \in [Kept -> Rev] /\ now \in Time /\ until \in [Sent -> Nat] /\ late \in Nat
  BY RevIsNat DEF Init
<1> QED
  BY <1>1, <1>2, EmptySeq DEF Init, TypeOK, Step

ResultTypes == /\ pc \in [Caller -> Step] /\ result \in [Caller -> Result]
               /\ began \in [Caller -> Time]

LEMMA ReturnsType ==
  ASSUME TypeOK, NEW c \in Caller, NEW v \in Value,
         NEW how \in {"none", "hit", "fetched", "absent", "error"}, Returns(c, how, v)
  PROVE  ResultTypes'
<1>1. [how |-> how, value |-> v] \in Result
  BY DEF Result, Value
<1> QED
  BY <1>1, RevIsNat DEF Returns, Goto, TypeOK, ResultTypes, Step

\* The instance, the clock and the calls that only wait.
LEMMA QuietType ==
  ASSUME TypeOK,
         \/ Tick \/ \E t \in Kept : Change(t)
         \/ \E c \in Caller : Busy(c) \/ Wake(c) \/ Race(c) \/ Lock(c)
  PROVE  TypeOK'
<1>1. CASE Tick
  <2>1. now' \in Time
    BY <1>1, BoundAssumption DEF Tick, Time, TypeOK
  <2> QED
    BY <1>1, <2>1 DEF Tick, TypeOK, cache, call, permission
<1>2. ASSUME NEW t \in Kept, Change(t) PROVE TypeOK'
  <2>1. rev[t] + 1 \in Rev
    BY <1>2, BoundAssumption DEF Change, TypeOK, Rev
  <2>2. rev' \in [Kept -> Rev]
    BY <1>2, <2>1 DEF Change, TypeOK
  <2> QED
    BY <1>2, <2>2 DEF Change, TypeOK, cache, call, permission
<1>3. ASSUME NEW c \in Caller, Busy(c) \/ Wake(c) \/ Race(c) PROVE TypeOK'
  BY <1>3 DEF Busy, Wake, Race, Goto, Step, TypeOK, server, cache, call, permission
<1>4. ASSUME NEW c \in Caller, Lock(c) PROVE TypeOK'
  <2>1. pc' \in [Caller -> Step]
    BY <1>4 DEF Lock, Goto, Step, TypeOK
  <2> QED
    BY <1>4, <2>1 DEF Lock, TypeOK, server, permission
<1> QED
  BY <1>1, <1>2, <1>3, <1>4

LEMMA StartType ==
  ASSUME TypeOK, NEW c \in Caller, List(c) \/ \E k \in Lookups : Lookup(c, k)
  PROVE  TypeOK'
<1>1. Start \in Result /\ Lookups \subseteq Key
  BY NothingType, KeyAssumption DEF Start, Result
<1>2. pc' \in [Caller -> Step] /\ key' \in [Caller -> Key \cup {None}]
      /\ result' \in [Caller -> Result]
  BY <1>1 DEF List, Lookup, Goto, Step, TypeOK
<1> QED
  BY <1>2 DEF List, Lookup, TypeOK, server, cache, permission

LEMMA ReadType ==
  ASSUME IInv, NEW c \in Caller, Read(c)
  PROVE  TypeOK'
<1>1. TypeOK /\ pc[c] = "read"
  BY DEF IInv, Read, Is
<1>3. ResultTypes' /\ found' \in [Caller -> Entry \cup {None}]
  <2>1. CASE /\ Cached(c) = None /\ Goto(c, "get") /\ UNCHANGED <<found, result>>
             /\ began' = [began EXCEPT ![c] = now]
    BY <1>1, <2>1 DEF Goto, Step, TypeOK, ResultTypes
  <2>2. CASE /\ Cached(c) # None /\ UNCHANGED found
             /\ Returns(c, "hit", IF IsPost(c) THEN Cached(c).post ELSE Cached(c).community)
    <3>1. (IF IsPost(c) THEN Cached(c).post ELSE Cached(c).community) \in Value
      BY <1>1, <2>2, CachedType
    <3>2. ResultTypes'
      BY <1>1, <2>2, <3>1, ReturnsType
    <3> QED
      BY <1>1, <2>2, <3>2 DEF TypeOK
  <2>3. CASE /\ Cached(c) # None /\ Goto(c, "delete") /\ UNCHANGED result
             /\ found' = [found EXCEPT ![c] = Cached(c)]
             /\ began' = [began EXCEPT ![c] = now]
    <3>1. Cached(c) \in Entry
      BY <1>1, <2>3, CachedType
    <3> QED
      BY <1>1, <2>3, <3>1 DEF Goto, Step, TypeOK, ResultTypes
  <2> QED
    BY <2>1, <2>2, <2>3 DEF Read
<1> QED
  BY <1>1, <1>3 DEF Read, TypeOK, ResultTypes, server, cache, permission

LEMMA DeleteType ==
  ASSUME TypeOK, NEW c \in Caller, Delete(c)
  PROVE  TypeOK'
<1>1. pc' \in [Caller -> Step] /\ found' \in [Caller -> Entry \cup {None}]
  BY DEF Delete, Goto, Step, TypeOK
<1>2. /\ posts' \in [PostKey -> Entry \cup {None}]
      /\ communities' \in [CommunityKey -> Entry \cup {None}]
  BY DEF Delete, TypeOK
<1> QED
  BY <1>1, <1>2 DEF Delete, TypeOK, server, permission

\* The answers after which nothing is stored.
LEMMA ReturnType ==
  ASSUME TypeOK, NEW c \in Caller,
         GetFails(c) \/ NotFound(c) \/ AnswerOnce(c) \/ AnswerUncached(c)
  PROVE  TypeOK'
<1>1. NoPost \in Value
  BY NothingType DEF Value
<1>2. ResultTypes'
  BY <1>1, AskedType, ReturnsType DEF GetFails, NotFound, AnswerOnce, AnswerUncached
<1> QED
  BY <1>2 DEF GetFails, NotFound, AnswerOnce, AnswerUncached, TypeOK, ResultTypes, server, cache,
    permission

\* The answers after which something is.
Answered(c) ==
  \E pairs \in Seq(Pair), a \in Age, v \in Value, how \in {"fetched", "error"} :
    /\ pairs # <<>>
    /\ \A i \in DOMAIN pairs : Clean(pairs[i])
    /\ Keeps(c, pairs, a)
    /\ result' = [result EXCEPT ![c] = [how |-> how, value |-> v]]

LEMMA AnswersGiven ==
  ASSUME TypeOK, NEW c \in Caller, Answer(c) \/ Garbled(c) \/ AnswerList(c)
  PROVE  /\ Answered(c)
         /\ UNCHANGED <<server, cache, up, key, found, late>>
<1>1. NoPost \in Value
  BY NothingType DEF Value
<1>2. ASSUME NEW p, Clean(p)
      PROVE  /\ <<p>> \in Seq(Pair) /\ <<p>> # <<>>
             /\ \A i \in DOMAIN <<p>> : Clean(<<p>>[i])
  <2>1. p \in Pair
    BY <1>2 DEF Clean
  <2> QED
    BY <1>2, <2>1
<1>3. CASE Answer(c)
  <2>1. There(Asked(c))
    BY <1>3 DEF Answer
  <2>2. Current(Asked(c)) \in Value /\ Clean(AsPair(Current(Asked(c))))
    BY <2>1, CurrentType
  <2> QED
    BY <1>2, <1>3, <2>2 DEF Answer, Answered
<1>4. CASE Garbled(c)
  BY <1>1, <1>2, <1>4, NothingPair DEF Garbled, Answered
<1>5. CASE AnswerList(c)
  <2>1. PICK n \in 1..MaxPosts, a \in Age :
          \E s \in [1..n -> {t \in ID : There(t)}] :
            Keeps(c, [i \in 1..n |-> AsPair(Current(s[i]))], a)
    BY <1>5 DEF AnswerList
  <2>2. PICK s \in [1..n -> {t \in ID : There(t)}] :
          Keeps(c, [i \in 1..n |-> AsPair(Current(s[i]))], a)
    BY <2>1
  <2> DEFINE pairs == [i \in 1..n |-> AsPair(Current(s[i]))]
  <2>3. \A i \in 1..n : AsPair(Current(s[i])) \in Pair /\ Clean(AsPair(Current(s[i])))
    BY CurrentType DEF Clean
  <2>4. /\ pairs \in Seq(Pair) /\ pairs # <<>> /\ DOMAIN pairs = 1..n
        /\ \A i \in 1..n : Clean(pairs[i])
    <3>1. n \in Nat /\ 1 \in 1..n
      BY BoundAssumption
    <3> QED
      BY <2>3, <3>1
  <2> HIDE DEF pairs
  <2> QED
    BY <1>1, <1>5, <2>2, <2>4 DEF AnswerList, Answered, pairs
<1> QED
  BY <1>3, <1>4, <1>5 DEF Answer, Garbled, AnswerList

LEMMA AnswerType ==
  ASSUME TypeOK, NEW c \in Caller, Answer(c) \/ Garbled(c) \/ AnswerList(c)
  PROVE  TypeOK'
<1>1. /\ Answered(c)
      /\ UNCHANGED <<server, cache, up, key, found, late>>
  BY AnswersGiven
<1>2. PICK pairs \in Seq(Pair), a \in Age, v \in Value, how \in {"fetched", "error"} :
        /\ Keeps(c, pairs, a)
        /\ result' = [result EXCEPT ![c] = [how |-> how, value |-> v]]
  BY <1>1 DEF Answered
<1>3. [how |-> how, value |-> v] \in Result /\ a \in Nat
  BY BoundAssumption DEF Result, Value
<1>4. /\ pc' \in [Caller -> Step] /\ result' \in [Caller -> Result]
      /\ answer' \in [Caller -> Seq(Pair)] /\ age' \in [Caller -> Nat]
      /\ began' \in [Caller -> Time] /\ answered' \in [Caller -> Time]
  BY <1>2, <1>3, RevIsNat DEF Keeps, Goto, Step, TypeOK
<1>5. until' \in [Sent -> Nat]
  <2>1. now + a \in Nat /\ \A v1 \in Sent : Greater(until[v1], now + a) \in Nat
    BY <1>3, RevIsNat DEF TypeOK, Greater
  <2> QED
    BY <1>2, <2>1 DEF Keeps, TypeOK
<1> QED
  BY <1>1, <1>4, <1>5 DEF TypeOK, server, cache

\* What Store writes, and how long that is within the instance's leave.
LEMMA Written ==
  ASSUME IInv, NEW c \in Caller, Store(c)
  PROVE  \E p \in Pair, u \in Nat :
           /\ p = Head(answer[c]) /\ now <= u
           /\ \A v \in {p.post, p.community} :
                IsTrue(v) /\ (v.of \in Kept => u <= until'[v] + late')
           /\ p.post.of \in PostKey /\ p.community.of \in CommunityKey
           /\ posts' = [posts EXCEPT ![p.post.of] =
                [post |-> p.post, community |-> NoCommunity, expiry |-> u]]
           /\ communities' = [communities EXCEPT ![p.community.of] =
                [post |-> p.post, community |-> p.community, expiry |-> u]]
<1>1. pc[c] = "storing"
  BY DEF Store, Is
<1>2. /\ Head(answer[c]) \in Pair /\ Expiry(c) \in Nat /\ now <= Expiry(c)
      /\ \A v \in {Head(answer[c]).post, Head(answer[c]).community} :
           IsTrue(v) /\ (v.of \in Kept => Expiry(c) <= until[v] + (now - answered[c]))
      /\ now - answered[c] \in Nat
  BY <1>1, NextPair
<1>3. until' = until /\ late' = Greater(late, now - answered[c]) /\ late \in Nat
  BY DEF Store, IInv, TypeOK
<1>4. Head(answer[c]).post.of \in PostKey /\ Head(answer[c]).community.of \in CommunityKey
  BY <1>2 DEF Pair, PostValue, CommunityValue, CommunityKey
<1>5. late' \in Nat /\ now - answered[c] <= late'
  BY <1>2, <1>3 DEF Greater
<1>6. ASSUME NEW v \in {Head(answer[c]).post, Head(answer[c]).community}, v.of \in Kept
      PROVE  Expiry(c) <= until'[v] + late'
  <2>1. until[v] \in Nat
    BY <1>2, <1>6, SentType DEF IInv, TypeOK, Pair, Value
  <2> QED
    BY <1>2, <1>3, <1>5, <1>6, <2>1
<1> QED
  BY <1>2, <1>4, <1>6 DEF Store, Stored

LEMMA StoreType ==
  ASSUME IInv, NEW c \in Caller, Store(c)
  PROVE  TypeOK'
<1>1. TypeOK /\ pc[c] = "storing"
  BY DEF IInv, Store, Is
<1>2. PICK p \in Pair, u \in Nat :
           /\ p.post.of \in PostKey /\ p.community.of \in CommunityKey
           /\ posts' = [posts EXCEPT ![p.post.of] =
                [post |-> p.post, community |-> NoCommunity, expiry |-> u]]
           /\ communities' = [communities EXCEPT ![p.community.of] =
                [post |-> p.post, community |-> p.community, expiry |-> u]]
  BY Written
<1>3. /\ [post |-> p.post, community |-> NoCommunity, expiry |-> u] \in Entry
      /\ [post |-> p.post, community |-> p.community, expiry |-> u] \in Entry
  BY NothingType DEF Pair, Entry
<1>4. /\ posts' \in [PostKey -> Entry \cup {None}]
      /\ communities' \in [CommunityKey -> Entry \cup {None}]
  BY <1>1, <1>2, <1>3 DEF TypeOK
<1>5. until' = until /\ late' \in Nat
  <2>1. now - answered[c] \in Nat
    BY <1>1, NextPair
  <2> QED
    BY <1>1, <2>1 DEF Store, TypeOK, Greater
<1>6. /\ pc' \in [Caller -> Step] /\ age' \in [Caller -> Nat]
      /\ answered' \in [Caller -> Time]
  <2>1. \/ /\ Goto(c, "idle")
           /\ age' = [age EXCEPT ![c] = 0] /\ answered' = [answered EXCEPT ![c] = 0]
        \/ Goto(c, "store") /\ UNCHANGED <<age, answered>>
    BY DEF Store
  <2>2. CASE /\ Goto(c, "idle")
             /\ age' = [age EXCEPT ![c] = 0] /\ answered' = [answered EXCEPT ![c] = 0]
    BY <1>1, <2>2, RevIsNat DEF Goto, Step, TypeOK
  <2>3. CASE Goto(c, "store") /\ UNCHANGED <<age, answered>>
    BY <1>1, <2>3 DEF Goto, Step, TypeOK
  <2> QED
    BY <2>1, <2>2, <2>3
<1>7. answer' \in [Caller -> Seq(Pair)]
  <2>1. Tail(answer[c]) \in Seq(Pair)
    BY <1>1, NextPair
  <2> QED
    BY <1>1, <2>1 DEF Store, TypeOK
<1> QED
  BY <1>1, <1>4, <1>5, <1>6, <1>7 DEF Store, TypeOK, server

LEMMA TypeStep ==
  ASSUME IInv, [Next]_vars
  PROVE  TypeOK'
<1>1. TypeOK
  BY DEF IInv
<1>2. CASE UNCHANGED vars
  BY <1>1, <1>2 DEF vars, server, cache, call, permission, TypeOK
<1>3. CASE Next
  BY <1>1, <1>3, QuietType, StartType, ReadType, DeleteType, ReturnType, AnswerType, StoreType
  DEF Next, Works, Gets
<1> QED
  BY <1>2, <1>3

(***************************************************************************)
(* Calls                                                                   *)
(***************************************************************************)

\* The clock does not go back, nor do the instance's revisions.
Later == /\ now \in Nat /\ now' \in Nat /\ now <= now'
         /\ \A t \in Kept : rev[t] \in Nat /\ rev'[t] \in Nat /\ rev[t] <= rev'[t]

LEMMA TimePasses == TypeOK /\ [Next]_vars => Later
<1> SUFFICES ASSUME TypeOK, [Next]_vars PROVE Later
  OBVIOUS
<1>1. now \in Nat /\ \A t \in Kept : rev[t] \in Nat
  BY RevIsNat DEF TypeOK
<1>2. CASE UNCHANGED server
  BY <1>1, <1>2 DEF Later, server
<1>3. CASE Tick
  BY <1>1, <1>3 DEF Later, Tick
<1>4. ASSUME NEW t \in Kept, Change(t) PROVE Later
  BY <1>1, <1>4 DEF Later, Change, TypeOK
<1>5. CASE \E c \in Caller : \/ List(c) \/ Works(c) \/ Gets(c)
                             \/ \E k \in Lookups : Lookup(c, k)
  <2>1. UNCHANGED server
    BY <1>5 DEF List, Works, Gets, Lookup, Read, Race, Lock, Delete, Store, Busy, Wake,
      GetFails, NotFound, AnswerOnce, AnswerUncached, Answer, Garbled, AnswerList
  <2> QED
    BY <1>2, <2>1
<1>6. CASE UNCHANGED vars
  BY <1>2, <1>6 DEF vars
<1> QED
  BY <1>3, <1>4, <1>5, <1>6 DEF Next

\* No leave to reuse a value is taken back, nor is a delay forgotten.
Looser == /\ late \in Nat /\ late' \in Nat /\ late <= late'
          /\ \A v \in Sent : until[v] \in Nat /\ until'[v] \in Nat /\ until[v] <= until'[v]

LEMMA LeaveGrows == IInv /\ [Next]_vars => Looser
<1> SUFFICES ASSUME IInv, [Next]_vars PROVE Looser
  OBVIOUS
<1>1. TypeOK /\ TypeOK'
  BY TypeStep DEF IInv
<1>2. late \in Nat /\ late' \in Nat /\ \A v \in Sent : until[v] \in Nat /\ until'[v] \in Nat
  BY <1>1 DEF TypeOK
<1>3. ASSUME NEW c \in Caller, Store(c) PROVE Looser
  <2>1. until' = until /\ late' = Greater(late, now - answered[c]) /\ pc[c] = "storing"
    BY <1>3 DEF Store, Is
  <2>2. now - answered[c] \in Nat
    BY <2>1, NextPair
  <2> QED
    BY <1>2, <2>1, <2>2 DEF Looser, Greater
<1>4. ASSUME NEW c \in Caller, Answer(c) \/ Garbled(c) \/ AnswerList(c) PROVE Looser
  <2>1. late' = late
    BY <1>1, <1>4, AnswersGiven
  <2>2. PICK pairs \in Seq(Pair), a \in Age : Keeps(c, pairs, a)
    BY <1>1, <1>4, AnswersGiven DEF Answered
  <2>3. now + a \in Nat
    BY <1>1, RevIsNat, BoundAssumption DEF TypeOK
  <2>4. \A v \in Sent : until'[v] \in {until[v], Greater(until[v], now + a)}
    BY <1>1, <2>2 DEF Keeps, TypeOK
  <2> QED
    BY <1>2, <2>1, <2>3, <2>4 DEF Looser, Greater
<1>5. CASE UNCHANGED <<until, late>>
  BY <1>2, <1>5 DEF Looser
<1>6. CASE \A c \in Caller : ~Store(c) /\ ~(Answer(c) \/ Garbled(c) \/ AnswerList(c))
  <2>1. UNCHANGED <<until, late>>
    BY <1>6 DEF Next, Works, Gets, vars, permission, Tick, Change, List, Lookup, Read, Race,
      Lock, Delete, Busy, Wake, GetFails, NotFound, AnswerOnce, AnswerUncached
  <2> QED
    BY <1>5, <2>1
<1> QED
  BY <1>3, <1>4, <1>6

\* What is true of an answer stays so.
LEMMA TrueStays ==
  ASSUME Later, NEW c \in Caller, NEW s, answer'[c] = s,
         \A i \in DOMAIN s : \A v \in {s[i].post, s[i].community} :
           /\ IsTrue(v)
           /\ v.of \in Kept => answered'[c] + age'[c] <= until'[v]
  PROVE  AnswerInv(c)'
<1>1. ASSUME NEW v, IsTrue(v) PROVE v.of \in Kept => v.rev \in 1..rev'[v.of]
  BY <1>1 DEF IsTrue, Later
<1>2. \A i \in DOMAIN s : \A v \in {s[i].post, s[i].community} :
        v.of \in Kept => v.rev \in 1..rev'[v.of] /\ answered'[c] + age'[c] <= until'[v]
  BY <1>1
<1> QED
  BY <1>2 DEF AnswerInv, IsTrue, Allowed

\* So does the leave for it, for as long as that is to be used.
LEMMA AllowedStays ==
  ASSUME TypeOK, Looser, NEW c \in Caller, NEW v \in Value, Allowed(c, v),
         answered'[c] = answered[c], age'[c] = age[c]
  PROVE  v.of \in Kept => answered'[c] + age'[c] <= until'[v]
<1>1. answered[c] + age[c] \in Nat
  BY TimesAreNat
<1> QED
  BY <1>1, SentType DEF Allowed, Looser

LEMMA AnswerStays ==
  ASSUME TypeOK, Later, Looser, NEW c \in Caller, AnswerInv(c), answer'[c] = answer[c],
         answered'[c] = answered[c], age'[c] = age[c]
  PROVE  AnswerInv(c)'
<1>1. PICK s \in Seq(Pair) : s = answer[c]
  BY DEF TypeOK
<1>2. ASSUME NEW i \in DOMAIN s, NEW v \in {s[i].post, s[i].community}
      PROVE  /\ IsTrue(v)
             /\ v.of \in Kept => answered'[c] + age'[c] <= until'[v]
  <2>1. s[i] \in Pair
    BY <1>1, ElementOfSeq, LenProperties
  <2>2. v \in Value
    BY <2>1 DEF Pair, Value
  <2>3. IsTrue(v) /\ Allowed(c, v)
    BY <1>1 DEF AnswerInv
  <2> QED
    BY <2>2, <2>3, AllowedStays
<1> QED
  BY <1>1, <1>2, TrueStays

LEMMA CallKeptBy ==
  ASSUME TypeOK, Later, Looser, NEW d \in Caller, CallInv(d),
         pc'[d] = pc[d], key'[d] = key[d], found'[d] = found[d],
         answer'[d] = answer[d], answered'[d] = answered[d], age'[d] = age[d],
         began'[d] = began[d]
  PROVE  CallInv(d)'
<1>1. began'[d] <= now' /\ answered'[d] <= now'
  BY TimesAreNat DEF CallInv, Later
<1>2. FoundInv(d) => FoundInv(d)'
  BY DEF FoundInv, IsPost
<1>3. AnswerInv(d)'
  BY AnswerStays DEF CallInv
<1> QED
  BY <1>1, <1>2, <1>3 DEF CallInv

\* A call whose next step is none of those that need what it has found, or
\* something to store.
LEMMA CallFreed ==
  ASSUME TypeOK, Later, Looser, NEW c \in Caller, CallInv(c), began'[c] <= now',
         pc'[c] \in {"idle", "get", "asleep"} \/ (pc'[c] = "read" /\ key'[c] \in Key),
         answer'[c] = answer[c], answered'[c] = answered[c], age'[c] = age[c]
  PROVE  CallInv(c)'
<1>1. AnswerInv(c)'
  BY AnswerStays DEF CallInv
<1>2. answered'[c] <= now'
  BY TimesAreNat DEF CallInv, Later
<1> QED
  BY <1>1, <1>2 DEF CallInv

LEMMA CallsStep ==
  ASSUME IInv, [Next]_vars
  PROVE  CallsKept'
<1>1. TypeOK /\ CallsKept /\ Later /\ Looser
  BY TimePasses, LeaveGrows DEF IInv
<1>2. \A d \in Caller : CallInv(d) /\ began[d] \in Nat /\ began[d] <= now'
  <2> TAKE d \in Caller
  <2>1. CallInv(d) /\ began[d] \in Nat
    BY <1>1, RevIsNat DEF CallsKept, TypeOK
  <2> QED
    BY <1>1, <2>1 DEF CallInv, Later
<1>3. ASSUME NEW d \in Caller, pc'[d] = pc[d], key'[d] = key[d], found'[d] = found[d],
             answer'[d] = answer[d], answered'[d] = answered[d], age'[d] = age[d],
             began'[d] = began[d]
      PROVE  CallInv(d)'
  BY <1>1, <1>2, <1>3, CallKeptBy
<1>4. CASE UNCHANGED <<pc, key, found, answer, answered, age, began>>
  BY <1>3, <1>4 DEF CallsKept
<1>5. ASSUME NEW c \in Caller,
             List(c) \/ (\E k \in Lookups : Lookup(c, k)) \/ Busy(c) \/ Wake(c) \/ Delete(c)
             \/ GetFails(c) \/ NotFound(c) \/ AnswerOnce(c) \/ AnswerUncached(c)
      PROVE  CallsKept'
  <2>1. /\ pc'[c] \in {"idle", "get", "asleep"} \/ (pc'[c] = "read" /\ key'[c] \in Key)
        /\ \A d \in Caller \ {c} :
             /\ pc'[d] = pc[d] /\ key'[d] = key[d] /\ found'[d] = found[d]
             /\ began'[d] = began[d]
        /\ answer' = answer /\ answered' = answered /\ age' = age
        /\ began'[c] \in {began[c], 0}
    BY <1>1, <1>5, KeyAssumption DEF List, Lookup, Busy, Wake, Delete, GetFails, NotFound,
      AnswerOnce, AnswerUncached, Returns, Goto, TypeOK, call, permission
  <2>2. CallInv(c)'
    <3>1. began'[c] <= now'
      BY <1>1, <1>2, <2>1 DEF Later
    <3> QED
      BY <1>1, <1>2, <2>1, <3>1, CallFreed
  <2> QED
    BY <1>3, <2>1, <2>2 DEF CallsKept
<1>6. ASSUME NEW c \in Caller, Read(c) PROVE CallsKept'
  <2>1. /\ began'[c] \in {now, 0} /\ now' = now /\ pc[c] = "read"
        /\ key' = key /\ answer' = answer /\ answered' = answered /\ age' = age
        /\ \A d \in Caller \ {c} : began'[d] = began[d]
    BY <1>1, <1>6 DEF Read, Returns, Is, TypeOK, server, permission
  <2>2. \/ pc'[c] \in {"idle", "get"} /\ UNCHANGED found
        \/ /\ pc'[c] = "delete" /\ Cached(c) # None
           /\ found' = [found EXCEPT ![c] = Cached(c)]
    BY <1>1, <1>6 DEF Read, Returns, Goto, TypeOK
  <2>3. \A d \in Caller \ {c} : pc'[d] = pc[d] /\ found'[d] = found[d]
    BY <1>1, <1>6 DEF Read, Returns, Goto, TypeOK
  <2>4. CallInv(c)'
    <3>1. CASE pc'[c] \in {"idle", "get"}
      BY <1>1, <1>2, <2>1, <3>1, CallFreed DEF Later
    <3>2. CASE pc'[c] = "delete" /\ Cached(c) # None
               /\ found' = [found EXCEPT ![c] = Cached(c)]
      <4>1. key[c] \in Key
        BY <1>2, <2>1 DEF CallInv
      <4>2. found'[c] = Cached(c)
        BY <1>1, <3>2 DEF TypeOK
      <4>3. FoundInv(c)'
        BY <2>1, <3>2, <4>2, CachedType DEF FoundInv, IsPost
      <4>4. AnswerInv(c)'
        BY <1>1, <1>2, <2>1, AnswerStays DEF CallInv
      <4> QED
        BY <1>1, <1>2, <2>1, <3>2, <4>1, <4>3, <4>4 DEF CallInv, Later
    <3> QED
      BY <2>2, <3>1, <3>2
  <2> QED
    BY <1>3, <2>1, <2>3, <2>4 DEF CallsKept
<1>7. ASSUME NEW c \in Caller, Lock(c) PROVE CallsKept'
  <2>1. /\ key' = key /\ found' = found /\ answer' = answer /\ began' = began
        /\ answered' = answered /\ age' = age /\ now' = now
        /\ \A d \in Caller \ {c} : pc'[d] = pc[d]
        /\ \/ pc[c] = "delete" /\ pc'[c] = "deleting"
           \/ pc[c] = "store" /\ pc'[c] = "storing"
    BY <1>1, <1>7 DEF Lock, Is, Goto, TypeOK, server, permission
  <2>2. AnswerInv(c)'
    BY <1>1, <1>2, <2>1, AnswerStays DEF CallInv
  <2>3. FoundInv(c) => FoundInv(c)'
    BY <2>1 DEF FoundInv, IsPost
  <2>4. CallInv(c)'
    BY <1>2, <2>1, <2>2, <2>3 DEF CallInv
  <2> QED
    BY <1>3, <2>1, <2>4 DEF CallsKept
<1>8. ASSUME NEW c \in Caller, Answer(c) \/ Garbled(c) \/ AnswerList(c) PROVE CallsKept'
  <2>1. PICK pairs \in Seq(Pair), a \in Age, v \in Value, how \in {"fetched", "error"} :
          /\ pairs # <<>>
          /\ \A i \in DOMAIN pairs : Clean(pairs[i])
          /\ Keeps(c, pairs, a)
    BY <1>1, <1>8, AnswersGiven DEF Answered
  <2>2. /\ answer'[c] = pairs /\ pc'[c] = "store" /\ began'[c] = 0
        /\ answered'[c] = now /\ age'[c] = a
        /\ \A d \in Caller \ {c} :
             /\ pc'[d] = pc[d] /\ answer'[d] = answer[d] /\ began'[d] = began[d]
             /\ answered'[d] = answered[d] /\ age'[d] = age[d]
    BY <1>1, <2>1 DEF Keeps, Goto, TypeOK
  <2>3. key' = key /\ found' = found /\ now' = now
    BY <1>1, <1>8, AnswersGiven DEF server
  <2>4. ASSUME NEW i \in DOMAIN pairs, NEW w \in {pairs[i].post, pairs[i].community}
        PROVE  /\ IsTrue(w)
               /\ w.of \in Kept => answered'[c] + age'[c] <= until'[w]
    <3>1. pairs[i] \in Pair /\ IsTrue(w) /\ (w.of \in Kept => pairs[i] = AsPair(w))
      BY <2>1 DEF Clean
    <3>2. w \in Value
      BY <3>1 DEF Pair, Value
    <3>3. ASSUME w.of \in Kept PROVE answered'[c] + age'[c] <= until'[w]
      <4>1. w \in Sent /\ pairs[i] = AsPair(w) /\ until[w] \in Nat /\ now + a \in Nat
        BY <1>1, <3>1, <3>2, <3>3, SentType, RevIsNat, BoundAssumption DEF TypeOK
      <4>2. until'[w] = Greater(until[w], now + a)
        BY <1>1, <2>1, <4>1 DEF Keeps, TypeOK
      <4> QED
        BY <2>2, <4>1, <4>2 DEF Greater
    <3> QED
      BY <3>1, <3>3
  <2>5. AnswerInv(c)'
    BY <1>1, <2>2, <2>4, TrueStays
  <2>6. CallInv(c)'
    BY <1>1, <2>1, <2>2, <2>3, <2>5 DEF CallInv, Later
  <2> QED
    BY <1>3, <2>2, <2>3, <2>6 DEF CallsKept
<1>9. ASSUME NEW c \in Caller, Store(c) PROVE CallsKept'
  <2>1. /\ pc[c] = "storing" /\ key' = key /\ found' = found /\ began' = began /\ now' = now
        /\ answer' = [answer EXCEPT ![c] = Tail(answer[c])]
    BY <1>9 DEF Store, Is, server
  <2>2. \/ /\ Tail(answer[c]) = <<>> /\ Goto(c, "idle")
           /\ age' = [age EXCEPT ![c] = 0] /\ answered' = [answered EXCEPT ![c] = 0]
        \/ Tail(answer[c]) # <<>> /\ Goto(c, "store") /\ UNCHANGED <<age, answered>>
    BY <1>9 DEF Store
  <2>3. /\ answer'[c] = Tail(answer[c])
        /\ \/ pc'[c] = "idle" /\ answer'[c] = <<>> /\ answered'[c] = 0
           \/ /\ pc'[c] = "store" /\ answer'[c] # <<>>
              /\ answered'[c] = answered[c] /\ age'[c] = age[c]
        /\ \A d \in Caller \ {c} :
             /\ pc'[d] = pc[d] /\ answer'[d] = answer[d]
             /\ answered'[d] = answered[d] /\ age'[d] = age[d]
    BY <1>1, <2>1, <2>2 DEF Goto, TypeOK
  <2>4. /\ Tail(answer[c]) \in Seq(Pair)
        /\ \A i \in DOMAIN Tail(answer[c]) :
             i + 1 \in DOMAIN answer[c] /\ Tail(answer[c])[i] = answer[c][i + 1]
    BY <2>1, NextPair
  <2>5. AnswerInv(c)'
    <3>1. PICK s \in Seq(Pair) : s = Tail(answer[c])
      BY <2>4
    <3>2. CASE s = <<>>
      BY <2>3, <3>1, <3>2 DEF AnswerInv
    <3>3. CASE s # <<>>
      <4>1. ASSUME NEW i \in DOMAIN s, NEW v \in {s[i].post, s[i].community}
            PROVE  /\ IsTrue(v)
                   /\ v.of \in Kept => answered'[c] + age'[c] <= until'[v]
        <5>1. s[i] \in Pair
          BY ElementOfSeq, LenProperties
        <5>2. v \in Value
          BY <5>1 DEF Pair, Value
        <5>3. IsTrue(v) /\ Allowed(c, v)
          BY <1>2, <2>4, <3>1 DEF CallInv, AnswerInv
        <5> QED
          BY <1>1, <2>3, <3>1, <3>3, <5>2, <5>3, AllowedStays
      <4> QED
        BY <1>1, <2>3, <3>1, <4>1, TrueStays
    <3> QED
      BY <3>2, <3>3
  <2>6. CallInv(c)'
    BY <1>1, <1>2, <2>1, <2>3, <2>5 DEF CallInv, Later
  <2> QED
    BY <1>3, <2>1, <2>3, <2>6 DEF CallsKept
<1> QED
  <2>1. CASE Next
    <3>1. CASE Tick \/ (\E t \in Kept : Change(t)) \/ \E c \in Caller : Race(c)
      BY <1>4, <3>1 DEF Tick, Change, Race, call, permission
    <3> QED
      BY <1>5, <1>6, <1>7, <1>8, <1>9, <2>1, <3>1 DEF Next, Works, Gets
  <2> QED
    BY <1>4, <2>1 DEF vars, call, permission

(***************************************************************************)
(* The cache                                                               *)
(***************************************************************************)

\* Only Delete and Store change the cache.
LEMMA CacheUntouched ==
  ASSUME [Next]_vars, \A c \in Caller : ~Delete(c) /\ ~Store(c)
  PROVE  UNCHANGED <<posts, communities>>
BY DEF Next, Works, Gets, vars, cache, Tick, Change, List, Lookup, Read, Race, Lock, Busy,
  Wake, GetFails, NotFound, AnswerOnce, AnswerUncached, Answer, Garbled, AnswerList

\* Every entry is as it was, or gone, or is the one just stored.
LEMMA CacheKeptBy ==
  ASSUME IInv, Later, Looser, NEW p \in Pair, NEW u \in Nat,
         \A v \in {p.post, p.community} :
           IsTrue(v) /\ (v.of \in Kept => u <= until'[v] + late'),
         \A k \in PostKey : \/ posts'[k] \in {posts[k], None}
                            \/ /\ k = p.post.of
                               /\ posts'[k].post = p.post /\ posts'[k].expiry = u,
         \A k \in CommunityKey : \/ communities'[k] \in {communities[k], None}
                                 \/ /\ k = p.community.of
                                    /\ communities'[k].community = p.community
                                    /\ communities'[k].expiry = u
  PROVE  CacheKept'
<1>1. ID \subseteq Kept /\ Name \subseteq Kept
  BY DEF Kept
<1>4. ASSUME NEW v \in Value, NEW t \in Nat, Within(v, t)
      PROVE  v.of \in Kept => t <= until'[v] + late'
  BY <1>4, SentType DEF Within, Looser
<1>2. ASSUME NEW k \in PostKey, posts'[k] # None
      PROVE  /\ posts'[k].post.of = k
             /\ k \in ID => posts'[k].post.rev \in 1..rev'[k]
             /\ Within(posts[k].post, posts[k].expiry)'
  <2>1. CASE posts'[k] = posts[k]
    <3>1. /\ posts[k].post.of = k /\ (k \in ID => posts[k].post.rev \in 1..rev[k])
          /\ Within(posts[k].post, posts[k].expiry) /\ posts[k] \in Entry
      BY <1>2, <2>1 DEF IInv, TypeOK, CacheKept, EntriesAreTrue, Permitted
    <3>2. posts[k].post \in Value /\ posts[k].expiry \in Nat
      BY <3>1 DEF Entry, Value
    <3>3. Within(posts[k].post, posts[k].expiry)'
      BY <1>4, <2>1, <3>1, <3>2 DEF Within
    <3> QED
      BY <1>1, <2>1, <3>1, <3>3 DEF Later
  <2>2. CASE k = p.post.of /\ posts'[k].post = p.post /\ posts'[k].expiry = u
    BY <1>1, <2>2 DEF IsTrue, Later, Within
  <2> QED
    BY <1>2, <2>1, <2>2
<1>3. ASSUME NEW k \in CommunityKey, communities'[k] # None
      PROVE  /\ communities'[k].community.of = k
             /\ k \in Name => communities'[k].community.rev \in 1..rev'[k]
             /\ Within(communities[k].community, communities[k].expiry)'
  <2>1. CASE communities'[k] = communities[k]
    <3>1. /\ communities[k].community.of = k
          /\ k \in Name => communities[k].community.rev \in 1..rev[k]
          /\ Within(communities[k].community, communities[k].expiry)
          /\ communities[k] \in Entry
      BY <1>3, <2>1 DEF IInv, TypeOK, CacheKept, EntriesAreTrue, Permitted
    <3>2. communities[k].community \in Value /\ communities[k].expiry \in Nat
      BY <3>1 DEF Entry, Value
    <3>3. Within(communities[k].community, communities[k].expiry)'
      BY <1>4, <2>1, <3>1, <3>2 DEF Within
    <3> QED
      BY <1>1, <2>1, <3>1, <3>3 DEF Later
  <2>2. CASE /\ k = p.community.of /\ communities'[k].community = p.community
             /\ communities'[k].expiry = u
    BY <1>1, <2>2 DEF IsTrue, Later, Within
  <2> QED
    BY <1>3, <2>1, <2>2
<1> QED
  BY <1>2, <1>3 DEF CacheKept, EntriesAreTrue, Permitted

LEMMA CacheStep ==
  ASSUME IInv, [Next]_vars
  PROVE  CacheKept'
<1>1. TypeOK /\ Later /\ Looser
  BY TimePasses, LeaveGrows DEF IInv
<1>2. ASSUME \A k \in PostKey : posts'[k] \in {posts[k], None},
             \A k \in CommunityKey : communities'[k] \in {communities[k], None}
      PROVE  CacheKept'
  <2> DEFINE p == AsPair(NoPost)
  <2>1. p \in Pair /\ \A v \in {p.post, p.community} : IsTrue(v) /\ v.of \notin Kept
    BY NothingPair, NothingType DEF Clean, AsPair, PostKey
  <2> HIDE DEF p
  <2> QED
    BY <1>1, <1>2, <2>1, CacheKeptBy
<1>3. CASE \A c \in Caller : ~Delete(c) /\ ~Store(c)
  BY <1>2, <1>3, CacheUntouched
<1>4. ASSUME NEW c \in Caller, Delete(c) PROVE CacheKept'
  <2>1. /\ \A k \in PostKey : posts'[k] \in {posts[k], None}
        /\ \A k \in CommunityKey : communities'[k] \in {communities[k], None}
    BY <1>1, <1>4 DEF Delete, TypeOK
  <2> QED
    BY <1>2, <2>1
<1>5. ASSUME NEW c \in Caller, Store(c) PROVE CacheKept'
  <2>1. PICK p \in Pair, u \in Nat :
           /\ \A v \in {p.post, p.community} :
                IsTrue(v) /\ (v.of \in Kept => u <= until'[v] + late')
           /\ p.post.of \in PostKey /\ p.community.of \in CommunityKey
           /\ posts' = [posts EXCEPT ![p.post.of] =
                [post |-> p.post, community |-> NoCommunity, expiry |-> u]]
           /\ communities' = [communities EXCEPT ![p.community.of] =
                [post |-> p.post, community |-> p.community, expiry |-> u]]
    BY <1>5, Written
  <2>2. /\ \A k \in PostKey : \/ posts'[k] \in {posts[k], None}
                              \/ /\ k = p.post.of
                                 /\ posts'[k].post = p.post /\ posts'[k].expiry = u
        /\ \A k \in CommunityKey : \/ communities'[k] \in {communities[k], None}
                                   \/ /\ k = p.community.of
                                      /\ communities'[k].community = p.community
                                      /\ communities'[k].expiry = u
    BY <1>1, <2>1 DEF TypeOK
  <2> QED
    BY <1>1, <2>1, <2>2, CacheKeptBy
<1> QED
  BY <1>3, <1>4, <1>5

(***************************************************************************)
(* What has expired                                                        *)
(***************************************************************************)
\* The lookup d is past its look at the cache, and what it might find there now
\* has gone, or is no older than that look.
Past(d)    == pc[d] \in {"get", "asleep"} /\ key[d] # None
Dropped(d) == Cached(d) = None \/ Cached(d).expiry >= began[d]

LEMMA DroppedStep ==
  ASSUME IInv, [Next]_vars
  PROVE  ExpiredIsDropped'
<1> SUFFICES ASSUME NEW d \in Caller, Past(d)' PROVE Dropped(d)'
  BY DEF ExpiredIsDropped, Past, Dropped
<1>1. /\ TypeOK /\ CallInv(d) /\ began[d] \in Nat /\ now \in Nat /\ began[d] <= now
      /\ Past(d) => Dropped(d)
  BY RevIsNat DEF IInv, TypeOK, CallsKept, CallInv, ExpiredIsDropped, Past, Dropped
<1>2. ASSUME Past(d), key'[d] = key[d], began'[d] = began[d],
             posts' = posts, communities' = communities
      PROVE  Dropped(d)'
  BY <1>1, <1>2 DEF Dropped, Cached, IsPost
<1>3. ASSUME NEW c \in Caller, Read(c) PROVE Dropped(d)'
  <2>1. CASE c = d
    <3>1. Cached(d) = None /\ key' = key /\ posts' = posts /\ communities' = communities
      BY <1>1, <1>3, <2>1 DEF Read, Returns, Goto, TypeOK, Past, cache
    <3> QED
      BY <3>1 DEF Dropped, Cached, IsPost
  <2>2. CASE c # d
    <3>1. /\ key' = key /\ posts' = posts /\ communities' = communities
          /\ pc'[d] = pc[d] /\ began'[d] = began[d]
      BY <1>1, <1>3, <2>2 DEF Read, Returns, Goto, TypeOK, cache
    <3> QED
      BY <1>2, <3>1 DEF Past
  <2> QED
    BY <2>1, <2>2
<1>4. ASSUME NEW c \in Caller, Delete(c) PROVE Dropped(d)'
  <2>1. /\ key' = key /\ began' = began
        /\ posts' = [posts EXCEPT ![Stale(c).post.of] = None]
        /\ communities' = [communities EXCEPT ![Stale(c).community.of] = None]
        /\ pc[c] = "deleting"
    BY <1>4 DEF Delete, Is
  <2>2. key[d] \in PostKey \/ (key[d] \in CommunityKey /\ ~IsPost(d))
    BY <1>1, <2>1 DEF TypeOK, Key, Past, IsPost
  <2>3. CASE c = d
    <3>1. IF IsPost(d) THEN found[d].post.of = key[d] ELSE found[d].community.of = key[d]
      BY <1>1, <2>1, <2>3 DEF CallInv, FoundInv
    <3>2. CASE key[d] \in PostKey
      BY <1>1, <2>1, <2>3, <3>1, <3>2 DEF Stale, IsPost, TypeOK, Dropped, Cached
    <3>3. CASE key[d] \in CommunityKey /\ ~IsPost(d)
      BY <1>1, <2>1, <2>3, <3>1, <3>3 DEF Stale, IsPost, TypeOK, Dropped, Cached
    <3> QED
      BY <2>2, <3>2, <3>3
  <2>4. CASE c # d
    <3>1. pc'[d] = pc[d]
      BY <1>1, <1>4, <2>4 DEF Delete, Goto, TypeOK
    <3>2. Past(d) /\ Dropped(d)
      BY <1>1, <2>1, <3>1 DEF Past
    <3>3. /\ \A k \in PostKey : posts'[k] \in {posts[k], None}
          /\ \A k \in CommunityKey : communities'[k] \in {communities[k], None}
      BY <1>1, <2>1 DEF TypeOK
    <3> QED
      BY <2>1, <2>2, <3>2, <3>3 DEF Dropped, Cached, IsPost
  <2> QED
    BY <2>3, <2>4
<1>5. ASSUME NEW c \in Caller, Store(c) PROVE Dropped(d)'
  <2>1. key' = key /\ began' = began
    BY <1>5 DEF Store
  <2>2. \/ Goto(c, "idle") \/ Goto(c, "store")
    BY <1>5 DEF Store
  <2>3. pc'[d] = pc[d]
    BY <1>1, <2>2 DEF Goto, TypeOK, Past
  <2>4. Past(d) /\ Dropped(d)
    BY <1>1, <2>1, <2>3 DEF Past
  <2>5. PICK p \in Pair, u \in Nat :
           /\ now <= u
           /\ posts' = [posts EXCEPT ![p.post.of] =
                [post |-> p.post, community |-> NoCommunity, expiry |-> u]]
           /\ communities' = [communities EXCEPT ![p.community.of] =
                [post |-> p.post, community |-> p.community, expiry |-> u]]
    BY <1>5, Written
  <2>6. /\ \A k \in PostKey : posts'[k] = posts[k] \/ posts'[k].expiry = u
        /\ \A k \in CommunityKey :
             communities'[k] = communities[k] \/ communities'[k].expiry = u
    BY <1>1, <2>5 DEF TypeOK
  <2>7. key[d] \in PostKey \/ (key[d] \in CommunityKey /\ ~IsPost(d))
    BY <1>1, <2>4 DEF TypeOK, Key, Past, IsPost
  <2>8. u >= began[d]
    BY <1>1, <2>5
  <2> QED
    BY <2>1, <2>4, <2>6, <2>7, <2>8 DEF Dropped, Cached, IsPost
<1>6. CASE \A c \in Caller : ~Read(c) /\ ~Delete(c) /\ ~Store(c)
  <2>1. posts' = posts /\ communities' = communities
    BY <1>6, CacheUntouched
  <2>2. Past(d) /\ key'[d] = key[d] /\ began'[d] = began[d]
    <3>1. CASE UNCHANGED <<pc, key, began>>
      BY <3>1 DEF Past
    <3>2. ASSUME NEW c \in Caller, List(c) \/ \E k \in Lookups : Lookup(c, k)
          PROVE  Past(d) /\ key'[d] = key[d] /\ began'[d] = began[d]
      BY <1>1, <3>2 DEF List, Lookup, Goto, Past, TypeOK
    <3>3. ASSUME NEW c \in Caller, Busy(c) \/ Wake(c) \/ Lock(c)
          PROVE  Past(d) /\ key'[d] = key[d] /\ began'[d] = began[d]
      BY <1>1, <3>3 DEF Busy, Wake, Lock, Is, Goto, Past, TypeOK
    <3>4. ASSUME NEW c \in Caller, Gets(c)
          PROVE  Past(d) /\ key'[d] = key[d] /\ began'[d] = began[d]
      BY <1>1, <3>4 DEF Gets, GetFails, NotFound, AnswerOnce, AnswerUncached, Answer,
        Garbled, AnswerList, Keeps, Returns, Goto, Past, TypeOK
    <3>5. CASE UNCHANGED vars \/ Tick \/ (\E t \in Kept : Change(t)) \/ \E c \in Caller : Race(c)
      BY <3>1, <3>5 DEF vars, Tick, Change, Race, call
    <3> QED
      BY <1>6, <3>2, <3>3, <3>4, <3>5 DEF Next, Works
  <2> QED
    BY <1>2, <2>1, <2>2
<1> QED
  BY <1>3, <1>4, <1>5, <1>6

(***************************************************************************)
(* Theorems                                                                *)
(***************************************************************************)
LEMMA IInit == Init => IInv
<1> SUFFICES ASSUME Init PROVE IInv
  OBVIOUS
<1>1. TypeOK
  BY TypeInit
<1>2. ASSUME NEW c \in Caller PROVE CallInv(c)
  <2>1. /\ pc[c] = "idle" /\ answer[c] = <<>> /\ began[c] = 0 /\ answered[c] = 0
        /\ now = 0
    BY DEF Init
  <2>2. AnswerInv(c)
    BY <2>1 DEF AnswerInv
  <2> QED
    BY <2>1, <2>2 DEF CallInv
<1>3. CacheKept
  BY DEF Init, CacheKept, EntriesAreTrue, Permitted
<1>4. ExpiredIsDropped
  BY DEF Init, ExpiredIsDropped
<1> QED
  BY <1>1, <1>2, <1>3, <1>4 DEF IInv, CallsKept

LEMMA Invariance == Spec => []IInv
<1>1. IInv /\ [Next]_vars => IInv'
  BY TypeStep, CallsStep, CacheStep, DroppedStep DEF IInv
<1> QED
  BY <1>1, IInit, PTL DEF Spec

\* The cache, the callers and what they have yet to store keep their types.
THEOREM TypeCorrect == Spec => []TypeOK
<1>1. IInv => TypeOK
  BY DEF IInv
<1> QED
  BY <1>1, Invariance, PTL

\* However many goroutines store and delete without agreeing on it, no entry is
\* filed under another's key, nor holds what the instance never had.
THEOREM CacheIsTrue == Spec => []EntriesAreTrue
<1>1. IInv => EntriesAreTrue
  BY DEF IInv, CacheKept
<1> QED
  BY <1>1, Invariance, PTL

\* Deleting by value and not by key, a lookup still deletes what it looked up.
THEOREM DeletesWhatExpired == Spec => []ExpiredIsDropped
<1>1. IInv => ExpiredIsDropped
  BY DEF IInv
<1> QED
  BY <1>1, Invariance, PTL

\* A lookup answered from the cache is answered with what it asked for, and within
\* the time the instance allowed counted from when it answered, but for the longest
\* delay between an answer and its store.
THEOREM HitsAreAllowed == Spec => HitsArePermitted
<1>1. ASSUME IInv, [Next]_vars, NEW c \in Caller,
             result[c].how = "none", result'[c].how = "hit"
      PROVE  /\ result'[c].value.of = key[c]
             /\ result'[c].value.of \in Kept => now < until[result'[c].value] + late
  <2>1. Read(c) /\ result' # result
    <3>1. result \in [Caller -> Result] /\ result'[c] # result[c]
      BY <1>1 DEF IInv, TypeOK
    <3>2. ASSUME NEW d \in Caller, Read(d) PROVE Read(c)
      BY <3>1, <3>2 DEF Read, Returns
    <3>3. ASSUME NEW d \in Caller, List(d) \/ (\E k \in Lookups : Lookup(d, k)) \/ Gets(d)
          PROVE  FALSE
      BY <1>1, <3>1, <3>3 DEF List, Lookup, Gets, GetFails, NotFound, AnswerOnce,
        AnswerUncached, Answer, Garbled, AnswerList, Returns, Start
    <3>4. \/ result' = result
          \/ \E d \in Caller : \/ Read(d) \/ List(d) \/ Gets(d)
                               \/ \E k \in Lookups : Lookup(d, k)
      BY <1>1 DEF Next, Works, vars, call, Tick, Change, Race, Lock, Delete, Store, Busy, Wake
    <3> QED
      BY <3>1, <3>2, <3>3, <3>4
  <2> DEFINE v == IF IsPost(c) THEN Cached(c).post ELSE Cached(c).community
  <2>2. /\ pc[c] = "read" /\ Cached(c) # None /\ Fresh(Cached(c))
        /\ Returns(c, "hit", v)
    BY <2>1 DEF Read, Is
  <2>3. v \in Value /\ v.of = key[c] /\ Within(v, Cached(c).expiry) /\ Cached(c) \in Entry
    BY <1>1, <2>2, CachedType
  <2>4. result'[c].value = v
    <3> HIDE DEF v
    <3> QED
      BY <1>1, <2>2 DEF Returns, IInv, TypeOK
  <2>5. /\ now \in Nat /\ late \in Nat
        /\ Cached(c).expiry \in Nat /\ now < Cached(c).expiry
    BY <1>1, <2>2, <2>3, RevIsNat DEF IInv, TypeOK, Entry, Fresh
  <2>6. v.of \in Kept => until[v] \in Nat
    BY <1>1, <2>3, SentType DEF IInv, TypeOK
  <2> HIDE DEF v
  <2> QED
    BY <2>3, <2>4, <2>5, <2>6 DEF Within
<1>2. IInv /\ [Next]_vars =>
        [\A c \in Caller : (result[c].how = "none" /\ result'[c].how = "hit") =>
           LET v == result'[c].value
           IN /\ v.of = key[c]
              /\ v.of \in Kept => now < until[v] + late]_vars
  BY <1>1
<1> QED
  BY <1>2, Invariance, PTL DEF Spec, HitsArePermitted
=============================================================================
