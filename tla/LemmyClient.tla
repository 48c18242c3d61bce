---------------------------- MODULE LemmyClient ----------------------------
(***************************************************************************)
(* package lemmy: a client of a Lemmy instance and its cache of posts and  *)
(* communities, shared by several callers (cmd/Lemmy has a goroutine for   *)
(* each acme window; an FS may be opened from many).                       *)
(*                                                                         *)
(* A lookup reads the cache without its lock, deletes what has expired,    *)
(* asks the server and stores the answer; delete and store hold the lock.  *)
(* A read while another goroutine writes a map is a data race: it sees the *)
(* map as it was, or the Go runtime ends the process.                      *)
(***************************************************************************)
EXTENDS Integers, Sequences

CONSTANTS
  Caller,   \* goroutines that use the client
  None,     \* no entry; nobody holds the lock
  ID,       \* IDs of posts the instance may have
  Zero,     \* the ID 0: that of the zero Post, and of no post
  Name,     \* communities the instance may have
  AtSign,   \* "@": the name of the zero Community, and of no community
  Alias,    \* other names for them: a local one with the instance appended
  Canon,    \* Canon[n]: the name the instance gives the community n
  Lookups,  \* the IDs and names that callers look up
  MaxPosts, \* bound: posts of one listing
  MaxRev,   \* bound: edits of a post or community
  Age,      \* max-age values the instance sends, in seconds
  MaxNow    \* bound: the clock stops here

PostKey      == ID \cup {Zero}
CommunityKey == Name \cup Alias \cup {AtSign}
Key          == PostKey \cup CommunityKey
Kept         == ID \cup Name      \* what the instance keeps

\* Revision 0 is not there yet, MaxRev + 1 has been removed.
Rev == 0..MaxRev + 1

\* A Post or Community: which one, and as of which revision.
PostValue      == [of : PostKey, rev : Rev]
CommunityValue == [of : Name \cup {AtSign}, rev : Rev]
Sent           == [of : Kept, rev : Rev]      \* what an instance may answer with
NoPost         == [of |-> Zero, rev |-> 0]    \* Post{}
NoCommunity    == [of |-> AtSign, rev |-> 0]      \* Community{}
Time           == 0..MaxNow

ASSUME KeyAssumption ==
  /\ Zero \notin ID /\ AtSign \notin Name /\ AtSign \notin Alias
  /\ PostKey \cap CommunityKey = {}
  /\ Canon \in [Name \cup Alias -> Name] /\ \A n \in Name : Canon[n] = n
  /\ Lookups \subseteq Key
ASSUME BoundAssumption ==
  MaxRev \in Nat /\ MaxNow \in Nat /\ MaxPosts \in Nat /\ Age \subseteq Nat

Entry == [post : PostValue, community : CommunityValue, expiry : Nat]
Pair  == [post : PostValue, community : CommunityValue]

VARIABLES
  now,        \* the wall clock
  rev,        \* rev[t]: the instance's revision of t
  posts,      \* cache.post
  communities,\* cache.community
  lock,       \* who holds cache.mu and is writing
  up,         \* the process has not been ended by the runtime
  pc,         \* pc[c]: where c's call is
  key,        \* key[c]: what c looks up, or None for a listing
  found,      \* found[c]: the expired entry c read from the cache
  answer,     \* answer[c]: what c has yet to store of the server's answer
  age,        \* age[c]: and for how long
  result,     \* result[c]: what c's last call returned
  began,      \* history: began[c], when c's call read the cache; 0 once it has
              \* what it returns
  until,      \* history: until[v], the last second of the longest max-age that came
              \* with v, counted from when the instance answered
  answered,   \* history: answered[c], when it gave the answer c is storing
  late        \* history: the longest a value took from an answer to the cache

server == <<now, rev>>
cache  == <<posts, communities, lock>>
call   == <<pc, key, found, answer, age, result>>
permission == <<until, answered, late>>
vars   == <<server, cache, up, call, began, permission>>

Step   == {"idle", "read", "delete", "deleting", "get", "asleep", "store", "storing"}
Result == [how : {"none", "hit", "fetched", "absent", "error"},
           value : PostValue \cup CommunityValue]
Start  == [how |-> "none", value |-> NoPost]

TypeOK ==
  /\ now         \in Time
  /\ rev         \in [Kept -> Rev]
  /\ posts       \in [PostKey -> Entry \cup {None}]
  /\ communities \in [CommunityKey -> Entry \cup {None}]
  /\ lock        \in Caller \cup {None}
  /\ up          \in BOOLEAN
  /\ pc          \in [Caller -> Step]
  /\ key         \in [Caller -> Key \cup {None}]
  /\ found       \in [Caller -> Entry \cup {None}]
  /\ answer      \in [Caller -> Seq(Pair)]
  /\ age         \in [Caller -> Nat]
  /\ result      \in [Caller -> Result]
  /\ began       \in [Caller -> Time]
  /\ until       \in [Sent -> Nat]
  /\ answered    \in [Caller -> Time]
  /\ late        \in Nat

Init ==
  /\ now         = 0
  /\ rev         = [t \in Kept |-> 0]
  /\ posts       = [k \in PostKey |-> None]
  /\ communities = [k \in CommunityKey |-> None]
  /\ lock        = None
  /\ up          = TRUE
  /\ pc          = [c \in Caller |-> "idle"]
  /\ key         = [c \in Caller |-> None]
  /\ found       = [c \in Caller |-> None]
  /\ answer      = [c \in Caller |-> <<>>]
  /\ age         = [c \in Caller |-> 0]
  /\ result      = [c \in Caller |-> Start]
  /\ began       = [c \in Caller |-> 0]
  /\ until       = [v \in Sent |-> 0]
  /\ answered    = [c \in Caller |-> 0]
  /\ late        = 0

(***************************************************************************)
(* The instance and the clock                                              *)
(***************************************************************************)
Tick == /\ now < MaxNow
        /\ now' = now + 1
        /\ UNCHANGED <<rev, cache, up, call, began, permission>>

\* Somebody posts, edits, founds or at last removes t.
Change(t) == /\ rev[t] <= MaxRev
             /\ rev' = [rev EXCEPT ![t] = @ + 1]
             /\ UNCHANGED <<now, cache, up, call, began, permission>>

There(t) == t \in Kept /\ rev[t] \in 1..MaxRev

(***************************************************************************)
(* A call                                                                  *)
(***************************************************************************)
Is(c, step) == up /\ pc[c] = step
Goto(c, step) == pc' = [pc EXCEPT ![c] = step]
Returns(c, how, value) ==
  /\ Goto(c, "idle")
  /\ result' = [result EXCEPT ![c] = [how |-> how, value |-> value]]
  /\ began'  = [began EXCEPT ![c] = 0]

IsPost(c) == key[c] \in PostKey

\* LookupPost or LookupCommunity.
Lookup(c, k) ==
  /\ Is(c, "idle")
  /\ key' = [key EXCEPT ![c] = k]
  /\ result' = [result EXCEPT ![c] = Start]
  /\ Goto(c, "read")
  /\ UNCHANGED <<server, cache, up, found, answer, age, began, permission>>

\* Posts, which only writes the cache, or a call that leaves it alone.
List(c) ==
  /\ Is(c, "idle")
  /\ key' = [key EXCEPT ![c] = None]
  /\ result' = [result EXCEPT ![c] = Start]
  /\ Goto(c, "get")
  /\ UNCHANGED <<server, cache, up, found, answer, age, began, permission>>

Cached(c) == IF IsPost(c) THEN posts[key[c]] ELSE communities[key[c]]

\* Mutant of Fresh: the second in which an entry expires still counts.
FreshToTheEnd(e) == now <= e.expiry
Fresh(e) == now < e.expiry

Read(c) ==
  /\ Is(c, "read")
  /\ \/ /\ Cached(c) = None
        /\ Goto(c, "get")
        /\ began' = [began EXCEPT ![c] = now]
        /\ UNCHANGED <<found, result>>
     \/ /\ Cached(c) # None /\ Fresh(Cached(c))
        /\ Returns(c, "hit", IF IsPost(c) THEN Cached(c).post ELSE Cached(c).community)
        /\ UNCHANGED found
     \/ /\ Cached(c) # None /\ ~Fresh(Cached(c))
        /\ Goto(c, "delete")
        /\ found' = [found EXCEPT ![c] = Cached(c)]
        /\ began' = [began EXCEPT ![c] = now]
        /\ UNCHANGED result
  /\ UNCHANGED <<server, cache, up, key, answer, age, permission>>

\* The runtime finds a map read while it is written.
Race(c) ==
  /\ Is(c, "read")
  /\ lock # None
  /\ up' = FALSE
  /\ UNCHANGED <<server, cache, call, began, permission>>

Lock(c) ==
  /\ \/ Is(c, "delete") /\ Goto(c, "deleting")
     \/ Is(c, "store")  /\ Goto(c, "storing")
  /\ lock = None
  /\ lock' = c
  /\ UNCHANGED <<server, posts, communities, up, key, found, answer, age, result,
                 began, permission>>

\* Mutant of Stale: LookupCommunity has LookupPost's arguments.
StalePost(c) == [post |-> found[c].post, community |-> NoCommunity]
\* What a lookup asks cache.delete to delete.
Stale(c) == IF IsPost(c)
              THEN [post |-> found[c].post, community |-> NoCommunity]
              ELSE [post |-> found[c].post, community |-> found[c].community]

\* cache.delete goes by what the entry holds, not by the key it was found under.
Delete(c) ==
  /\ Is(c, "deleting")
  /\ posts'       = [posts EXCEPT ![Stale(c).post.of] = None]
  /\ communities' = [communities EXCEPT ![Stale(c).community.of] = None]
  /\ lock' = None
  /\ found' = [found EXCEPT ![c] = None]
  /\ Goto(c, "get")
  /\ UNCHANGED <<server, up, key, answer, age, result, began, permission>>

(***************************************************************************)
(* The answers of the instance                                             *)
(***************************************************************************)
Asked(c)   == IF IsPost(c) THEN key[c]
              ELSE IF key[c] \in DOMAIN Canon THEN Canon[key[c]] ELSE key[c]
Current(t) == [of |-> t, rev |-> rev[t]]
AsPair(v)  == IF v.of \in PostKey THEN [post |-> v, community |-> NoCommunity]
                                  ELSE [post |-> NoPost, community |-> v]

\* 503: get sleeps two seconds and tries again, for ever.
Busy(c) == /\ Is(c, "get")
           /\ Goto(c, "asleep")
           /\ UNCHANGED <<server, cache, up, key, found, answer, age, result, began, permission>>
Wake(c) == /\ Is(c, "asleep")
           /\ Goto(c, "get")
           /\ UNCHANGED <<server, cache, up, key, found, answer, age, result, began, permission>>

\* No answer, another status, or an answer that cannot be used.
GetFails(c) ==
  /\ Is(c, "get")
  /\ Returns(c, "error", NoPost)
  /\ UNCHANGED <<server, cache, up, key, found, answer, age, permission>>

\* Communities and posts have a 404 of their own.
NotFound(c) ==
  /\ Is(c, "get")
  /\ key[c] # None
  /\ ~There(Asked(c))
  /\ Returns(c, "absent", NoPost)
  /\ UNCHANGED <<server, cache, up, key, found, answer, age, permission>>

\* Without a usable max-age nothing is stored.
AnswerOnce(c) ==
  /\ Is(c, "get")
  /\ key[c] # None
  /\ There(Asked(c))
  /\ Returns(c, "fetched", Current(Asked(c)))
  /\ UNCHANGED <<server, cache, up, key, found, answer, age, permission>>

\* Nor is anything of the answer to Communities, Comments or LookupComment.
AnswerUncached(c) ==
  /\ Is(c, "get")
  /\ key[c] = None
  /\ Returns(c, "fetched", NoPost)
  /\ UNCHANGED <<server, cache, up, key, found, answer, age, permission>>

Greater(m, n) == IF m < n THEN n ELSE m

\* The values to store, in order, for a seconds: the instance means from now.
Keeps(c, pairs, a) ==
  /\ answer'   = [answer EXCEPT ![c] = pairs]
  /\ age'      = [age EXCEPT ![c] = a]
  /\ began'    = [began EXCEPT ![c] = 0]
  /\ answered' = [answered EXCEPT ![c] = now]
  /\ until'    = [v \in DOMAIN until |->
                   IF \E i \in DOMAIN pairs : pairs[i] = AsPair(v)
                     THEN Greater(until[v], now + a) ELSE until[v]]
  /\ Goto(c, "store")

Answer(c) ==
  /\ Is(c, "get")
  /\ key[c] # None
  /\ There(Asked(c))
  /\ \E a \in Age : Keeps(c, <<AsPair(Current(Asked(c)))>>, a)
  /\ result' = [result EXCEPT ![c] = [how |-> "fetched", value |-> Current(Asked(c))]]
  /\ UNCHANGED <<server, cache, up, key, found, late>>

\* LookupPost stores before it looks at the error of decoding.
Garbled(c) ==
  /\ Is(c, "get")
  /\ IsPost(c)
  /\ \E a \in Age : Keeps(c, <<AsPair(NoPost)>>, a)
  /\ result' = [result EXCEPT ![c] = [how |-> "error", value |-> NoPost]]
  /\ UNCHANGED <<server, cache, up, key, found, late>>

\* A page of posts: any that are there, in any order, and should the instance
\* list one twice, Posts does not mind.
AnswerList(c) ==
  /\ Is(c, "get")
  /\ key[c] = None
  /\ \E n \in 1..MaxPosts, a \in Age \ {0} :
       \E s \in [1..n -> {t \in ID : There(t)}] :
         Keeps(c, [i \in 1..n |-> AsPair(Current(s[i]))], a)
  /\ result' = [result EXCEPT ![c] = [how |-> "fetched", value |-> NoPost]]
  /\ UNCHANGED <<server, cache, up, key, found, late>>

\* Mutant of Stored: a value is filed under what the caller looked up.
StoredAsAsked(c, p) == [post |-> IF IsPost(c) THEN key[c] ELSE Zero,
                        community |-> IF key[c] \in CommunityKey THEN key[c] ELSE AtSign]
\* cache.store: the name of no post and of no community is the empty string, so
\* both maps get the entry, Post{} under 0 and Community{} under "@" included.
Stored(c, p) == [post |-> p.post.of, community |-> p.community.of]

\* Mutants of Expiry: the age is taken off; it is counted twice.
ExpiryBack(c) == now - age[c]
ExpiryTwice(c) == now + 2 * age[c]
\* The code counts max-age from now, and not from the answer.
Expiry(c) == now + age[c]

\* cache.store for the next value.  The entry put among the communities holds
\* the post as well; that among the posts does not hold the community.
Store(c) ==
  LET p == Head(answer[c])
      u == Expiry(c)
  IN /\ Is(c, "storing")
     /\ posts' = [posts EXCEPT ![Stored(c, p).post] =
                    [post |-> p.post, community |-> NoCommunity, expiry |-> u]]
     /\ communities' = [communities EXCEPT ![Stored(c, p).community] =
                    [post |-> p.post, community |-> p.community, expiry |-> u]]
     /\ late' = Greater(late, now - answered[c])
     /\ lock' = None
     /\ answer' = [answer EXCEPT ![c] = Tail(@)]
     /\ \/ /\ Tail(answer[c]) = <<>> /\ Goto(c, "idle")
           /\ age' = [age EXCEPT ![c] = 0] /\ answered' = [answered EXCEPT ![c] = 0]
        \/ Tail(answer[c]) # <<>> /\ Goto(c, "store") /\ UNCHANGED <<age, answered>>
     /\ UNCHANGED <<server, up, key, found, result, began, until>>

Works(c) == \/ Read(c) \/ Race(c) \/ Lock(c) \/ Delete(c) \/ Store(c)
            \/ Busy(c) \/ Wake(c)
Gets(c)  == \/ GetFails(c) \/ NotFound(c) \/ AnswerOnce(c) \/ AnswerUncached(c)
            \/ Answer(c) \/ Garbled(c) \/ AnswerList(c)

Next == \/ Tick
        \/ \E t \in Kept : Change(t)
        \/ \E c \in Caller : List(c) \/ Works(c) \/ Gets(c)
        \/ \E c \in Caller, k \in Lookups : Lookup(c, k)

Spec == Init /\ [][Next]_vars

(***************************************************************************)
(* Properties                                                              *)
(***************************************************************************)

\* Whichever goroutines stored and deleted in whatever order, an entry is about
\* what it is filed under, and is what the instance has or had.
EntriesAreTrue ==
  /\ \A k \in PostKey : posts[k] # None =>
       /\ posts[k].post.of = k
       /\ k \in ID => posts[k].post.rev \in 1..rev[k]
  /\ \A k \in CommunityKey : communities[k] # None =>
       /\ communities[k].community.of = k
       /\ k \in Name => communities[k].community.rev \in 1..rev[k]

\* What a lookup gets from the cache is about what it asked for, and the instance
\* sent it with leave to reuse it still.  That runs from the answer, but the code
\* counts max-age from the store: the leave is overdrawn, by as long as a goroutine
\* took from an answer to its store, and by no more.
HitsArePermitted ==
  [][\A c \in Caller : (result[c].how = "none" /\ result'[c].how = "hit") =>
       LET v == result'[c].value
       IN /\ v.of = key[c]
          /\ v.of \in Kept => now < until[v] + late]_vars

\* A lookup that goes on to the instance has removed what it found expired,
\* though it deletes by value and others store and delete meanwhile.
ExpiredIsDropped ==
  \A c \in Caller : (pc[c] \in {"get", "asleep"} /\ key[c] # None) =>
    Cached(c) = None \/ Cached(c).expiry >= began[c]
=============================================================================
