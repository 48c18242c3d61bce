------------------------------ MODULE Windows ------------------------------
(***************************************************************************)
(* cmd/Lemmy: acme windows on the communities of a Lemmy instance, on a     *)
(* community's posts and on a post with its comments.                      *)
(*                                                                         *)
(* main opens the list of communities.  Each window that loads gets a       *)
(* goroutine with an event loop, which opens further windows when a word in *)
(* its window is looked at, and takes no other event until that is done.    *)
(* acme and its library are external: acme passes a Del to the loop, which  *)
(* hands it back, and deletes the window; a window without a loop it        *)
(* deletes alone, and the library, which ends the program after its last    *)
(* window, does not learn of it.                                           *)
(***************************************************************************)
EXTENDS SequencesExt, Integers

CONSTANTS
  Community,   \* names of communities
  PostID,      \* posts
  Listings,    \* what the instance may list as a post's comments
  MaxWindows   \* bound: windows made

Main   == 0
Window == 1..MaxWindows

\* Names of windows: /lemmy/, /lemmy/<community>/ and /lemmy/<base>/<post>.
Root     == <<>>
Base     == Community \cup PostID \cup {"lemmy"}
Name     == {Root} \cup {<<c>> : c \in Community} \cup (Base \X PostID)
\* Mutant of BaseOf: the list of communities is taken for the file system's root.
BaseOrSlash(name) == IF name = Root THEN "/" ELSE Last(name)
BaseOf(name) == IF name = Root THEN "lemmy" ELSE Last(name)
IsPost(name) == Len(name) = 2

(***************************************************************************)
(* The thread under a post.  A comment is [id, path]: the IDs of those it   *)
(* answers, from 0, and its own.  The instance lists a comment once; the    *)
(* path of an answer goes on from that of what it answers; of those it      *)
(* answers some may not be listed.                                         *)
(***************************************************************************)
Comment == [id : Nat, path : Seq(Nat)]
IDs(pool) == {pool[k].id : k \in DOMAIN pool}
IsListing(pool) ==
  /\ \A k \in DOMAIN pool : LET p == pool[k].path
                            IN  Len(p) > 1 /\ p[1] = 0 /\ p[Len(p)] = pool[k].id
  /\ 0 \notin IDs(pool)
  /\ \A k, m \in DOMAIN pool : pool[k].id = pool[m].id => k = m
  /\ \A k, m \in DOMAIN pool : \A e \in 1..Len(pool[k].path) :
       pool[k].path[e] = pool[m].id => /\ Len(pool[m].path) = e
                                      /\ \A x \in 1..e : pool[m].path[x] = pool[k].path[x]
ASSUME ListingsAssumption ==
  Listings \subseteq Seq(Comment) /\ \A pool \in Listings : IsListing(pool)

Parent(c) == c.path[Len(c.path) - 1]
\* Mutant of children: all that answer it, through others too.
descendants(parent, pool) ==
  {k \in DOMAIN pool : \E e \in 1..Len(pool[k].path) - 1 : pool[k].path[e] = parent}
children(parent, pool) == {k \in DOMAIN pool : Parent(pool[k]) = parent}

\* Of the comments in S, in the order they are listed, a line at depth d, and
\* then the lines below it.
Lines(pool, S, d, below) ==
  FlattenSeq([k \in DOMAIN pool |->
    IF k \in S THEN <<[id |-> pool[k].id, depth |-> d]>> \o below[pool[k].id] ELSE <<>>])

\* The lines below each comment: its children, each with those below it.  No
\* comment has more generations below it than there are comments.
printThread(pool) ==
  LET thread[n \in 0..Len(pool)] ==   \* of n generations
        [parent \in IDs(pool) |->
           IF n = 0 THEN <<>>
           ELSE Lines(pool, children(parent, pool), Len(pool) - n + 1, thread[n - 1])]
  IN  thread[Len(pool)]

\* loadComments: the roots, which name themselves and 0 only, in turn.
Roots(pool) == {k \in DOMAIN pool : Len(pool[k].path) = 2}
loadComments(pool) == Lines(pool, Roots(pool), 0, printThread(pool))
Thread == {<<>>} \cup {loadComments(pool) : pool \in Listings}

VARIABLES
  up,        \* "running", "exited" after the last window, "fatal"
  ready,     \* client.ready
  autoExit,  \* the library is to end the program after the last window
  win,       \* win[i]: acme's window i, and what has been written to it
  known,     \* windows the library knows of
  loop,      \* loop[i]: the goroutine with the event loop of window i
  job        \* job[g]: what main or that goroutine is opening, and how far it is

vars == <<up, ready, autoExit, win, known, loop, job>>

NoWindow == [state |-> "none", name |-> Root, dirty |-> FALSE, body |-> "none",
             pool |-> <<>>, thread |-> <<>>]
NoJob    == [step |-> "none", name |-> Root, window |-> 0]

TypeOK ==
  /\ up \in {"running", "exited", "fatal"}
  /\ ready \in BOOLEAN /\ autoExit \in BOOLEAN
  /\ win \in [Window -> [state : {"none", "open", "deleted"}, name : Name,
                        dirty : BOOLEAN, body : {"none", "some", "all"},
                        pool : Listings \cup {<<>>}, thread : Thread]]
  /\ known \subseteq Window
  /\ loop \in [Window -> {"none", "idle", "busy", "ended"}]
  /\ job \in [{Main} \cup Window ->
       [step : {"none", "look up", "make", "load", "load more", "start", "clean"},
        name : Name, window : {0} \cup Window]]

Init ==
  /\ up = "running"
  /\ ready \in BOOLEAN   \* -l logs in first
  /\ autoExit = FALSE
  /\ win   = [i \in Window |-> NoWindow]
  /\ known = {}
  /\ loop  = [i \in Window |-> "none"]
  /\ job   = [g \in {Main} \cup Window |->
                IF g = Main THEN [NoJob EXCEPT !.step = "make"] ELSE NoJob]

(***************************************************************************)
(* openCommunityList, openCommunity and openPost, by main or a loop         *)
(***************************************************************************)
At(g, step)    == up = "running" /\ job[g].step = step
GoTo(g, step)  == job' = [job EXCEPT ![g].step = step]
Done(g)        == /\ job'  = [job EXCEPT ![g] = NoJob]
                  /\ loop' = IF g = Main THEN loop ELSE [loop EXCEPT ![g] = "idle"]

\* LookupCommunity or LookupPost: not found, failed, or there.
LookUp(g) ==
  /\ At(g, "look up")
  /\ \/ Done(g)
     \/ GoTo(g, "make") /\ UNCHANGED loop
  /\ UNCHANGED <<up, ready, autoExit, win, known>>

\* acme.New, Name and Ctl("dirty").
Make(g) ==
  /\ At(g, "make")
  /\ \E i \in Window :
       /\ \A k \in Window : win[k].state = "none" <=> k >= i
       /\ win' = [win EXCEPT ![i].state = "open", ![i].name = job[g].name, ![i].dirty = TRUE]
       /\ known' = known \cup {i}
       /\ job' = [job EXCEPT ![g].step = "load", ![g].window = i]
  /\ UNCHANGED <<up, ready, autoExit, loop>>

\* log.Fatal.
MakeFails(g) ==
  /\ At(g, "make")
  /\ up' = "fatal"
  /\ UNCHANGED <<ready, autoExit, win, known, loop, job>>

\* What is written to a window that has been deleted is lost, unnoticed.
Write(i, w) == win' = IF win[i].state = "open" THEN [win EXCEPT ![i] = w] ELSE win

\* Communities makes the client ready before it asks; Posts; a post itself is
\* there already.
Load(g) ==
  /\ At(g, "load")
  /\ ready' = (ready \/ job[g].name = Root)
  /\ LET i == job[g].window
     IN  Write(i, [win[i] EXCEPT !.body = IF IsPost(win[i].name) THEN "some" ELSE "all"])
  /\ IF IsPost(job[g].name)
     THEN GoTo(g, "load more")
     ELSE GoTo(g, "start")
  /\ UNCHANGED <<up, autoExit, known, loop>>

LoadMore(g) ==
  /\ At(g, "load more")
  /\ \E pool \in Listings :
       LET i == job[g].window
       IN  Write(i, [win[i] EXCEPT !.body = "all", !.pool = pool,
                                   !.thread = loadComments(pool)])
  /\ GoTo(g, "start")
  /\ UNCHANGED <<up, ready, autoExit, known, loop>>

\* Mutant of Unloaded: the loop is started for what there is.
StartAnyway(g) == GoTo(g, "start")
\* Mutant of Unloaded: nothing is deferred.
NotCleaned(g) == job' = [job EXCEPT ![g] = NoJob]
\* The deferred Ctl("clean"); no loop is started.
Unloaded(g) == GoTo(g, "clean")
\* The client cannot be made ready, or the instance cannot be asked.
LoadFails(g) ==
  /\ \/ At(g, "load") /\ ~IsPost(job[g].name)
     \/ At(g, "load more")
  /\ ready' \in {ready, ready \/ job[g].name = Root}
  /\ Unloaded(g)
  /\ UNCHANGED <<up, autoExit, win, known, loop>>

\* go win.EventLoop.
Start(g) ==
  /\ At(g, "start")
  /\ loop' = [loop EXCEPT ![job[g].window] = "idle"]
  /\ GoTo(g, "clean")
  /\ UNCHANGED <<up, ready, autoExit, win, known>>

Clean(g) ==
  /\ At(g, "clean")
  /\ LET i == job[g].window IN Write(i, [win[i] EXCEPT !.dirty = FALSE])
  /\ Done(g)
  /\ UNCHANGED <<up, ready, autoExit, known>>

\* What main does after it has opened its window.
AutoExit ==
  /\ At(Main, "none") /\ ~autoExit
  /\ autoExit' = TRUE
  /\ UNCHANGED <<up, ready, win, known, loop, job>>

(***************************************************************************)
(* The user, acme and the event loops                                      *)
(***************************************************************************)
Listens(i) == up = "running" /\ loop[i] = "idle" /\ win[i].state = "open"

\* Mutant of Looking: the window is opened in the background.
LookedAway == "idle"
Looking == "busy"
\* A number is a post, in the window's last element for a community; anything
\* else a community.  (Looking at a whole window name shows that window.)
Look(i) ==
  /\ Listens(i)
  /\ job[i] = NoJob
  /\ \E name \in {<<c>> : c \in Community} \cup {<<BaseOf(win[i].name), p>> : p \in PostID} :
       job' = [job EXCEPT ![i].step = "look up", ![i].name = name]
  /\ loop' = [loop EXCEPT ![i] = Looking]
  /\ UNCHANGED <<up, ready, autoExit, win, known>>

\* acme.Show finds that the window of this name is gone; no community has a
\* window's name.
LookForGone(i) ==
  /\ Listens(i)
  /\ \E k \in known : win[k].state = "deleted" /\ known' = known \ {k}
  /\ UNCHANGED <<up, ready, autoExit, win, loop, job>>

\* Of a window whose loop is busy, acme waits for the answer.
Del(i) ==
  /\ up = "running"
  /\ win[i].state = "open" /\ loop[i] # "busy"
  /\ win' = [win EXCEPT ![i] = [NoWindow EXCEPT !.state = "deleted"]]
  /\ UNCHANGED <<up, ready, autoExit, known, loop, job>>

EndLoop(i) ==
  /\ up = "running"
  /\ win[i].state = "deleted" /\ loop[i] = "idle"
  /\ loop'  = [loop EXCEPT ![i] = "ended"]
  /\ known' = known \ {i}
  /\ up'    = IF autoExit /\ known' = {} THEN "exited" ELSE up
  /\ UNCHANGED <<ready, autoExit, win, job>>

Step(g) == \/ LookUp(g) \/ Make(g) \/ MakeFails(g) \/ Load(g) \/ LoadMore(g)
           \/ LoadFails(g) \/ Start(g) \/ Clean(g)
Next == \/ AutoExit
        \/ \E g \in {Main} \cup Window : Step(g)
        \/ \E i \in Window : Look(i) \/ LookForGone(i) \/ Del(i) \/ EndLoop(i)

\* Goroutines go on, calls to the instance and to acme return.
Fairness == /\ WF_vars(AutoExit)
            /\ \A g \in {Main} \cup Window : WF_vars(Step(g))
            /\ \A i \in Window : WF_vars(EndLoop(i))
Spec == Init /\ [][Next]_vars /\ Fairness

(***************************************************************************)
(* Properties                                                              *)
(***************************************************************************)

Looped(i) == loop[i] \in {"idle", "busy"}

\* A window that reacts has all of what it shows: none whose loading failed or
\* goes on has an event loop.
LoopsAreWhole ==
  \A i \in Window : Looped(i) /\ win[i].state = "open" => win[i].body = "all"

\* The comments whose ancestors are all listed.
There(pool) ==
  {k \in DOMAIN pool : \A e \in 2..Len(pool[k].path) : pool[k].path[e] \in IDs(pool)}

ShowsAll(t, pool) ==
  /\ {t[j].id : j \in DOMAIN t} = {pool[k].id : k \in There(pool)}
  /\ Len(t) = Cardinality(There(pool))
  /\ \A j \in DOMAIN t : \A k \in There(pool) : t[j].id = pool[k].id =>
       LET above == {a \in 1..j-1 : t[a].depth < t[j].depth}
       IN  IF above = {} THEN Parent(pool[k]) = 0 /\ t[j].depth = 0
           ELSE LET a == CHOOSE a \in above : \A b \in above : b <= a
                IN  t[a].id = Parent(pool[k]) /\ t[a].depth = t[j].depth - 1

\* However the instance orders the comments, the thread shows each one whose
\* ancestors are all listed, once, under its parent: the last line above that is
\* less deep, by one.
ThreadIsWhole ==
  \A i \in Window : ShowsAll(win[i].thread, win[i].pool)

\* A window is marked as modified, so that acme warns of deleting it, only while
\* it is being opened: a failure does not leave it so.
DirtyIsBeingOpened ==
  up = "running" =>
    \A i \in Window : win[i].dirty => \E g \in DOMAIN job : job[g].window = i

\* No two goroutines make the client ready: the first call returns before
\* another goroutine can call.
ReadyBeforeLoops == (\E i \in Window : loop[i] # "none") => ready

\* The program ends by itself only when no window is left, and not while one is
\* being opened.
ExitLosesNothing ==
  up = "exited" => /\ \A i \in Window : win[i].state # "open"
                   /\ \A g \in DOMAIN job : job[g] = NoJob

\* It does end when the last window goes, if every window the library knows of
\* has a loop and main has got as far as to ask for it.
EndsWithLastWindow ==
  /\ up = "running" /\ autoExit /\ known # {}
  /\ \A i \in known : loop[i] = "idle" /\ win[i].state = "deleted"
  ~> up # "running"
=============================================================================
