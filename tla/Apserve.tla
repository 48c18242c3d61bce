------------------------------ MODULE Apserve ------------------------------
(***************************************************************************)
(* cmd/apserve, the HTTP server: the ActivityPub inbox of its users.        *)
(*                                                                         *)
(* handleInbox checks a POST, answers it and, for what can be mail, starts *)
(* a goroutine that relays the activity to the mailer.  The answer is sent *)
(* before the relay has done anything, nothing is kept on disk, and a      *)
(* crash takes every relay with it; an apsend already started runs on.     *)
(* The mailer is the one Dispatch specifies.                               *)
(***************************************************************************)
EXTENDS Integers

CONSTANTS
  Req,       \* HTTP requests that arrive
  Post,      \* what a request may hold, see PostAssumption
  User,      \* user names
  AcceptFor, \* those the server takes activities for (field acceptFor)
  Activity,  \* activities that can be posted, wrapped or fetched
  Nothing,   \* no activity: JSON that is missing, a URL, or not an activity
  Type,      \* Type[a]: its "type"
  Object,    \* Object[a]: the activity embedded in a as its object, or Nothing
  ByID,      \* activities whose object is a URL instead
  Bare,      \* Notes without content and Pages without a name
  Fetched,   \* Fetched[a]: what the server at a's ID holds
  Dated      \* activities with a published date

ASSUME UserAssumption == AcceptFor \subseteq User
ASSUME PostAssumption ==
  /\ Post \subseteq [isPost : BOOLEAN,       \* the method is POST
                     isActivity : BOOLEAN,   \* Content-Type is ActivityPub's
                     user : User,            \* the user in the URL's path
                     body : Activity \cup {Nothing}]
  /\ Nothing \notin Post                    \* a request that has not arrived
ASSUME ActivityAssumption ==
  /\ Nothing \notin Activity
  /\ Type    \in [Activity -> STRING]
  /\ Object  \in [Activity -> Activity \cup {Nothing}]
  /\ Fetched \in [Activity -> Activity \cup {Nothing}]
  /\ ByID \subseteq {a \in Activity : Object[a] = Nothing}
  /\ Bare \subseteq Activity
  /\ Dated \subseteq Activity

VARIABLES
  up,        \* the server process is running
  post,      \* post[q]: the request, once it has arrived
  answer,    \* answer[q]: its HTTP status, 0 until then
  relay,     \* relay[q]: where the goroutine serving q is
  activity,  \* activity[q]: the variable of that name in relay
  failed,    \* history: failed[q], a lookup for q failed or the server died
  looked,    \* history: looked[q], activities fetched for q
  owed, settled, report    \* the mailer's: one execution for each request

handler == <<post, answer>>
history == <<failed, looked>>
mailer  == <<owed, settled, report>>
vars    == <<up, handler, relay, activity, history, mailer>>

Mailer == INSTANCE Dispatch WITH Run <- Req, Item <- User

Relay == {"none", "switch", "marshal", "mailing", "returned"}

TypeOK ==
  /\ up       \in BOOLEAN
  /\ post     \in [Req -> Post \cup {Nothing}]
  /\ answer   \in [Req -> {0, 202, 400, 404, 405, 415, 500}]
  /\ relay    \in [Req -> Relay]
  /\ activity \in [Req -> Activity \cup {Nothing}]
  /\ failed   \in [Req -> BOOLEAN]
  /\ looked   \in [Req -> SUBSET Activity]
  /\ Mailer!TypeOK

Init ==
  /\ up       = TRUE
  /\ post     = [q \in Req |-> Nothing]
  /\ answer   = [q \in Req |-> 0]
  /\ relay    = [q \in Req |-> "none"]
  /\ activity = [q \in Req |-> Nothing]
  /\ failed   = [q \in Req |-> FALSE]
  /\ looked   = [q \in Req |-> {}]
  /\ Mailer!Init

(***************************************************************************)
(* Unwrap.  A URL is in the RawMessage Object with its quotes, so the test  *)
(* for the prefix "https" never succeeds: the string is decoded as an       *)
(* activity, which fails.  Only an embedded object is ever returned.       *)
(***************************************************************************)
Unwrap(a) == Object[a]

\* What handleInbox calls activity: an Announce stands for its object.
Announced(a) == IF a = Nothing THEN Nothing
                ELSE IF Type[a] = "Announce" THEN Unwrap(a) ELSE a

(***************************************************************************)
(* handleInbox.  It shares nothing with other requests, so a request is one *)
(* step: the status is the first check that fails.                          *)
(***************************************************************************)
\* Mutant of Accepted: no WriteHeader, so net/http answers 200.
ImplicitOK == 200
Accepted == 202

StatusOf(p) ==
  CASE ~p.isPost                   -> 405
    [] p.isPost /\ ~p.isActivity   -> 415
    [] OTHER ->
         IF p.user \notin AcceptFor    \* unknown, or not served
           THEN 404
           ELSE IF Announced(p.body) = Nothing THEN 400 ELSE Accepted

\* Mutant of Relays: the missing return after an error answer.
RelaysAnyway(p) ==
  /\ Announced(p.body) # Nothing
  /\ Type[Announced(p.body)] \in {"Create", "Note", "Page", "Article"}
Relays(p) ==
  /\ StatusOf(p) = Accepted
  /\ Type[Announced(p.body)] \in {"Create", "Note", "Page", "Article"}

HandleInbox(q) ==
  /\ up
  /\ post[q] = Nothing
  /\ \E p \in Post :
       /\ post'   = [post EXCEPT ![q] = p]
       /\ answer' = [answer EXCEPT ![q] = StatusOf(p)]
       /\ IF Relays(p)
            THEN /\ relay'    = [relay EXCEPT ![q] = "switch"]
                 /\ activity' = [activity EXCEPT ![q] = Announced(p.body)]
            ELSE UNCHANGED <<relay, activity>>
  /\ UNCHANGED <<up, history, mailer>>

\* The account database cannot be read.
LookupUserFails(q) ==
  /\ up
  /\ post[q] = Nothing
  /\ \E p \in Post : /\ p.isPost /\ p.isActivity
                     /\ post' = [post EXCEPT ![q] = p]
  /\ answer' = [answer EXCEPT ![q] = 500]
  /\ UNCHANGED <<up, relay, activity, history, mailer>>

(***************************************************************************)
(* relay, the goroutine                                                    *)
(***************************************************************************)
At(q, step) == up /\ relay[q] = step
Goto(q, step) == relay' = [relay EXCEPT ![q] = step]
Kind(q) == Type[activity[q]]
\* Mutant of IsBare: what was posted is never fetched.
NeverBare(q) == FALSE
IsBare(q) == activity[q] \in Bare

\* A Note or Page that came with its text.
Keep(q) ==
  /\ At(q, "switch")
  /\ Kind(q) \in {"Note", "Page"} /\ ~IsBare(q)
  /\ Goto(q, "marshal")
  /\ UNCHANGED <<up, handler, activity, history, mailer>>

\* One that did not is fetched by its ID; whatever that is goes on as mail.
Dereference(q) ==
  /\ At(q, "switch")
  /\ Kind(q) \in {"Note", "Page"} /\ IsBare(q)
  /\ Fetched[activity[q]] # Nothing
  /\ looked'   = [looked EXCEPT ![q] = @ \cup {activity[q]}]
  /\ activity' = [activity EXCEPT ![q] = Fetched[@]]
  /\ Goto(q, "marshal")
  /\ UNCHANGED <<up, handler, failed, mailer>>

\* MarshalMail looks up every actor the activity names, and one is not found.
LookupFails(q) ==
  /\ At(q, "marshal")
  /\ failed' = [failed EXCEPT ![q] = TRUE]
  /\ Goto(q, "returned")
  /\ UNCHANGED <<up, handler, activity, looked, mailer>>

\* Mutant of Wraps: only the outer Create is opened.
WrapsCreate(q) == Kind(q) = "Create"
Wraps(q) == Kind(q) \in {"Create", "Update"}

\* relay calls itself with what is wrapped, and returns when that does.
UnwrapCreate(q) ==
  /\ At(q, "switch")
  /\ Wraps(q)
  /\ IF Unwrap(activity[q]) # Nothing
       THEN /\ activity' = [activity EXCEPT ![q] = Unwrap(@)]
            /\ UNCHANGED relay
       ELSE /\ Goto(q, "returned")
            /\ UNCHANGED activity
  /\ UNCHANGED <<up, handler, history, mailer>>

Ignore(q) ==
  /\ At(q, "switch")
  /\ Kind(q) \notin {"Note", "Page"} /\ ~Wraps(q)
  /\ Goto(q, "returned")
  /\ UNCHANGED <<up, handler, activity, history, mailer>>

\* The mail is written and apsend executed for the user.
Execute(q) ==
  /\ At(q, "marshal")
  /\ activity[q] \in Dated
  /\ Mailer!Start(q, {post[q].user})
  /\ Goto(q, "mailing")
  /\ UNCHANGED <<up, handler, activity, history>>

\* cmd.Run has returned; a failure is only logged.
Returned(q) ==
  /\ At(q, "mailing")
  /\ report[q] \in Mailer!Report
  /\ Goto(q, "returned")
  /\ UNCHANGED <<up, handler, activity, history, mailer>>

(***************************************************************************)
(* The process                                                             *)
(***************************************************************************)

\* Every goroutine dies with the process, and nothing remembers them.
Live(q) == relay[q] \in {"switch", "marshal", "mailing"}
Dies == /\ up' = FALSE
        /\ relay'  = [q \in Req |-> IF Live(q) THEN "returned" ELSE relay[q]]
        /\ failed' = [q \in Req |-> failed[q] \/ Live(q)]

\* Two nil dereferences in a goroutine of our own, which nothing recovers: the
\* date MarshalMail formats is not there, or the activity whose fetch failed
\* was replaced by nil before the failure is logged.
Panic(q) ==
  /\ \/ At(q, "marshal") /\ activity[q] \notin Dated
     \/ At(q, "switch") /\ Kind(q) \in {"Note", "Page"} /\ IsBare(q)
  /\ Dies
  /\ UNCHANGED <<handler, activity, looked, mailer>>

Crash == up /\ Dies /\ UNCHANGED <<handler, activity, looked, mailer>>

Restart ==
  /\ ~up
  /\ up' = TRUE
  /\ UNCHANGED <<handler, relay, activity, history, mailer>>

Mail(q) == Mailer!Work(q) /\ UNCHANGED <<up, handler, relay, activity, history>>

RelayStep(q) == \/ Keep(q) \/ Dereference(q) \/ LookupFails(q)
                \/ UnwrapCreate(q) \/ Ignore(q)
                \/ Execute(q) \/ Panic(q) \/ Returned(q)

Next == \/ \E q \in Req : HandleInbox(q) \/ LookupUserFails(q) \/ RelayStep(q) \/ Mail(q)
        \/ Crash \/ Restart

Spec == Init /\ [][Next]_vars

\* The Go scheduler runs every goroutine, lookups return and apsend reports.
\* Requests need not come, and whoever runs the server need not restart it.
FairSpec ==
  /\ Spec
  /\ \A q \in Req : WF_vars(RelayStep(q))
  /\ \A q \in Req : WF_vars(Mail(q) /\ report'[q] # report[q])

(***************************************************************************)
(* Properties                                                              *)
(***************************************************************************)
Mailed(q) == report[q] # "idle"

\* A POST the server did not accept has no effect: nothing is fetched for it
\* and no mail is made of it, for any user.
RefusedHasNoEffect ==
  \A q \in Req : answer[q] # 202 =>
    relay[q] = "none" /\ looked[q] = {} /\ ~Mailed(q)

\* Sets that hold, with a Create or Update, also what it wraps.
Opened(S) ==
  \A a \in S : Type[a] \in {"Create", "Update"} /\ Object[a] # Nothing => Object[a] \in S
\* An activity, what it wraps, and so on inwards: the smallest such set.
Inside == [a \in Activity |->
  {b \in Activity : \A S \in SUBSET Activity : a \in S /\ Opened(S) => b \in S}]

\* What a posted activity holds: the object of an Announce, and what is in the
\* Creates and Updates around it.  What is without text stands for another.
Text(a) == IF a \in Bare THEN Fetched[a] ELSE a
Posted(q) == Inside[Announced(post[q].body)]

\* Mail is made of the Note or Page in there, and goes only to the user the
\* request named and the server serves.
MailIsOfPost ==
  \A q \in Req : Mailed(q) =>
    /\ owed[q] = {post[q].user} /\ post[q].user \in AcceptFor
    /\ \E a \in Posted(q) : Type[a] \in {"Note", "Page"} /\ activity[q] = Text(a)

\* q was answered 202 and holds an activity of one of these types.
TakenIn(q, types) ==
  IF answer[q] # 202 THEN FALSE ELSE \E a \in Posted(q) : Type[a] \in types
\* What was posted or announced is an edit, with no Create around it.
IsEdit(q) == Type[Announced(post[q].body)] = "Update"
OfKind(q, types) == TakenIn(q, types) /\ ~IsEdit(q)

\* What becomes of each Note and Page answered 202, however it is wrapped: that in
\* an Update with no Create around it is dropped at the door, and no goroutine is
\* ever started for it; any other is in its goroutine's hands or apsend has been
\* started with it, unless a lookup for it failed or the server died with it, of a
\* crash or of a panic of any goroutine's.
OnlyEditsAreDropped ==
  \A q \in Req : TakenIn(q, {"Note", "Page"}) =>
    IF IsEdit(q) THEN relay[q] = "none" /\ ~Mailed(q)
    ELSE relay[q] \in {"switch", "marshal"} \/ Mailed(q) \/ failed[q]

\* A 202 is an obligation: for a Note or Page taken in, but not as an edit on its
\* own, apsend is started at last, unless one of its own lookups fails or the server
\* dies meanwhile (of any request's panic, too).  No interleaving of requests and
\* relays loses it otherwise.
AcceptedIsMailed ==
  \A q \in Req : OfKind(q, {"Note", "Page"}) ~> Mailed(q) \/ failed[q]

\* doc/apas.md, 3: "Accept and Rejects from Follow requests can be received via
\* ActivityPub and delivered as mail".
AcceptIsMailed ==
  \A q \in Req : OfKind(q, {"Accept", "Reject"}) ~> Mailed(q) \/ failed[q]

\* apub.go, Unwrap: "The Activity may be referenced by ID, in which case the
\* activity is looked up": an Announce of a reference is not refused before.
ReferenceIsLookedUp ==
  \A q \in Req :
    answer[q] = 400 /\ post[q].body \in ByID => looked[q] # {}
=============================================================================
