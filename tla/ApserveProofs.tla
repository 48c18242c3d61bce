--------------------------- MODULE ApserveProofs ---------------------------
(***************************************************************************)
(* What is proved of Apserve, for any number of requests, any activities   *)
(* wrapped in each other in any way, and whatever other servers hold.      *)
(***************************************************************************)
EXTENDS Apserve, TLAPS

(***************************************************************************)
(* The inductive invariant                                                 *)
(***************************************************************************)

\* A request that is relayed was accepted.
TakenInv(q) ==
  /\ post[q] = Nothing => relay[q] = "none"
  /\ relay[q] = "none" => looked[q] = {} /\ ~Mailed(q)
  /\ relay[q] # "none" => /\ answer[q] = 202
                          /\ post[q] \in Post /\ post[q].user \in AcceptFor
                          /\ Announced(post[q].body) \in Activity
                          /\ Relays(post[q])

\* The goroutine opens what was posted, and mails what it found in it.
TextFound(q) ==
  \E a \in Posted(q) : Type[a] \in {"Note", "Page"} /\ activity[q] = Text(a)

OpenedInv(q) ==
  /\ relay[q] = "switch" => activity[q] \in Posted(q)
  /\ relay[q] = "marshal" \/ Mailed(q) => TextFound(q)
  /\ relay[q] \in {"switch", "marshal"} => ~Mailed(q)
  /\ Mailed(q) => owed[q] = {post[q].user}

RelayInv(q) == TakenInv(q) /\ OpenedInv(q)
RelaysKept  == \A q \in Req : RelayInv(q)

(***************************************************************************)
(* What is inside an activity                                              *)
(***************************************************************************)
LEMMA InsideItself ==
  ASSUME NEW a \in Activity
  PROVE  a \in Inside[a] /\ Inside[a] \subseteq Activity
BY DEF Inside

LEMMA InsideOpened ==
  ASSUME NEW a \in Activity, NEW b \in Inside[a],
         Type[b] \in {"Create", "Update"}, Object[b] # Nothing
  PROVE  Object[b] \in Inside[a]
<1>1. b \in Activity /\ \A S \in SUBSET Activity : a \in S /\ Opened(S) => b \in S
  BY DEF Inside
<1>2. Object[b] \in Activity
  BY <1>1, ActivityAssumption
<1>3. ASSUME NEW S \in SUBSET Activity, a \in S, Opened(S) PROVE Object[b] \in S
  BY <1>1, <1>3 DEF Opened
<1> QED
  BY <1>2, <1>3 DEF Inside

(***************************************************************************)
(* handleInbox                                                             *)
(***************************************************************************)
LEMMA StatusTypes ==
  ASSUME NEW p \in Post
  PROVE  /\ StatusOf(p) \in {202, 400, 404, 405, 415}
         /\ Announced(p.body) \in Activity \cup {Nothing}
         /\ StatusOf(p) = 202 => /\ p.user \in AcceptFor /\ Announced(p.body) # Nothing
<1>1. p.isPost \in BOOLEAN /\ p.isActivity \in BOOLEAN /\ p.body \in Activity \cup {Nothing}
  BY PostAssumption
<1>2. Announced(p.body) \in Activity \cup {Nothing}
  BY <1>1, ActivityAssumption DEF Announced, Unwrap
<1>3. CASE ~p.isPost
  BY <1>2, <1>3 DEF StatusOf
<1>4. CASE p.isPost /\ ~p.isActivity
  BY <1>2, <1>4 DEF StatusOf
<1>5. CASE p.isPost /\ p.isActivity
  BY <1>2, <1>5 DEF StatusOf, Accepted
<1> QED
  BY <1>1, <1>3, <1>4, <1>5

LEMMA RelaysAccepted ==
  ASSUME NEW p \in Post, Relays(p)
  PROVE  StatusOf(p) = 202 /\ p.user \in AcceptFor /\ Announced(p.body) \in Activity
BY StatusTypes DEF Relays, Accepted

(***************************************************************************)
(* Types                                                                   *)
(***************************************************************************)
LEMMA TypeInit == Init => TypeOK
BY DEF Init, TypeOK, Relay, Mailer!Init, Mailer!TypeOK

LEMMA TypeStep ==
  ASSUME TypeOK, RelaysKept, [Next]_vars
  PROVE  TypeOK'
<1> USE DEF TypeOK, handler, history, mailer, Mailer!TypeOK
<1>1. CASE UNCHANGED vars
  BY <1>1 DEF vars
<1>2. ASSUME NEW q \in Req, HandleInbox(q) PROVE TypeOK'
  <2>1. PICK p \in Post :
          /\ post' = [post EXCEPT ![q] = p]
          /\ answer' = [answer EXCEPT ![q] = StatusOf(p)]
          /\ IF Relays(p)
               THEN /\ relay'    = [relay EXCEPT ![q] = "switch"]
                    /\ activity' = [activity EXCEPT ![q] = Announced(p.body)]
               ELSE UNCHANGED <<relay, activity>>
    BY <1>2 DEF HandleInbox
  <2>2. relay' \in [Req -> Relay] /\ activity' \in [Req -> Activity \cup {Nothing}]
    BY <2>1, RelaysAccepted DEF Relay
  <2>3. post' \in [Req -> Post \cup {Nothing}]
        /\ answer' \in [Req -> {0, 202, 400, 404, 405, 415, 500}]
    BY <2>1, StatusTypes
  <2> QED
    BY <1>2, <2>2, <2>3 DEF HandleInbox
<1>3. ASSUME NEW q \in Req, LookupUserFails(q) PROVE TypeOK'
  BY <1>3 DEF LookupUserFails
<1>4. ASSUME NEW q \in Req, Keep(q) \/ LookupFails(q) \/ Ignore(q) \/ Returned(q)
      PROVE  TypeOK'
  <2>1. CASE Keep(q)
    BY <2>1 DEF Keep, Goto, Relay
  <2>2. CASE LookupFails(q)
    BY <2>2 DEF LookupFails, Goto, Relay
  <2>3. CASE Ignore(q)
    BY <2>3 DEF Ignore, Goto, Relay
  <2>4. CASE Returned(q)
    BY <2>4 DEF Returned, Goto, Relay
  <2> QED
    BY <1>4, <2>1, <2>2, <2>3, <2>4
<1>5. ASSUME NEW q \in Req, Dereference(q) \/ UnwrapCreate(q) PROVE TypeOK'
  <2>1. activity[q] \in Activity
    <3>1. relay[q] = "switch"
      BY <1>5 DEF Dereference, UnwrapCreate, At
    <3> QED
      BY <3>1, InsideItself DEF RelaysKept, RelayInv, TakenInv, OpenedInv, Posted
  <2>2. Object[activity[q]] \in Activity \cup {Nothing}
        /\ Fetched[activity[q]] \in Activity \cup {Nothing}
    BY <2>1, ActivityAssumption
  <2>3. CASE Dereference(q)
    BY <2>1, <2>2, <2>3 DEF Dereference, Goto, Relay
  <2>4. CASE UnwrapCreate(q)
    <3>1. relay' \in [Req -> Relay] /\ activity' \in [Req -> Activity \cup {Nothing}]
      <4>1. CASE Unwrap(activity[q]) # Nothing
        BY <2>2, <2>4, <4>1 DEF UnwrapCreate, Unwrap
      <4>2. CASE Unwrap(activity[q]) = Nothing
        BY <2>4, <4>2 DEF UnwrapCreate, Goto, Relay
      <4> QED
        BY <4>1, <4>2
    <3> QED
      BY <2>4, <3>1 DEF UnwrapCreate
  <2> QED
    BY <1>5, <2>3, <2>4
<1>6. ASSUME NEW q \in Req, Execute(q) PROVE TypeOK'
  <2>1. post[q].user \in User
    BY <1>6, UserAssumption DEF Execute, At, RelaysKept, RelayInv, TakenInv
  <2> QED
    BY <1>6, <2>1 DEF Execute, Mailer!Start, Mailer!Report, Goto, Relay
<1>7. ASSUME Dies, UNCHANGED <<handler, activity, looked, mailer>> PROVE TypeOK'
  <2>1. relay' \in [Req -> Relay]
    BY <1>7 DEF Dies, Relay
  <2>2. failed' \in [Req -> BOOLEAN] /\ up' \in BOOLEAN
    BY <1>7 DEF Dies, Live
  <2> QED
    BY <1>7, <2>1, <2>2
<1>8. CASE Restart
  BY <1>8 DEF Restart
<1>9. ASSUME NEW q \in Req, Mail(q) PROVE TypeOK'
  <2>1. CASE Mailer!Settle(q)
    BY <1>9, <2>1 DEF Mail, Mailer!Settle, Mailer!Verdict
  <2>2. CASE Mailer!ReportOk(q) \/ Mailer!ReportFailed(q)
    BY <1>9, <2>2 DEF Mail, Mailer!ReportOk, Mailer!ReportFailed, Mailer!Report
  <2> QED
    BY <1>9, <2>1, <2>2 DEF Mail, Mailer!Work
<1> QED
  BY <1>1, <1>2, <1>3, <1>4, <1>5, <1>6, <1>7, <1>8, <1>9
  DEF Next, RelayStep, Panic, Crash

(***************************************************************************)
(* Requests and their relays                                               *)
(***************************************************************************)
LEMMA RelaysInit == Init => RelaysKept
BY DEF Init, RelaysKept, RelayInv, TakenInv, OpenedInv, Mailed, Mailer!Init

LEMMA RelayKeptBy ==
  ASSUME NEW q \in Req, RelayInv(q), post'[q] = post[q], answer'[q] = answer[q],
         relay'[q] = relay[q], activity'[q] = activity[q], looked'[q] = looked[q],
         owed'[q] = owed[q], report'[q] = report[q]
  PROVE  RelayInv(q)'
BY DEF RelayInv, TakenInv, OpenedInv, TextFound, Posted, Mailed

LEMMA RelaysStep ==
  ASSUME TypeOK, RelaysKept, [Next]_vars
  PROVE  RelaysKept'
<1> USE DEF handler, history, mailer
<1>1. CASE UNCHANGED vars
  BY <1>1, RelayKeptBy DEF vars, RelaysKept
<1>2. ASSUME NEW q \in Req, HandleInbox(q) PROVE RelaysKept'
  <2>1. PICK p \in Post :
          /\ post' = [post EXCEPT ![q] = p]
          /\ answer' = [answer EXCEPT ![q] = StatusOf(p)]
          /\ IF Relays(p)
               THEN /\ relay'    = [relay EXCEPT ![q] = "switch"]
                    /\ activity' = [activity EXCEPT ![q] = Announced(p.body)]
               ELSE UNCHANGED <<relay, activity>>
    BY <1>2 DEF HandleInbox
  <2>2. /\ relay[q] = "none" /\ looked[q] = {} /\ ~Mailed(q)
        /\ looked' = looked /\ owed' = owed /\ report' = report
    BY <1>2 DEF HandleInbox, RelaysKept, RelayInv, TakenInv
  <2>3. post'[q] = p /\ answer'[q] = StatusOf(p) /\ p # Nothing
    BY <2>1, PostAssumption DEF TypeOK
  <2>4. ASSUME Relays(p) PROVE RelayInv(q)'
    <3>1. relay'[q] = "switch" /\ activity'[q] = Announced(p.body)
      BY <2>1, <2>4 DEF TypeOK
    <3>2. StatusOf(p) = 202 /\ p.user \in AcceptFor /\ Announced(p.body) \in Activity
      BY <2>4, RelaysAccepted
    <3>3. Announced(p.body) \in Inside[Announced(p.body)]
      BY <3>2, InsideItself
    <3> QED
      BY <2>2, <2>3, <2>4, <3>1, <3>2, <3>3
      DEF RelayInv, TakenInv, OpenedInv, Posted, Mailed
  <2>5. ASSUME ~Relays(p) PROVE RelayInv(q)'
    BY <2>1, <2>2, <2>3, <2>5 DEF RelayInv, TakenInv, OpenedInv, Mailed
  <2>6. RelayInv(q)'
    BY <2>4, <2>5
  <2>7. ASSUME NEW r \in Req \ {q} PROVE RelayInv(r)'
    BY <2>1, <2>2, RelayKeptBy DEF TypeOK, RelaysKept
  <2> QED
    BY <2>6, <2>7 DEF RelaysKept
<1>3. ASSUME NEW q \in Req, LookupUserFails(q) PROVE RelaysKept'
  <2>1. PICK p \in Post : post' = [post EXCEPT ![q] = p]
    BY <1>3 DEF LookupUserFails
  <2>2. /\ relay[q] = "none" /\ looked[q] = {} /\ ~Mailed(q)
        /\ relay' = relay /\ activity' = activity /\ looked' = looked
        /\ owed' = owed /\ report' = report
        /\ answer' = [answer EXCEPT ![q] = 500]
    BY <1>3 DEF LookupUserFails, RelaysKept, RelayInv, TakenInv
  <2>3. RelayInv(q)'
    BY <2>2 DEF RelayInv, TakenInv, OpenedInv, Mailed
  <2>4. ASSUME NEW r \in Req \ {q} PROVE RelayInv(r)'
    BY <2>1, <2>2, RelayKeptBy DEF TypeOK, RelaysKept
  <2> QED
    BY <2>3, <2>4 DEF RelaysKept
<1>4. ASSUME NEW q \in Req, Keep(q) \/ Dereference(q) \/ UnwrapCreate(q) PROVE RelaysKept'
  <2>1. /\ relay[q] = "switch" /\ RelayInv(q) /\ activity[q] \in Posted(q)
        /\ post' = post /\ answer' = answer /\ owed' = owed /\ report' = report
    BY <1>4 DEF Keep, Dereference, UnwrapCreate, At, RelaysKept, RelayInv, OpenedInv
  <2>2. Announced(post[q].body) \in Activity /\ relay[q] # "none" /\ ~Mailed(q)
    BY <2>1 DEF RelayInv, TakenInv, OpenedInv
  <2>3. ASSUME Keep(q) PROVE TextFound(q)' /\ relay'[q] = "marshal"
    BY <2>1, <2>3 DEF Keep, Kind, IsBare, Goto, Text, TextFound, Posted, TypeOK
  <2>4. ASSUME Dereference(q) PROVE TextFound(q)' /\ relay'[q] = "marshal"
    BY <2>1, <2>4 DEF Dereference, Kind, IsBare, Goto, Text, TextFound, Posted, TypeOK
  <2>5. ASSUME UnwrapCreate(q)
        PROVE  relay'[q] = "returned" \/ (relay'[q] = "switch" /\ activity'[q] \in Posted(q)')
    <3>1. CASE Unwrap(activity[q]) = Nothing
      BY <2>5, <3>1 DEF UnwrapCreate, Goto, TypeOK
    <3>2. CASE Unwrap(activity[q]) # Nothing
      <4>1. Object[activity[q]] \in Posted(q)
        BY <2>1, <2>2, <2>5, <3>2, InsideOpened DEF UnwrapCreate, Wraps, Kind, Unwrap, Posted
      <4>2. relay'[q] = "switch" /\ activity'[q] = Object[activity[q]]
        BY <2>1, <2>5, <3>2 DEF UnwrapCreate, Unwrap, TypeOK
      <4> QED
        BY <2>1, <4>1, <4>2 DEF Posted
    <3> QED
      BY <3>1, <3>2
  <2>6. relay'[q] # "none" /\ TakenInv(q)'
    BY <1>4, <2>1, <2>2, <2>3, <2>4, <2>5 DEF RelayInv, TakenInv
  <2>7. RelayInv(q)'
    BY <1>4, <2>1, <2>2, <2>3, <2>4, <2>5, <2>6 DEF RelayInv, OpenedInv, Mailed
  <2>8. ASSUME NEW r \in Req \ {q} PROVE RelayInv(r)'
    <3>1. relay'[r] = relay[r] /\ activity'[r] = activity[r] /\ looked'[r] = looked[r]
      BY <1>4 DEF Keep, Dereference, UnwrapCreate, Goto, TypeOK
    <3> QED
      BY <2>1, <3>1, RelayKeptBy DEF RelaysKept
  <2> QED
    BY <2>7, <2>8 DEF RelaysKept
<1>5. ASSUME NEW q \in Req, LookupFails(q) \/ Ignore(q) \/ Returned(q) PROVE RelaysKept'
  <2>1. /\ RelayInv(q) /\ relay[q] \in {"switch", "marshal", "mailing"}
        /\ relay' = [relay EXCEPT ![q] = "returned"]
        /\ post' = post /\ answer' = answer /\ owed' = owed /\ report' = report
        /\ activity' = activity /\ looked' = looked
    BY <1>5 DEF LookupFails, Ignore, Returned, At, Goto, RelaysKept
  <2>2. relay'[q] = "returned"
    BY <2>1 DEF TypeOK
  <2>3. RelayInv(q)'
    BY <2>1, <2>2 DEF RelayInv, TakenInv, OpenedInv, TextFound, Posted, Mailed
  <2>4. ASSUME NEW r \in Req \ {q} PROVE RelayInv(r)'
    BY <2>1, RelayKeptBy DEF TypeOK, RelaysKept
  <2> QED
    BY <2>3, <2>4 DEF RelaysKept
<1>6. ASSUME NEW q \in Req, Execute(q) PROVE RelaysKept'
  <2>1. /\ RelayInv(q) /\ relay[q] = "marshal"
        /\ relay' = [relay EXCEPT ![q] = "mailing"]
        /\ post' = post /\ answer' = answer /\ activity' = activity /\ looked' = looked
        /\ report' = [report EXCEPT ![q] = "running"]
        /\ owed' = [owed EXCEPT ![q] = {post[q].user}]
    BY <1>6 DEF Execute, At, Goto, Mailer!Start, RelaysKept
  <2>2. relay'[q] = "mailing" /\ owed'[q] = {post[q].user}
    BY <2>1 DEF TypeOK, Mailer!TypeOK
  <2>3. RelayInv(q)'
    BY <2>1, <2>2 DEF RelayInv, TakenInv, OpenedInv, TextFound, Posted
  <2>4. ASSUME NEW r \in Req \ {q} PROVE RelayInv(r)'
    BY <2>1, RelayKeptBy DEF TypeOK, Mailer!TypeOK, RelaysKept
  <2> QED
    BY <2>3, <2>4 DEF RelaysKept
<1>7. ASSUME Dies, UNCHANGED <<handler, activity, looked, mailer>> PROVE RelaysKept'
  <2> SUFFICES ASSUME NEW q \in Req PROVE RelayInv(q)'
    BY DEF RelaysKept
  <2>1. RelayInv(q) /\ relay'[q] = IF Live(q) THEN "returned" ELSE relay[q]
    BY <1>7 DEF Dies, RelaysKept
  <2>2. CASE ~Live(q)
    BY <1>7, <2>1, <2>2, RelayKeptBy
  <2>3. CASE Live(q)
    <3>1. relay'[q] = "returned" /\ relay[q] # "none"
      BY <2>1, <2>3 DEF Live
    <3> QED
      BY <1>7, <2>1, <3>1 DEF RelayInv, TakenInv, OpenedInv, TextFound, Posted, Mailed
  <2> QED
    BY <2>2, <2>3
<1>8. CASE Restart
  BY <1>8, RelayKeptBy DEF Restart, RelaysKept
<1>9. ASSUME NEW q \in Req, Mail(q) PROVE RelaysKept'
  <2>1. /\ report[q] = "running" /\ report'[q] # "idle" /\ owed' = owed
        /\ \A r \in Req \ {q} : report'[r] = report[r]
    BY <1>9 DEF Mail, Mailer!Work, Mailer!Settle, Mailer!ReportOk, Mailer!ReportFailed,
         TypeOK, Mailer!TypeOK
  <2>2. /\ post' = post /\ answer' = answer /\ relay' = relay
        /\ activity' = activity /\ looked' = looked
    BY <1>9 DEF Mail
  <2>3. RelayInv(q)'
    BY <2>1, <2>2 DEF RelaysKept, RelayInv, TakenInv, OpenedInv, TextFound, Posted, Mailed
  <2>4. ASSUME NEW r \in Req \ {q} PROVE RelayInv(r)'
    BY <2>1, <2>2, RelayKeptBy DEF RelaysKept
  <2> QED
    BY <2>3, <2>4 DEF RelaysKept
<1> QED
  BY <1>1, <1>2, <1>3, <1>4, <1>5, <1>6, <1>7, <1>8, <1>9
  DEF Next, RelayStep, Panic, Crash

LEMMA Invariance == Spec => [](TypeOK /\ RelaysKept)
<1>1. TypeOK /\ RelaysKept /\ [Next]_vars => TypeOK' /\ RelaysKept'
  BY TypeStep, RelaysStep
<1> QED
  BY <1>1, TypeInit, RelaysInit, PTL DEF Spec

(***************************************************************************)
(* What is accepted                                                        *)
(***************************************************************************)

\* There is nothing in an activity but itself and what is in its object.
LEMMA InsideOnly ==
  ASSUME NEW a \in Activity, NEW b \in Inside[a], b # a
  PROVE  /\ Type[a] \in {"Create", "Update"}
         /\ Object[a] # Nothing
         /\ b \in Inside[Object[a]]
<1>1. \A S \in SUBSET Activity : a \in S /\ Opened(S) => b \in S
  BY DEF Inside
<1>2. CASE Type[a] \in {"Create", "Update"} /\ Object[a] # Nothing
  <2>1. Object[a] \in Activity
    BY <1>2, ActivityAssumption
  <2> DEFINE S == {a} \cup Inside[Object[a]]
  <2>2. S \in SUBSET Activity /\ Object[a] \in S
    BY <2>1, InsideItself
  <2>3. Opened(S)
    <3> SUFFICES ASSUME NEW c \in S, Type[c] \in {"Create", "Update"}, Object[c] # Nothing
                 PROVE  Object[c] \in S
      BY DEF Opened
    <3>1. c # a => Object[c] \in Inside[Object[a]]
      BY <2>1, InsideOpened
    <3> QED
      BY <2>2, <3>1
  <2> HIDE DEF S
  <2>4. b \in S
    BY <1>1, <2>2, <2>3 DEF S
  <2> QED
    BY <1>2, <2>4 DEF S
<1>3. CASE ~(Type[a] \in {"Create", "Update"} /\ Object[a] # Nothing)
  <2>1. {a} \in SUBSET Activity /\ Opened({a})
    BY <1>3 DEF Opened
  <2> QED
    BY <1>1, <2>1
<1> QED
  BY <1>2, <1>3

\* While the goroutine opens a request that has a Note or Page in it, that is
\* in what it has yet to open.
Ahead(q) == \E a \in Inside[activity[q]] : Type[a] \in {"Note", "Page"}
CarriedInv(q) ==
  OfKind(q, {"Note", "Page"}) =>
    \/ /\ relay[q] = "switch"
       /\ Ahead(q)
    \/ relay[q] = "marshal"
    \/ Mailed(q)
    \/ failed[q]
Carried == \A q \in Req : CarriedInv(q)

\* Whoever sees the request as it was, and it further on, carries it still.
LEMMA CarriedBy ==
  ASSUME NEW q \in Req, CarriedInv(q), post'[q] = post[q], answer'[q] = answer[q],
         relay'[q] = relay[q] /\ activity'[q] = activity[q],
         Mailed(q) => Mailed(q)', failed[q] => failed'[q]
  PROVE  CarriedInv(q)'
BY DEF CarriedInv, OfKind, TakenIn, IsEdit, Posted, Ahead, Mailed

\* What handleInbox accepts with a Note or Page in it, it relays.
LEMMA AcceptedIsRelayed ==
  ASSUME NEW p \in Post, StatusOf(p) = 202,
         Type[Announced(p.body)] # "Update",
         NEW a \in Inside[Announced(p.body)], Type[a] \in {"Note", "Page"}
  PROVE  Relays(p)
<1>1. Announced(p.body) \in Activity
  BY StatusTypes
<1>2. Type[Announced(p.body)] \in {"Note", "Page", "Create"}
  BY <1>1, InsideOnly
<1> QED
  BY <1>2 DEF Relays, Accepted

LEMMA CarriedInit == Init => Carried
BY DEF Init, Carried, CarriedInv, OfKind, TakenIn

LEMMA CarriedStep ==
  ASSUME TypeOK, RelaysKept, Carried, [Next]_vars
  PROVE  Carried'
<1> USE DEF handler, history, mailer
<1>1. CASE UNCHANGED vars \/ Restart
  BY <1>1, CarriedBy DEF vars, Restart, Carried, Mailed
<1>2. ASSUME NEW q \in Req, HandleInbox(q) PROVE Carried'
  <2>1. PICK p \in Post :
          /\ post' = [post EXCEPT ![q] = p]
          /\ answer' = [answer EXCEPT ![q] = StatusOf(p)]
          /\ IF Relays(p)
               THEN /\ relay'    = [relay EXCEPT ![q] = "switch"]
                    /\ activity' = [activity EXCEPT ![q] = Announced(p.body)]
               ELSE UNCHANGED <<relay, activity>>
    BY <1>2 DEF HandleInbox
  <2>2. failed' = failed /\ report' = report
    BY <1>2 DEF HandleInbox
  <2>3. post'[q] = p /\ answer'[q] = StatusOf(p)
    BY <2>1 DEF TypeOK
  <2>4. ASSUME OfKind(q, {"Note", "Page"})' PROVE relay'[q] = "switch" /\ Ahead(q)'
    <3>1. /\ StatusOf(p) = 202 /\ Type[Announced(p.body)] # "Update"
          /\ \E a \in Inside[Announced(p.body)] : Type[a] \in {"Note", "Page"}
      BY <2>3, <2>4 DEF OfKind, TakenIn, IsEdit, Posted
    <3>2. Relays(p)
      BY <3>1, AcceptedIsRelayed
    <3>3. relay'[q] = "switch" /\ activity'[q] = Announced(p.body)
      BY <2>1, <3>2 DEF TypeOK
    <3> QED
      BY <3>1, <3>3 DEF Ahead
  <2>5. CarriedInv(q)'
    BY <2>4 DEF CarriedInv
  <2>6. ASSUME NEW r \in Req \ {q} PROVE CarriedInv(r)'
    BY <2>1, <2>2, CarriedBy DEF TypeOK, Carried, Mailed
  <2> QED
    BY <2>5, <2>6 DEF Carried
<1>3. ASSUME NEW q \in Req, LookupUserFails(q) PROVE Carried'
  <2>1. PICK p \in Post : post' = [post EXCEPT ![q] = p]
    BY <1>3 DEF LookupUserFails
  <2>2. /\ answer' = [answer EXCEPT ![q] = 500] /\ relay' = relay /\ activity' = activity
        /\ failed' = failed /\ report' = report
    BY <1>3 DEF LookupUserFails
  <2>3. CarriedInv(q)'
    BY <2>2 DEF CarriedInv, OfKind, TakenIn, TypeOK
  <2>4. ASSUME NEW r \in Req \ {q} PROVE CarriedInv(r)'
    BY <2>1, <2>2, CarriedBy DEF TypeOK, Carried, Mailed
  <2> QED
    BY <2>3, <2>4 DEF Carried
<1>4. ASSUME NEW q \in Req, RelayStep(q), ~Panic(q) PROVE Carried'
  <2>1. /\ post' = post /\ answer' = answer
        /\ \A r \in Req \ {q} : /\ relay'[r] = relay[r] /\ activity'[r] = activity[r]
                                /\ failed'[r] = failed[r] /\ report'[r] = report[r]
    BY <1>4 DEF RelayStep, Keep, Dereference, LookupFails, UnwrapCreate, Ignore, Execute,
      Returned, Goto, Mailer!Start, TypeOK, Mailer!TypeOK
  <2>2. OfKind(q, {"Note", "Page"})' = OfKind(q, {"Note", "Page"})
    BY <2>1 DEF OfKind, TakenIn, IsEdit, Posted
  <2>3. CarriedInv(q) /\ RelayInv(q)
    BY DEF Carried, RelaysKept
  <2>4. ASSUME OfKind(q, {"Note", "Page"})
        PROVE  \/ relay'[q] = "switch" /\ Ahead(q)'
               \/ relay'[q] = "marshal" \/ Mailed(q)' \/ failed'[q]
    <3>1. CASE Keep(q) \/ Dereference(q)
      BY <3>1 DEF Keep, Dereference, Goto, TypeOK
    <3>2. CASE LookupFails(q)
      BY <3>2 DEF LookupFails, TypeOK
    <3>3. CASE Execute(q)
      BY <3>3 DEF Execute, Mailer!Start, Mailed, TypeOK, Mailer!TypeOK
    <3>4. CASE Returned(q)
      <4>1. relay[q] = "mailing" /\ report' = report /\ failed' = failed
            /\ report[q] \in Mailer!Report
        BY <3>4 DEF Returned, At
      <4> QED
        BY <4>1 DEF Mailed, Mailer!Report
    <3>5. CASE UnwrapCreate(q) \/ Ignore(q)
      <4>1. /\ relay[q] = "switch" /\ failed' = failed /\ report' = report
            /\ Kind(q) \notin {"Note", "Page"}
        BY <3>5 DEF UnwrapCreate, Ignore, At, Wraps
      <4>2. CASE Mailed(q) \/ failed[q]
        BY <4>1, <4>2 DEF Mailed
      <4>3. CASE Ahead(q)
        <5>1. PICK a \in Inside[activity[q]] : Type[a] \in {"Note", "Page"}
          BY <4>3 DEF Ahead
        <5>2. activity[q] \in Activity
          BY <2>3, <4>1, InsideItself DEF RelayInv, TakenInv, OpenedInv, Posted
        <5>3. Type[activity[q]] \in {"Create", "Update"} /\ Object[activity[q]] # Nothing
              /\ a \in Inside[Object[activity[q]]]
          BY <4>1, <5>1, <5>2, InsideOnly DEF Kind
        <5>4. UnwrapCreate(q)
          BY <3>5, <5>3 DEF Ignore, Wraps, Kind
        <5>5. relay'[q] = "switch" /\ activity'[q] = Object[activity[q]]
          BY <4>1, <5>3, <5>4 DEF UnwrapCreate, Unwrap, TypeOK
        <5> QED
          BY <5>1, <5>3, <5>5 DEF Ahead
      <4> QED
        BY <2>3, <2>4, <4>1, <4>2, <4>3 DEF CarriedInv
    <3> QED
      BY <1>4, <3>1, <3>2, <3>3, <3>4, <3>5 DEF RelayStep
  <2>5. CarriedInv(q)'
    BY <2>2, <2>4 DEF CarriedInv
  <2>6. ASSUME NEW r \in Req \ {q} PROVE CarriedInv(r)'
    BY <2>1, CarriedBy DEF Carried, Mailed
  <2> QED
    BY <2>5, <2>6 DEF Carried
<1>5. ASSUME Dies, UNCHANGED <<handler, activity, looked, mailer>> PROVE Carried'
  <2> SUFFICES ASSUME NEW q \in Req PROVE CarriedInv(q)'
    BY DEF Carried
  <2>1. /\ CarriedInv(q) /\ failed'[q] = (failed[q] \/ Live(q))
        /\ relay'[q] = IF Live(q) THEN "returned" ELSE relay[q]
    BY <1>5 DEF Dies, Carried
  <2>2. CASE Live(q)
    BY <2>1, <2>2 DEF CarriedInv
  <2>3. CASE ~Live(q)
    <3>1. relay'[q] = relay[q] /\ (failed[q] => failed'[q])
      BY <2>1, <2>3
    <3>2. /\ post'[q] = post[q] /\ answer'[q] = answer[q] /\ activity'[q] = activity[q]
          /\ (Mailed(q) => Mailed(q)')
      BY <1>5 DEF Mailed
    <3> QED
      BY <2>1, <3>1, <3>2, CarriedBy
  <2> QED
    BY <2>2, <2>3
<1>6. ASSUME NEW q \in Req, Mail(q) PROVE Carried'
  <2>1. report'[q] # "idle" /\ \A r \in Req \ {q} : report'[r] = report[r]
    BY <1>6 DEF Mail, Mailer!Work, Mailer!Settle, Mailer!ReportOk, Mailer!ReportFailed,
         TypeOK, Mailer!TypeOK
  <2> QED
    BY <1>6, <2>1, CarriedBy DEF Mail, Carried, Mailed
<1> QED
  BY <1>1, <1>2, <1>3, <1>4, <1>5, <1>6 DEF Next, Panic, Crash

(***************************************************************************)
(* Theorems                                                                *)
(***************************************************************************)

\* The server's variables keep their types, and the activity that a relay works
\* on is one, however deep it was wrapped.
THEOREM TypeCorrect == Spec => []TypeOK
BY Invariance, PTL

\* Whatever the server answers but 202 has no effect at all.
THEOREM RefusalIsFinal == Spec => []RefusedHasNoEffect
<1>1. RelaysKept => RefusedHasNoEffect
  BY DEF RelaysKept, RelayInv, TakenInv, RefusedHasNoEffect
<1> QED
  BY <1>1, Invariance, PTL

\* Mail is made of the Note or Page that was posted and goes to the user it was
\* posted to, across crashes and with any number of requests relayed at once.
THEOREM MailIsWhatWasPosted == Spec => []MailIsOfPost
<1>1. RelaysKept => MailIsOfPost
  BY DEF RelaysKept, RelayInv, TakenInv, OpenedInv, TextFound, MailIsOfPost
<1> QED
  BY <1>1, Invariance, PTL

\* Of what is answered 202 with a Note or Page in it, however deep it is wrapped,
\* edits that no Create is around are dropped, and none of the rest is unless a
\* lookup fails or the server dies: the safety part of AcceptedIsMailed.
THEOREM OnlyEditsAreLost == Spec => []OnlyEditsAreDropped
<1>1. TypeOK /\ RelaysKept /\ Carried /\ [Next]_vars => (TypeOK /\ RelaysKept /\ Carried)'
  BY TypeStep, RelaysStep, CarriedStep
<1>2. RelaysKept /\ Carried => OnlyEditsAreDropped
  <2> SUFFICES ASSUME RelaysKept, Carried, NEW q \in Req, TakenIn(q, {"Note", "Page"})
               PROVE  IF IsEdit(q) THEN relay[q] = "none" /\ ~Mailed(q)
                      ELSE relay[q] \in {"switch", "marshal"} \/ Mailed(q) \/ failed[q]
    BY DEF OnlyEditsAreDropped
  <2>1. CASE IsEdit(q)
    <3>1. ~Relays(post[q])
      BY <2>1 DEF IsEdit, Relays
    <3> QED
      BY <2>1, <3>1 DEF RelaysKept, RelayInv, TakenInv
  <2>2. CASE ~IsEdit(q)
    BY <2>2 DEF Carried, CarriedInv, OfKind
  <2> QED
    BY <2>1, <2>2
<1> QED
  BY <1>1, <1>2, TypeInit, RelaysInit, CarriedInit, PTL DEF Spec

\* What the server does with the mailer is what Dispatch allows its caller: one
\* execution for each request, and none of them started twice.
THEOREM MailerIsRespected == Spec => Mailer!SafeSpec
<1>1. Init => Mailer!Init
  BY DEF Init
<1>2. TypeOK /\ RelaysKept /\ [Next]_vars => [Mailer!Next]_(Mailer!vars)
  <2> SUFFICES ASSUME TypeOK, RelaysKept, [Next]_vars
               PROVE  Mailer!Next \/ UNCHANGED Mailer!vars
    OBVIOUS
  <2>1. ASSUME NEW q \in Req, Execute(q) PROVE Mailer!Next
    <3>1. post[q].user \in User
      BY <2>1, UserAssumption DEF Execute, At, RelaysKept, RelayInv, TakenInv
    <3>2. {post[q].user} \in SUBSET User
      BY <3>1
    <3> QED
      BY <2>1, <3>2 DEF Execute, Mailer!Next
  <2>2. ASSUME NEW q \in Req, Mail(q) PROVE Mailer!Next
    BY <2>2 DEF Mail, Mailer!Next
  <2>3. CASE \A q \in Req : ~Execute(q) /\ ~Mail(q)
    BY <2>3 DEF Next, vars, HandleInbox, LookupUserFails, RelayStep, Keep, Dereference,
      LookupFails, UnwrapCreate, Ignore, Panic, Returned, Crash, Restart, history, mailer,
      Mailer!vars
  <2> QED
    BY <2>1, <2>2, <2>3
<1> QED
  BY <1>1, <1>2, Invariance, PTL DEF Spec, Mailer!SafeSpec
=============================================================================
