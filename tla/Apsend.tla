------------------------------- MODULE Apsend -------------------------------
(***************************************************************************)
(* cmd/apsend, the mailer: several executions of main() at once, as apserve *)
(* and apsubmit start them, over the file system they share.               *)
(*                                                                         *)
(* One action per step of main() that another process can see or that can  *)
(* fail.  Local delivery is three steps (choose the file name from the     *)
(* clock, open and truncate, write), because os.WriteFile is three steps   *)
(* to every other process; so is each file of AppendToOutbox.  A call that *)
(* can fail does so nondeterministically.                                  *)
(***************************************************************************)
EXTENDS Integers, Sequences

CONSTANTS
  Run,        \* the executions of apsend
  User,       \* local users: arguments without an "@"
  Addr,       \* remote arguments: addresses with an "@", "+followers" or not
  Inbox,      \* inbox endpoints of remote actors
  NoInbox,    \* the empty string where an actor has no such endpoint
  InboxOf,    \* InboxOf[a]: the personal inbox of the actor a resolves to
  SharedOf,   \* SharedOf[a]: its shared inbox
  Msg,        \* messages on the standard input
  Author,     \* Author[m]: the local user m is from, or NoUser
  NoUser,     \* m's sender is not an actor of this system
  Name,       \* last path elements of activity IDs
  NoName,     \* neither a https ID nor a date to make one from
  NameOf,     \* NameOf[m]: the last path element of the ID m is sent under
  Size,       \* Size[m]: blocks it takes to store m
  Json,       \* messages given as JSON (-j)
  HasID,      \* JSON messages with a https ID of their own
  Job,        \* invocations: arguments, -F flag and standard input
  MaxSecond   \* bound: the clock stops here

Rcpt   == User \cup Addr
Second == 1..MaxSecond
Form   == {"mail", "copy"}
Part   == {"note", "create"}
Block  == Msg \X (Form \cup Part) \X Nat

ASSUME RcptAssumption == User \cap Addr = {} /\ NoUser \notin Rcpt
ASSUME InboxAssumption ==
  /\ NoInbox \notin Inbox
  /\ InboxOf  \in [Addr -> Inbox \cup {NoInbox}]
  /\ SharedOf \in [Addr -> Inbox \cup {NoInbox}]
ASSUME MsgAssumption ==
  /\ Author \in [Msg -> User \cup {NoUser}]
  /\ NoName \notin Name
  /\ NameOf \in [Msg -> Name \cup {NoName}]
  /\ Size \in [Msg -> Nat \ {0}]
  /\ Json \subseteq Msg
  /\ HasID \subseteq Json
ASSUME JobAssumption ==
  \A j \in Job : /\ j.msg \in Msg
                 /\ j.rcpts \in Seq(Rcpt)
                 /\ j.file \in BOOLEAN
ASSUME SecondAssumption == MaxSecond \in Nat \ {0}

VARIABLES
  now,      \* the wall clock, in seconds
  maildir,  \* maildir[u][s]: contents of ~u/Maildir/new/s, empty if none
  outbox,   \* outbox[u][n][k]: contents of the outbox file of part k of n
  sent,     \* sent[r][b]: POSTs by run r that inbox b took in
  job,      \* job[r]: what run r was invoked with
  status,   \* status[r]: as the parent process sees it
  pc,       \* pc[r]: the step of main() r is at; where it died, once dead
  todo,     \* todo[r]: arguments the current loop has yet to reach, as positions
  remote,   \* remote[r]: the positions main() put in its variable remote
  boxes,    \* boxes[r]: inboxes to post to, duplicates removed
  gotErr,   \* gotErr[r]: the variable of that name
  part,     \* part[r]: which activity AppendToOutbox is at
  slot,     \* slot[r][i]: file name chosen for delivery i, 0 before that
  outcome   \* history: outcome[r][i], what became of delivery i

world == <<maildir, outbox, sent>>
local == <<todo, remote, boxes, gotErr, part, slot, outcome>>
vars  == <<now, world, job, status, pc, local>>

(***************************************************************************)
(* Deliveries of a run are numbered by the position of their argument; the *)
(* copy filed for the sender under -F is delivery 0.                       *)
(***************************************************************************)
Deliveries    == UNION {0..Len(j.rcpts) : j \in Job}
Delivery(r)   == 0..Len(job[r].rcpts)
Args(r)       == 1..Len(job[r].rcpts)
RemoteArgs(r) == {i \in Args(r) : job[r].rcpts[i] \in Addr}
Sender(r)     == Author[job[r].msg]
Owner(r, i)   == IF i = 0 THEN Sender(r) ELSE job[r].rcpts[i]
Current(r)    == IF todo[r] = <<>> THEN 0 ELSE Head(todo[r])
Box(a)        == IF SharedOf[a] # NoInbox THEN SharedOf[a] ELSE InboxOf[a]
BoxOf(r, i)   == Box(job[r].rcpts[i])
Elems(s)      == {s[i] : i \in DOMAIN s}

Bytes(m, form) == [i \in 1..Size[m] |-> <<m, form, i>>]

\* With -j the variable bmsg stays nil, so what is filed is empty unless the
\* activity was marshalled again for want of a https ID.
Contents(r, i) ==
  LET m == job[r].msg
  IN  IF i = 0 THEN IF m \in HasID THEN <<>> ELSE Bytes(m, "copy")
               ELSE IF m \in Json  THEN <<>> ELSE Bytes(m, "mail")

\* Writing at offset 0 leaves what lies beyond the bytes written.
Overlay(old, new) == new \o SubSeq(old, Len(new) + 1, Len(old))

(***************************************************************************)
(* States                                                                  *)
(***************************************************************************)
Step    == {"load", "loop", "name", "open", "write", "compose", "create",
            "encode", "finger", "send", "exit"}
Ended   == {"ok", "failed", "killed"}
Status  == {"idle", "running"} \cup Ended
Outcome == {"open", "delivered", "failed"}

\* todo and remote hold positions of arguments; remote, and so todo while it
\* is what remains of remote, only those of addresses.
Positions ==
  \A r \in Run : /\ todo[r]   \in Seq(Args(r))
                 /\ remote[r] \in Seq(RemoteArgs(r))
                 /\ pc[r] = "finger" => todo[r] \in Seq(RemoteArgs(r))

TypeOK ==
  /\ now     \in Second
  /\ maildir \in [User -> [Second -> Seq(Block)]]
  /\ outbox  \in [User -> [Name -> [Part -> Seq(Block)]]]
  /\ sent    \in [Run -> [Inbox -> Nat]]
  /\ job     \in [Run -> Job]
  /\ status  \in [Run -> Status]
  /\ pc      \in [Run -> Step]
  /\ todo    \in [Run -> Seq(Nat)]
  /\ remote  \in [Run -> Seq(Nat)]
  /\ boxes   \in [Run -> Seq(Inbox \cup {NoInbox})]
  /\ gotErr  \in [Run -> BOOLEAN]
  /\ part    \in [Run -> Part]
  /\ slot    \in [Run -> [Deliveries -> Second \cup {0}]]
  /\ outcome \in [Run -> [Deliveries -> Outcome]]
  /\ Positions

Init ==
  /\ now     = 1
  /\ maildir = [u \in User |-> [s \in Second |-> <<>>]]
  /\ outbox  = [u \in User |-> [n \in Name |-> [k \in Part |-> <<>>]]]
  /\ sent    = [r \in Run |-> [b \in Inbox |-> 0]]
  /\ job     \in [Run -> Job]
  /\ status  = [r \in Run |-> "idle"]
  /\ pc      = [r \in Run |-> "load"]
  /\ todo    = [r \in Run |-> [i \in Args(r) |-> i]]
  /\ remote  = [r \in Run |-> <<>>]
  /\ boxes   = [r \in Run |-> <<>>]
  /\ gotErr  = [r \in Run |-> FALSE]
  /\ part    = [r \in Run |-> "note"]
  /\ slot    = [r \in Run |-> [i \in Deliveries |-> 0]]
  /\ outcome = [r \in Run |-> [i \in Deliveries |-> "open"]]

At(r, step) == status[r] = "running" /\ pc[r] = step
Goto(r, step) == pc' = [pc EXCEPT ![r] = step] /\ UNCHANGED status
Ends(r, how) == status' = [status EXCEPT ![r] = how]

\* Mutant of NotesError: gotErr is not set.
ForgetsError(r) == UNCHANGED gotErr
NotesError(r) == gotErr' = [gotErr EXCEPT ![r] = TRUE]

(***************************************************************************)
(* Starting up                                                             *)
(***************************************************************************)

\* The parent (apserve, apsubmit, a shell) executes apsend.
Exec(r) ==
  /\ status[r] = "idle"
  /\ Ends(r, "running")
  /\ UNCHANGED <<now, world, job, pc, local>>

\* The current user's client and the message are loaded.  Without arguments
\* there is only a usage message.
Load(r) ==
  /\ At(r, "load")
  /\ job[r].rcpts # <<>>
  /\ Goto(r, "loop")
  /\ UNCHANGED <<now, world, job, local>>

\* log.Fatal: a user, key or actor cannot be loaded, the message cannot be
\* read, a recipient in its header not resolved, the outbox file not created.
Fatal(r) ==
  /\ status[r] = "running"
  /\ pc[r] \in {"load", "compose", "create"}
  /\ Ends(r, "failed")
  /\ UNCHANGED <<now, world, job, pc, local>>

(***************************************************************************)
(* The loop over the arguments                                             *)
(***************************************************************************)
TakeRemote(r) ==
  /\ At(r, "loop")
  /\ todo[r] # <<>>
  /\ job[r].rcpts[Head(todo[r])] \in Addr
  /\ remote' = [remote EXCEPT ![r] = Append(@, Head(todo[r]))]
  /\ todo'   = [todo EXCEPT ![r] = Tail(@)]
  /\ UNCHANGED <<now, world, job, status, pc, boxes, gotErr, part, slot, outcome>>

TakeLocal(r) ==
  /\ At(r, "loop")
  /\ todo[r] # <<>>
  /\ job[r].rcpts[Head(todo[r])] \in User
  /\ Goto(r, "name")
  /\ UNCHANGED <<now, world, job, local>>

LoopEnd(r) ==
  /\ At(r, "loop")
  /\ todo[r] = <<>>
  /\ Goto(r, IF remote[r] = <<>> THEN "exit" ELSE "compose")
  /\ UNCHANGED <<now, world, job, local>>

(***************************************************************************)
(* deliverLocal, called from the loop and, for the copy, after the sends    *)
(***************************************************************************)

\* Mutant of Return: the loop stays at the same argument.
ReturnToSame(r) ==
  /\ Goto(r, IF todo[r] = <<>> THEN "exit" ELSE "loop")
  /\ UNCHANGED todo
\* Back to the caller: the next argument, or the end of main().
Return(r) ==
  IF todo[r] = <<>> THEN /\ Goto(r, "exit")
                         /\ UNCHANGED todo
                    ELSE /\ Goto(r, "loop")
                         /\ todo' = [todo EXCEPT ![r] = Tail(@)]

\* Mutant of UnixTime: the second is rounded up.
RoundedUp == now + 1
UnixTime == now

PickName(r) ==
  /\ At(r, "name")
  /\ slot' = [slot EXCEPT ![r][Current(r)] = UnixTime]
  /\ Goto(r, "open")
  /\ UNCHANGED <<now, world, job, todo, remote, boxes, gotErr, part, outcome>>

\* Mutant of FileName: the clock is read again when the file is opened.
NamedAgain(r) == now
\* The current delivery's file: named before it is opened.
FileName(r) == slot[r][Current(r)]

Stored(r) == maildir[Owner(r, Current(r))][FileName(r)]
Rewrites(r, new) ==
  maildir' = [maildir EXCEPT ![Owner(r, Current(r))][FileName(r)] = new]

OpenMail(r) ==
  /\ At(r, "open")
  /\ Rewrites(r, <<>>)
  /\ Goto(r, "write")
  /\ UNCHANGED <<now, outbox, sent, job, local>>

WriteMail(r) ==
  /\ At(r, "write")
  /\ Rewrites(r, Overlay(Stored(r), Contents(r, Current(r))))
  /\ outcome' = [outcome EXCEPT ![r][Current(r)] = "delivered"]
  /\ Return(r)
  /\ UNCHANGED <<now, outbox, sent, job, remote, boxes, gotErr, part, slot>>

\* The user is unknown, the file cannot be opened, or the write stops short.
DeliverFails(r) ==
  /\ status[r] = "running"
  /\ \/ pc[r] \in {"name", "open"} /\ UNCHANGED maildir
     \/ /\ pc[r] = "write"
        /\ \E k \in 0..Len(Contents(r, Current(r))) :
             Rewrites(r, Overlay(Stored(r), SubSeq(Contents(r, Current(r)), 1, k)))
  /\ NotesError(r)
  /\ outcome' = [outcome EXCEPT ![r][Current(r)] = "failed"]
  /\ Return(r)
  /\ UNCHANGED <<now, outbox, sent, job, remote, boxes, part, slot>>

(***************************************************************************)
(* Publishing: check and name the activity, then AppendToOutbox            *)
(***************************************************************************)

\* Only an actor of this system sends, and only under an ID.
Compose(r) ==
  /\ At(r, "compose")
  /\ Sender(r) # NoUser
  /\ NameOf[job[r].msg] # NoName
  /\ Goto(r, "create")
  /\ UNCHANGED <<now, world, job, local>>

Published(r) == outbox[Sender(r)][NameOf[job[r].msg]]
Publishes(r, new) ==
  outbox' = [outbox EXCEPT ![Sender(r)][NameOf[job[r].msg]][part[r]] = new]

CreateFile(r) ==
  /\ At(r, "create")
  /\ Publishes(r, <<>>)
  /\ Goto(r, "encode")
  /\ UNCHANGED <<now, maildir, sent, job, local>>

\* Mutant of LastPart: the loop ends one activity early.
StopsEarly(r) == part[r] = "note"
\* AppendToOutbox is at the last of its activities.
LastPart(r) == part[r] = "create"

Encode(r) ==
  /\ At(r, "encode")
  /\ Publishes(r, Overlay(Published(r)[part[r]], Bytes(job[r].msg, part[r])))
  /\ IF LastPart(r)
       THEN /\ todo' = [todo EXCEPT ![r] = remote[r]]
            /\ Goto(r, "finger")
            /\ UNCHANGED part
       ELSE /\ part' = [part EXCEPT ![r] = "create"]
            /\ Goto(r, "create")
            /\ UNCHANGED todo
  /\ UNCHANGED <<now, maildir, sent, job, remote, boxes, gotErr, slot, outcome>>

\* The disk fills up: the file keeps what was written and apsend gives up.
EncodeFails(r) ==
  /\ At(r, "encode")
  /\ \E k \in 0..Size[job[r].msg] - 1 :
       Publishes(r, Overlay(Published(r)[part[r]],
                            SubSeq(Bytes(job[r].msg, part[r]), 1, k)))
  /\ Ends(r, "failed")
  /\ UNCHANGED <<now, maildir, sent, job, pc, local>>

(***************************************************************************)
(* Finding the inboxes and posting to them.  Inboxes is a fold over the     *)
(* actors in the order the loop finds them, so each actor's inbox is added  *)
(* when the actor is found.                                                *)
(***************************************************************************)
\* Mutant of AddBox: duplicates are kept.
AddAnyBox(bs, b) == Append(bs, b)
AddBox(bs, b) == IF b \in Elems(bs) THEN bs ELSE Append(bs, b)

Finger(r) ==
  /\ At(r, "finger")
  /\ todo[r] # <<>>
  /\ boxes' = [boxes EXCEPT ![r] = AddBox(@, BoxOf(r, Head(todo[r])))]
  /\ todo'  = [todo EXCEPT ![r] = Tail(@)]
  /\ UNCHANGED <<now, world, job, status, pc, remote, gotErr, part, slot, outcome>>

FingerFails(r) ==
  /\ At(r, "finger")
  /\ todo[r] # <<>>
  /\ NotesError(r)
  /\ outcome' = [outcome EXCEPT ![r][Head(todo[r])] = "failed"]
  /\ todo'    = [todo EXCEPT ![r] = Tail(@)]
  /\ UNCHANGED <<now, world, job, status, pc, remote, boxes, part, slot>>

FingerEnd(r) ==
  /\ At(r, "finger")
  /\ todo[r] = <<>>
  /\ Goto(r, "send")
  /\ UNCHANGED <<now, world, job, local>>

\* The deliveries still open that inbox b stands for.
Behind(r, b) ==
  {i \in RemoteArgs(r) : BoxOf(r, i) = b /\ outcome[r][i] = "open"}
Settles(r, b, verdict) ==
  outcome' = [outcome EXCEPT ![r] =
                [i \in Deliveries |-> IF i \in Behind(r, b) THEN verdict ELSE @[i]]]

Send(r) ==
  /\ At(r, "send")
  /\ boxes[r] # <<>>
  /\ Head(boxes[r]) # NoInbox
  /\ sent'  = [sent EXCEPT ![r][Head(boxes[r])] = @ + 1]
  /\ Settles(r, Head(boxes[r]), "delivered")
  /\ boxes' = [boxes EXCEPT ![r] = Tail(@)]
  /\ UNCHANGED <<now, maildir, outbox, job, status, pc, todo, remote, gotErr,
                 part, slot>>

\* No answer or not 200, 202 or 204: the inbox may have taken the activity
\* in all the same.  A post to no inbox never gets anywhere.
SendFails(r) ==
  /\ At(r, "send")
  /\ boxes[r] # <<>>
  /\ \/ UNCHANGED sent
     \/ /\ Head(boxes[r]) # NoInbox
        /\ sent' = [sent EXCEPT ![r][Head(boxes[r])] = @ + 1]
  /\ NotesError(r)
  /\ Settles(r, Head(boxes[r]), "failed")
  /\ boxes' = [boxes EXCEPT ![r] = Tail(@)]
  /\ UNCHANGED <<now, maildir, outbox, job, status, pc, todo, remote, part, slot>>

SendEnd(r) ==
  /\ At(r, "send")
  /\ boxes[r] = <<>>
  /\ Goto(r, IF job[r].file THEN "name" ELSE "exit")
  /\ UNCHANGED <<now, world, job, local>>

(***************************************************************************)
(* The end of a run                                                        *)
(***************************************************************************)
Exit(r) ==
  /\ At(r, "exit")
  /\ Ends(r, IF gotErr[r] THEN "failed" ELSE "ok")
  /\ UNCHANGED <<now, world, job, pc, local>>

\* A signal, a panic (no date to name the activity by) or a reboot.
Kill(r) ==
  /\ status[r] = "running"
  /\ Ends(r, "killed")
  /\ UNCHANGED <<now, world, job, pc, local>>

Tick ==
  /\ now < MaxSecond
  /\ now' = now + 1
  /\ UNCHANGED <<world, job, status, pc, local>>

Deliver(r) == PickName(r) \/ OpenMail(r) \/ WriteMail(r) \/ DeliverFails(r)
Publish(r) == Compose(r) \/ CreateFile(r) \/ Encode(r) \/ EncodeFails(r)
Post(r)    == \/ Finger(r) \/ FingerFails(r) \/ FingerEnd(r)
              \/ Send(r) \/ SendFails(r) \/ SendEnd(r)
Main(r)    == \/ Load(r) \/ Fatal(r)
              \/ TakeRemote(r) \/ TakeLocal(r) \/ LoopEnd(r)
              \/ Deliver(r) \/ Publish(r) \/ Post(r) \/ Exit(r)

Next == Tick \/ \E r \in Run : Exec(r) \/ Main(r) \/ Kill(r)

Spec == Init /\ [][Next]_vars

\* A process that has been started keeps running, and the calls it makes
\* return.  Nobody has to execute, kill or wait for anything.
FairSpec == Spec /\ \A r \in Run : WF_vars(Main(r))

(***************************************************************************)
(* Properties                                                              *)
(***************************************************************************)

\* What a run was asked for.  main() files the sender's copy only in the
\* branch for remote recipients.
Owed(r) == {i \in Delivery(r) :
              i = 0 => job[r].file /\ RemoteArgs(r) # {}}

\* A local delivery that deliverLocal reported done.
Filed(r, i) == outcome[r][i] = "delivered" /\ i \notin RemoteArgs(r)

\* Two deliveries to the same user that chose the same file name.
SameFile(r, i, q, k) ==
  /\ slot[r][i] = slot[q][k]
  /\ slot[r][i] # 0
  /\ Owner(r, i) = Owner(q, k)

\* Exit status 0 is all apsubmit tells the mail client of: it must mean that
\* each local delivery was made and that each remote recipient's inbox took
\* the activity in exactly once, whatever the other runs did meanwhile.
OkMeansDelivered ==
  \A r \in Run : status[r] = "ok" =>
    \A i \in Owed(r) : /\ outcome[r][i] = "delivered"
                       /\ i \in RemoteArgs(r) => sent[r][BoxOf(r, i)] = 1

\* Inboxes removes duplicates: a run posts to an inbox at most once, however
\* often an actor is listed and however many actors share the inbox.
PostedAtMostOnce == \A r \in Run : \A b \in Inbox : sent[r][b] <= 1

(***************************************************************************)
(* Why these two hold: an invariant of each run, kept by its own steps and  *)
(* untouched by those of the others.                                       *)
(***************************************************************************)
Delivering(r) == pc[r] \in {"name", "open", "write"}
Sorting(r)    == pc[r] \in {"load", "loop"} \/ (Delivering(r) /\ todo[r] # <<>>)
Publishing(r) == pc[r] \in {"compose", "create", "encode"}

\* Where a delivery still open is waiting; past the sends, none is.
Accounted(r) ==
  \A i \in Args(r) : outcome[r][i] = "open" =>
    \/ Sorting(r)       /\ i \in Elems(todo[r]) \cup Elems(remote[r])
    \/ Publishing(r)    /\ i \in Elems(remote[r])
    \/ pc[r] = "finger" /\ \/ i \in Elems(todo[r])
                           \/ i \in RemoteArgs(r) /\ BoxOf(r, i) \in Elems(boxes[r])
    \/ pc[r] = "send"   /\ i \in RemoteArgs(r) /\ BoxOf(r, i) \in Elems(boxes[r])

\* The loops do not mix: deliverLocal is for local arguments or the copy.
LoopsApart(r) ==
  /\ pc[r] = "send" => todo[r] = <<>>
  /\ (Delivering(r) /\ todo[r] # <<>>) => Head(todo[r]) \notin RemoteArgs(r)

\* Until the activity is published nothing remote is settled or sent.
NothingYet(r) ==
  (Sorting(r) \/ Publishing(r)) =>
    /\ boxes[r] = <<>>
    /\ \A i \in RemoteArgs(r) : outcome[r][i] = "open"

\* No failure is forgotten.
Noted(r) == \A i \in Deliveries : outcome[r][i] = "failed" => gotErr[r]

\* The copy has been tried when main() ends, if it was owed.
CopyTried(r) == (pc[r] = "exit" /\ 0 \in Owed(r)) => outcome[r][0] # "open"

\* Inboxes still to be posted to are distinct and have got nothing; the
\* others have got at most one POST, exactly one where it was confirmed.
Distinct(s) == \A i, k \in DOMAIN s : s[i] = s[k] => i = k
SentOnce(r) ==
  /\ Distinct(boxes[r])
  /\ \A b \in Inbox : /\ sent[r][b] <= 1
                      /\ b \in Elems(boxes[r]) => sent[r][b] = 0
                      /\ (Sorting(r) \/ Publishing(r) \/ pc[r] = "finger") => sent[r][b] = 0
  /\ \A i \in RemoteArgs(r) : outcome[r][i] = "delivered" =>
       BoxOf(r, i) \in Inbox /\ sent[r][BoxOf(r, i)] = 1

Truthful(r) == status[r] = "ok" => \A i \in Owed(r) : outcome[r][i] = "delivered"

RunInv(r) == /\ Accounted(r) /\ LoopsApart(r) /\ NothingYet(r) /\ Noted(r)
             /\ CopyTried(r) /\ SentOnce(r) /\ Truthful(r)

\* The bookkeeping of every run: each delivery is settled or waiting in the
\* one place its step of main() will take it from.
BooksKept == \A r \in Run : RunInv(r)

(***************************************************************************)
(* Why a run ends: an upper bound of the steps it has yet to take, from a   *)
(* step of main() on, with t arguments to reach, m found remote, b inboxes  *)
(* and AppendToOutbox at part k.                                           *)
(***************************************************************************)
Stage == [load |-> 13, loop |-> 12, name |-> 11, open |-> 10, write |-> 9,
          compose |-> 11, create |-> 10, encode |-> 9,
          finger |-> 6, send |-> 5, exit |-> 1]
Ahead(step, t, m, b, k) ==
  Stage[step] +
    CASE step \in {"load", "loop"}                          -> 4 * t + 2 * m
      [] step \in {"name", "open", "write"} /\ t > 0        -> 4 * t + 2 * m
      [] step \in {"name", "open", "write"} /\ t = 0        -> -7   \* the copy
      [] step \in {"compose", "create", "encode"} /\ k = "note"   -> 2 * m
      [] step \in {"compose", "create", "encode"} /\ k = "create" -> 2 * m - 2
      [] step = "finger"                                    -> 2 * t + b
      [] step = "send"                                      -> b
      [] step = "exit"                                      -> 0
Left(r) ==
  IF status[r] \in Ended THEN 0
  ELSE Ahead(pc[r], Len(todo[r]), Len(remote[r]), Len(boxes[r]), part[r])

\* No loop of main() goes round for ever, whatever fails: each step leaves fewer,
\* from 13 and four for each argument down.
EachStepCounts ==
  [][\A r \in Run : Main(r) => Left(r)' < Left(r) /\ Left(r)' >= 0]_vars

\* A mail filed in a second no other delivery to that user chose stays in the
\* user's Maildir byte for byte, while other runs deliver, fail and die.
MailIntact ==
  \A r \in Run : \A i \in Delivery(r) :
    \/ ~Filed(r, i)
    \/ maildir[Owner(r, i)][slot[r][i]] = Contents(r, i)
    \/ \E q \in Run : \E k \in Delivery(q) :
         <<q, k>> # <<r, i>> /\ SameFile(r, i, q, k)

\* Run q has opened an outbox file that run r publishes in, and wrote, or may
\* write, something else to it.
Complete(r) == \A k \in Part : Published(r)[k] = Bytes(job[r].msg, k)
Disturbs(q, r) ==
  /\ q # r
  /\ status[q] # "idle"
  /\ Sender(q) = Sender(r)
  /\ NameOf[job[q].msg] = NameOf[job[r].msg]
  /\ IF job[q].msg = job[r].msg
       THEN pc[q] = "encode"
       ELSE pc[q] \notin {"load", "loop", "compose"}

\* An inbox learns of an activity only after both outbox files are complete,
\* so that a server that fetches what it was sent finds it.  Runs of the same
\* message (a retry) leave the files so, unless one stops while it has a file
\* open; only another message of the same second takes the files away.
SentIsFetchable ==
  \A r \in Run : (\E b \in Inbox : sent[r][b] > 0) =>
    Complete(r) \/ \E q \in Run : Disturbs(q, r)

\* Seen from outside, a set of apsend runs is a mailer as Dispatch has it.
Promise == INSTANCE Dispatch WITH
  Item     <- Deliveries,
  owed     <- [r \in Run |-> IF status[r] = "idle" THEN {} ELSE Owed(r)],
  settled  <- outcome,
  report   <- [r \in Run |-> IF status[r] = "killed" THEN "failed" ELSE status[r]]

\* apsend settles each delivery once, reports "ok" only when all are made,
\* touches nothing after its report, and always reports.
KeepsPromise == Promise!Spec

\* cmd/apsend/doc.go: a local recipient's message is appended to the mailbox;
\* a Maildir has one message per file.  So what was delivered is there.
DeliveredMailStays ==
  \A r \in Run : \A i \in Delivery(r) :
    Filed(r, i) => maildir[Owner(r, i)][slot[r][i]] = Contents(r, i)
=============================================================================
