----------------------------- MODULE ApsendFiles -----------------------------
(***************************************************************************)
(* What is proved of the files that runs of Apsend share: the mail in the  *)
(* Maildirs, and the activities in the outboxes.                           *)
(***************************************************************************)
EXTENDS ApsendProofs

(***************************************************************************)
(* How far a run is with its files                                         *)
(***************************************************************************)
\* It has created an outbox file.
Wrote(r) == pc[r] = "encode" \/ part[r] = "create"

\* Its loops are done with both.
PublishedBoth(r) ==
  \/ pc[r] \in {"finger", "send"}
  \/ Delivering(r) /\ todo[r] = <<>>
  \/ outcome[r][0] # "open"
  \/ \E b \in Inbox : sent[r][b] > 0

\* main() publishes after it has sorted its arguments, and before it posts or
\* files a copy; and then its sender has an outbox, the activity a name.
ProgressInv(r) ==
  /\ status[r] = "idle" => pc[r] = "load"
  /\ Wrote(r) => ~Sorting(r) /\ pc[r] # "compose"
  /\ Wrote(r) \/ pc[r] = "create" =>
       Sender(r) \in User /\ NameOf[job[r].msg] \in Name
  /\ PublishedBoth(r) => part[r] = "create"

\* A delivery has a file name from when PickName gives it one, for good.
NamedInv(r) ==
  /\ \A i \in Deliveries : slot[r][i] # 0 =>
       outcome[r][i] # "open" \/ (pc[r] \in {"open", "write"} /\ i = Current(r))
  /\ pc[r] \in {"open", "write"} => slot[r][Current(r)] # 0
  /\ \A i \in Delivery(r) : Filed(r, i) => slot[r][i] # 0

FilesInv(r) == ProgressInv(r) /\ NamedInv(r)
FilesKept == \A r \in Run : FilesInv(r)

(***************************************************************************)
(* Maildirs.  As long as no other delivery to the user has chosen the same *)
(* name, a file is empty when it has been opened, and whole when written.  *)
(***************************************************************************)
Alone(r, i) ==
  \A q \in Run : \A k \in Delivery(q) :
    <<q, k>> # <<r, i>> => ~SameFile(r, i, q, k)
MailFile(r, i) == maildir[Owner(r, i)][slot[r][i]]

MailInv(r) ==
  /\ pc[r] = "write" /\ Alone(r, Current(r)) => MailFile(r, Current(r)) = <<>>
  /\ \A i \in Delivery(r) : Filed(r, i) /\ Alone(r, i) => MailFile(r, i) = Contents(r, i)
MailKept == \A r \in Run : MailInv(r)

(***************************************************************************)
(* Outboxes.  As long as all who wrote under a name wrote one message, each *)
(* file holds a beginning of it; and all of it once a run is done with the  *)
(* file, unless another has it open.                                       *)
(***************************************************************************)
Of(q, m)    == Author[job[q].msg] = Author[m] /\ NameOf[job[q].msg] = NameOf[m]
OnlyOne(m)  == \A q \in Run : Wrote(q) /\ Of(q, m) => job[q].msg = m
Prefixes(s) == {SubSeq(s, 1, k) : k \in 0..Len(s)}
File(m, k)  == outbox[Author[m]][NameOf[m]][k]

Begun(m) ==
  Author[m] \in User /\ NameOf[m] \in Name /\ OnlyOne(m) =>
    \A k \in Part : File(m, k) \in Prefixes(Bytes(m, k))

DoneWith(r, k) ==
  part[r] = "create" /\ (k = "note" \/ PublishedBoth(r))
HasOpen(q, m, k) == job[q].msg = m /\ pc[q] = "encode" /\ part[q] = k

Whole(r) ==
  OnlyOne(job[r].msg) =>
    \A k \in Part : DoneWith(r, k) =>
      \/ File(job[r].msg, k) = Bytes(job[r].msg, k)
      \/ \E q \in Run \ {r} : HasOpen(q, job[r].msg, k)

OutboxKept == (\A m \in Msg : Begun(m)) /\ (\A r \in Run : Whole(r))

(***************************************************************************)
(* A run gets on with its files                                            *)
(***************************************************************************)
LEMMA DeliveryType ==
  ASSUME TypeOK, NEW r \in Run
  PROVE  Delivery(r) \subseteq Deliveries /\ 0 \in Delivery(r)
BY JobType DEF Delivery, Deliveries

LEMMA FilesInit == Init => FilesKept
<1> SUFFICES ASSUME Init, NEW r \in Run PROVE FilesInv(r)
  BY DEF FilesKept
<1>1. TypeOK
  BY TypeInit
<1>2. /\ pc[r] = "load" /\ part[r] = "note"
      /\ \A i \in Deliveries : outcome[r][i] = "open" /\ slot[r][i] = 0
      /\ \A b \in Inbox : sent[r][b] = 0
  BY DEF Init
<1>3. 0 \in Deliveries /\ Delivery(r) \subseteq Deliveries
  BY <1>1, DeliveryType
<1> QED
  BY <1>2, <1>3 DEF FilesInv, ProgressInv, NamedInv, Wrote, PublishedBoth, Filed, Delivering

\* Which part a run is at is its own, too.
LEMMA PartOfOthers ==
  ASSUME TypeOK, NEW r \in Run, RunStep(r), NEW q \in Run, q # r
  PROVE  part'[q] = part[q]
<1>1. CASE Encode(r)
  BY <1>1 DEF Encode, TypeOK
<1>2. CASE ~Encode(r)
  BY <1>2 DEF RunStep, Main, Deliver, Publish, Post, Exec, Kill, Load, Fatal, Exit,
       TakeRemote, TakeLocal, LoopEnd, PickName, OpenMail, WriteMail,
       DeliverFails, Compose, CreateFile, EncodeFails, Finger,
       FingerFails, FingerEnd, Send, SendEnd, SendFails, local
<1> QED
  BY <1>1, <1>2

\* What a definition here says of q is about variables of q only.
LEMMA SameFiles ==
  ASSUME NEW q, job' = job, Same(q), part'[q] = part[q]
  PROVE  /\ Sorting(q)' = Sorting(q) /\ Wrote(q)' = Wrote(q)
         /\ PublishedBoth(q)' = PublishedBoth(q)
         /\ Sender(q)' = Sender(q) /\ Current(q)' = Current(q)
         /\ Delivery(q)' = Delivery(q)
         /\ \A i : /\ Filed(q, i)' = Filed(q, i) /\ Owner(q, i)' = Owner(q, i)
                   /\ Contents(q, i)' = Contents(q, i)
BY SameJob DEF Same, Sorting, Delivering, Wrote, PublishedBoth, Current, Delivery,
     Filed, Contents

LEMMA FilesOfOthers ==
  ASSUME NEW q, FilesInv(q), job' = job, Same(q), part'[q] = part[q]
  PROVE  FilesInv(q)'
BY SameFiles DEF FilesInv, ProgressInv, NamedInv, Same

\* Once its loops are done with both files, or while it is publishing them, a
\* run has got nothing delivered yet that it should not have.
LEMMA FilesControl ==
  ASSUME TypeOK, NEW r \in Run, OrderInv(r), FilesInv(r),
         \/ Exec(r) \/ Kill(r) \/ Fatal(r) \/ Exit(r) \/ EncodeFails(r)
         \/ Load(r) \/ TakeLocal(r) \/ Compose(r) \/ CreateFile(r) \/ OpenMail(r)
  PROVE  FilesInv(r)'
<1>1. /\ todo'[r] = todo[r] /\ outcome'[r] = outcome[r] /\ sent'[r] = sent[r]
      /\ slot'[r] = slot[r] /\ part'[r] = part[r] /\ job' = job
  BY DEF Exec, Kill, Fatal, Exit, EncodeFails, Load, TakeLocal, Compose, CreateFile,
         OpenMail, world, local
<1>2. /\ Current(r)' = Current(r) /\ Delivery(r)' = Delivery(r)
      /\ Sender(r)' = Sender(r) /\ \A i : Filed(r, i)' = Filed(r, i)
  BY <1>1, SameJob DEF Current, Delivery, Filed
<1>3. CASE Exec(r) \/ Kill(r) \/ Fatal(r) \/ Exit(r) \/ EncodeFails(r)
  <2>1. pc'[r] = pc[r] /\ status'[r] # "idle"
    BY <1>3 DEF Exec, Kill, Fatal, Exit, EncodeFails, Ends, local, TypeOK
  <2> QED
    BY <1>1, <1>2, <2>1
       DEF FilesInv, ProgressInv, NamedInv, Wrote, PublishedBoth, Sorting, Delivering
<1>4. CASE Load(r) \/ TakeLocal(r)
  <2>1. /\ pc[r] \in {"load", "loop"} /\ status'[r] # "idle"
        /\ pc'[r] = "loop" \/ (pc'[r] = "name" /\ todo[r] # <<>>)
    BY <1>4 DEF Load, TakeLocal, At, Goto, TypeOK
  <2> QED
    BY <1>1, <1>2, <2>1
       DEF FilesInv, ProgressInv, NamedInv, Wrote, PublishedBoth, Sorting, Delivering
<1>5. CASE Compose(r)
  <2>1. pc[r] = "compose" /\ pc'[r] = "create" /\ status'[r] # "idle"
    BY <1>5 DEF Compose, At, Goto, TypeOK
  <2>2. Sender(r) \in User /\ NameOf[job[r].msg] \in Name
    BY <1>5, JobType, MsgAssumption DEF Compose, Sender
  <2> QED
    BY <1>1, <1>2, <2>1, <2>2
       DEF FilesInv, ProgressInv, NamedInv, Wrote, PublishedBoth, Sorting, Delivering
<1>6. CASE CreateFile(r)
  <2>1. pc[r] = "create" /\ pc'[r] = "encode" /\ status'[r] # "idle"
    BY <1>6 DEF CreateFile, At, Goto, TypeOK
  <2> QED
    BY <1>1, <1>2, <2>1
       DEF FilesInv, ProgressInv, NamedInv, Wrote, PublishedBoth, Sorting, Delivering
<1>7. CASE OpenMail(r)
  <2>1. pc[r] = "open" /\ pc'[r] = "write" /\ status'[r] # "idle"
    BY <1>7 DEF OpenMail, At, Goto, TypeOK
  <2> QED
    BY <1>1, <1>2, <2>1
       DEF FilesInv, ProgressInv, NamedInv, Wrote, PublishedBoth, Sorting, Delivering
<1> QED
  BY <1>3, <1>4, <1>5, <1>6, <1>7

\* The loop over the arguments.
LEMMA FilesLoop ==
  ASSUME TypeOK, NEW r \in Run, OrderInv(r), FilesInv(r), TakeRemote(r) \/ LoopEnd(r)
  PROVE  FilesInv(r)'
<1>1. /\ outcome'[r] = outcome[r] /\ sent'[r] = sent[r]
      /\ slot'[r] = slot[r] /\ part'[r] = part[r] /\ job' = job
      /\ pc[r] = "loop" /\ pc'[r] \in {"loop", "compose", "exit"}
      /\ status'[r] # "idle"
  BY DEF TakeRemote, LoopEnd, At, Goto, world, local, TypeOK
<1>2. /\ Delivery(r)' = Delivery(r) /\ \A i : Filed(r, i)' = Filed(r, i)
  BY <1>1, SameJob DEF Delivery, Filed
<1>3. ~Wrote(r) /\ ~PublishedBoth(r)
  BY <1>1 DEF FilesInv, ProgressInv, Wrote, Sorting
<1>4. ~Wrote(r)' /\ ~PublishedBoth(r)' /\ pc'[r] # "create"
  BY <1>1, <1>3 DEF Wrote, PublishedBoth, Delivering
<1> QED
  BY <1>1, <1>2, <1>4 DEF FilesInv, ProgressInv, NamedInv

LEMMA FilesPickName ==
  ASSUME TypeOK, NEW r \in Run, OrderInv(r), FilesInv(r), PickName(r)
  PROVE  FilesInv(r)'
<1> DEFINE c == Current(r)
<1>1. /\ todo'[r] = todo[r] /\ outcome'[r] = outcome[r] /\ sent'[r] = sent[r]
      /\ part'[r] = part[r] /\ job' = job /\ pc[r] = "name" /\ pc'[r] = "open"
      /\ slot'[r] = [slot[r] EXCEPT ![c] = now] /\ status'[r] # "idle"
  BY DEF PickName, At, Goto, world, UnixTime, TypeOK
<1>2. /\ Current(r)' = c /\ Delivery(r)' = Delivery(r)
      /\ Sender(r)' = Sender(r) /\ \A i : Filed(r, i)' = Filed(r, i)
  BY <1>1, SameJob DEF Current, Delivery, Filed
<1>3. c \in Deliveries /\ now # 0 /\ slot[r] \in [Deliveries -> Second \cup {0}]
  <2>1. c \in Owed(r)
    BY <1>1, CurrentIsOpen DEF Delivering
  <2>2. c \in Deliveries
    BY <2>1, DeliveryType DEF Owed
  <2>3. now # 0 /\ slot[r] \in [Deliveries -> Second \cup {0}]
    BY SecondAssumption DEF TypeOK, Second
  <2> QED
    BY <2>2, <2>3
<1>4. /\ slot'[r][c] = now
      /\ \A i \in Deliveries : i # c => slot'[r][i] = slot[r][i]
  <2> HIDE DEF c
  <2> QED
    BY <1>1, <1>3
<1>5. ProgressInv(r)'
  BY <1>1, <1>2 DEF FilesInv, ProgressInv, Wrote, PublishedBoth, Sorting, Delivering
<1>6. Delivery(r) \subseteq Deliveries
  BY DeliveryType
<1>7. NamedInv(r)'
  BY <1>1, <1>2, <1>3, <1>4, <1>6 DEF FilesInv, NamedInv
<1> QED
  BY <1>5, <1>7 DEF FilesInv

\* A delivery to a Maildir done, or given up.
LEMMA FilesDeliver ==
  ASSUME TypeOK, NEW r \in Run, OrderInv(r), FilesInv(r),
         WriteMail(r) \/ DeliverFails(r)
  PROVE  FilesInv(r)'
<1> DEFINE c == Current(r)
<1>1. /\ slot'[r] = slot[r] /\ part'[r] = part[r] /\ sent'[r] = sent[r] /\ job' = job
      /\ Return(r) /\ Delivering(r) /\ status[r] = "running"
      /\ \/ pc[r] = "write" /\ outcome'[r] = [outcome[r] EXCEPT ![c] = "delivered"]
         \/ outcome'[r] = [outcome[r] EXCEPT ![c] = "failed"]
  <2>1. CASE WriteMail(r)
    BY <2>1 DEF WriteMail, TypeOK, At, Delivering
  <2>2. CASE DeliverFails(r)
    BY <2>2 DEF DeliverFails, TypeOK, Delivering
  <2> QED
    BY <2>1, <2>2
<1>2. /\ c \in Deliveries /\ outcome[r] \in [Deliveries -> Outcome]
      /\ Delivery(r) \subseteq Deliveries /\ 0 \in Deliveries
  BY <1>1, CurrentIsOpen, DeliveryType DEF Owed, TypeOK
<1>3. /\ outcome'[r][c] \in {"delivered", "failed"}
      /\ outcome'[r][c] = "delivered" => slot[r][c] # 0
      /\ \A i \in Deliveries : i # c => outcome'[r][i] = outcome[r][i]
  <2>1. pc[r] = "write" => slot[r][c] # 0
    BY DEF FilesInv, NamedInv
  <2> HIDE DEF c
  <2> QED
    BY <1>1, <1>2, <2>1
<1>4. /\ Delivery(r)' = Delivery(r) /\ RemoteArgs(r)' = RemoteArgs(r)
      /\ Sender(r)' = Sender(r)
  BY <1>1, SameJob DEF Delivery
<1>5. pc'[r] = (IF todo[r] = <<>> THEN "exit" ELSE "loop") /\ status'[r] # "idle"
  BY <1>1 DEF Return, Goto, TypeOK
<1>6. NamedInv(r)'
  BY <1>1, <1>2, <1>3, <1>4, <1>5 DEF FilesInv, NamedInv, Filed
<1>7. CASE todo[r] = <<>>
  <2>1. part[r] = "create"
    BY <1>1, <1>7 DEF FilesInv, ProgressInv, PublishedBoth
  <2> QED
    BY <1>1, <1>4, <1>5, <1>6, <1>7, <2>1
       DEF FilesInv, ProgressInv, Wrote, Sorting, Delivering
<1>8. CASE todo[r] # <<>>
  <2>1. ~Wrote(r) /\ ~PublishedBoth(r) /\ part[r] # "create"
    BY <1>1, <1>8 DEF FilesInv, ProgressInv, Wrote, Sorting
  <2>2. c # 0
    <3>1. Head(todo[r]) \in Args(r)
      BY <1>8, TailType DEF TypeOK, Positions
    <3> QED
      BY <1>8, <3>1, JobType DEF Current
  <2>3. ~PublishedBoth(r)'
    BY <1>1, <1>2, <1>3, <1>5, <1>8, <2>1, <2>2 DEF PublishedBoth, Delivering
  <2> QED
    BY <1>1, <1>5, <1>6, <1>8, <2>1, <2>3 DEF FilesInv, ProgressInv, Wrote
<1> QED
  BY <1>7, <1>8

LEMMA FilesEncode ==
  ASSUME TypeOK, NEW r \in Run, OrderInv(r), FilesInv(r), Encode(r)
  PROVE  FilesInv(r)'
<1>1. /\ slot'[r] = slot[r] /\ outcome'[r] = outcome[r] /\ sent'[r] = sent[r]
      /\ job' = job /\ pc[r] = "encode" /\ pc'[r] \in {"create", "finger"}
      /\ part'[r] = "create" /\ status'[r] # "idle"
  BY DEF Encode, At, Goto, TypeOK, LastPart
<1>2. /\ Delivery(r)' = Delivery(r) /\ Sender(r)' = Sender(r)
      /\ \A i : Filed(r, i)' = Filed(r, i)
  BY <1>1, SameJob DEF Delivery, Filed
<1> QED
  BY <1>1, <1>2
     DEF FilesInv, ProgressInv, NamedInv, Wrote, PublishedBoth, Sorting, Delivering

\* Only what is remote is settled here.
LEMMA SettlesRemote ==
  ASSUME TypeOK, NEW r \in Run, Post(r)
  PROVE  \A i \in Deliveries :
           /\ outcome[r][i] # "open" => outcome'[r][i] # "open"
           /\ i \notin RemoteArgs(r) => outcome'[r][i] = outcome[r][i]
<1>1. outcome[r] \in [Deliveries -> Outcome]
  BY DEF TypeOK
<1>2. CASE Finger(r) \/ FingerEnd(r) \/ SendEnd(r)
  BY <1>2 DEF Finger, FingerEnd, SendEnd, local
<1>3. CASE FingerFails(r)
  <2> DEFINE c == Head(todo[r])
  <2>1. c \in RemoteArgs(r)
    BY <1>3, TailType DEF FingerFails, At, TypeOK, Positions
  <2>2. outcome'[r] = [outcome[r] EXCEPT ![c] = "failed"]
    BY <1>3 DEF FingerFails, TypeOK
  <2> HIDE DEF c
  <2> QED
    BY <1>1, <2>1, <2>2
<1>4. CASE Send(r) \/ SendFails(r)
  <2> DEFINE S == Behind(r, Head(boxes[r]))
  <2>1. PICK v \in {"delivered", "failed"} :
          outcome'[r] = [i \in Deliveries |-> IF i \in S THEN v ELSE outcome[r][i]]
    BY <1>4 DEF Send, SendFails, Settles, TypeOK
  <2>2. S \subseteq RemoteArgs(r)
    BY DEF Behind
  <2> HIDE DEF S
  <2> QED
    BY <2>1, <2>2
<1> QED
  BY <1>2, <1>3, <1>4 DEF Post

LEMMA FilesPost ==
  ASSUME TypeOK, NEW r \in Run, RunInv(r), OrderInv(r), FilesInv(r), Post(r)
  PROVE  FilesInv(r)'
<1>1. /\ slot'[r] = slot[r] /\ part'[r] = part[r] /\ job' = job
      /\ pc[r] \in {"finger", "send"} /\ pc'[r] \in {"finger", "send", "name", "exit"}
      /\ pc'[r] = "name" => pc[r] = "send" /\ todo'[r] = todo[r]
      /\ status'[r] # "idle"
  BY DEF Post, Finger, FingerFails, FingerEnd, Send, SendFails, SendEnd, At, Goto,
         local, TypeOK
<1>2. /\ Delivery(r)' = Delivery(r) /\ Sender(r)' = Sender(r)
      /\ RemoteArgs(r)' = RemoteArgs(r)
  BY <1>1, SameJob DEF Delivery
<1>3. part[r] = "create"
  BY <1>1 DEF FilesInv, ProgressInv, PublishedBoth
<1>4. ~Sorting(r)'
  BY <1>1 DEF RunInv, LoopsApart, Sorting, Delivering
<1>5. ProgressInv(r)'
  BY <1>1, <1>2, <1>3, <1>4 DEF FilesInv, ProgressInv, Wrote
<1>6. NamedInv(r)'
  BY <1>1, <1>2, SettlesRemote, DeliveryType DEF FilesInv, NamedInv, Filed
<1> QED
  BY <1>5, <1>6 DEF FilesInv

LEMMA FilesStep ==
  ASSUME TypeOK, BooksKept, OrderKept, FilesKept, [Next]_vars
  PROVE  FilesKept'
<1>1. CASE UNCHANGED vars \/ Tick
  BY <1>1, FilesOfOthers DEF FilesKept, Same, Tick, vars, world, local
<1>2. ASSUME NEW r \in Run, RunStep(r)
      PROVE  FilesKept'
  <2>1. RunInv(r) /\ OrderInv(r) /\ FilesInv(r)
    BY DEF BooksKept, OrderKept, FilesKept
  <2>2. FilesInv(r)'
    BY <1>2, <2>1, FilesControl, FilesLoop, FilesPickName, FilesDeliver, FilesEncode,
       FilesPost DEF RunStep, Main, Deliver, Publish
  <2>3. ASSUME NEW q \in Run, q # r PROVE FilesInv(q)'
    BY <1>2, <2>3, JobFixed, Locality, PartOfOthers, FilesOfOthers DEF FilesKept
  <2> QED
    BY <2>2, <2>3 DEF FilesKept
<1> QED
  BY <1>1, <1>2 DEF Next, RunStep

(***************************************************************************)
(* Mail that is alone under its name stays                                 *)
(***************************************************************************)

\* Delivery i of q has a file: done, or about to be written.
Holds(q, i) == Filed(q, i) \/ (pc[q] = "write" /\ i = Current(q))

\* What is written to an empty file is what it then holds.
LEMMA OverlayEmpty ==
  ASSUME NEW S, NEW new \in Seq(S)
  PROVE  Overlay(<<>>, new) = new
<1>1. Len(new) \in Nat
  BY LenProperties
<1>2. SubSeq(<<>>, Len(new) + 1, Len(<<>>)) = <<>>
  BY <1>1
<1> QED
  BY <1>2, ConcatEmptySeq DEF Overlay

\* Only a local user's Maildir is delivered to.
LEMMA OwnerType ==
  ASSUME TypeOK, NEW r \in Run, FilesInv(r),
         NEW i \in Delivery(r), i \notin RemoteArgs(r), i = 0 => PublishedBoth(r)
  PROVE  Owner(r, i) \in User
<1>1. CASE i = 0
  BY <1>1 DEF Owner, FilesInv, ProgressInv, Wrote
<1>2. CASE i # 0
  <2>1. i \in Args(r)
    BY <1>2, JobType DEF Delivery, Args
  <2>2. job[r].rcpts[i] \in Rcpt
    BY <2>1, JobType, ElementOfSeq DEF Args
  <2> QED
    BY <1>2, <2>1, <2>2 DEF Owner, RemoteArgs, Rcpt
<1> QED
  BY <1>1, <1>2

\* The delivery a run is at is one of its own, to a user's Maildir.
LEMMA CurrentOwner ==
  ASSUME TypeOK, NEW r \in Run, RunInv(r), OrderInv(r), FilesInv(r), Delivering(r)
  PROVE  Current(r) \in Delivery(r) /\ Owner(r, Current(r)) \in User
<1>1. Current(r) \in Delivery(r)
  BY CurrentIsOpen DEF Owed
<1>2. Current(r) \notin RemoteArgs(r)
  BY JobType DEF RunInv, LoopsApart, Current
<1>3. Current(r) = 0 => PublishedBoth(r)
  <2>1. todo[r] # <<>> => Head(todo[r]) \in Args(r)
    BY TailType DEF TypeOK, Positions
  <2> QED
    BY <2>1, JobType DEF Current, PublishedBoth
<1> QED
  BY <1>1, <1>2, <1>3, OwnerType

LEMMA HoldsFile ==
  ASSUME TypeOK, NEW q \in Run, RunInv(q), OrderInv(q), FilesInv(q),
         NEW i \in Delivery(q), Holds(q, i)
  PROVE  Owner(q, i) \in User /\ slot[q][i] \in Second
<1>1. slot[q][i] # 0
  BY DEF FilesInv, NamedInv, Holds
<1>2. slot[q][i] \in Second
  BY <1>1, DeliveryType DEF TypeOK
<1>3. CASE pc[q] = "write" /\ i = Current(q)
  BY <1>2, <1>3, CurrentOwner DEF Delivering
<1>4. CASE Filed(q, i)
  BY <1>2, <1>4, OwnerType DEF Filed, PublishedBoth
<1> QED
  BY <1>3, <1>4 DEF Holds

\* A run that is given no new file, and whose files stay, keeps its part.
LEMMA MailCarried ==
  ASSUME TypeOK, NEW q \in Run, RunInv(q), OrderInv(q), MailInv(q), job' = job,
         pc'[q] = "write" => pc[q] = "write" /\ Current(q)' = Current(q),
         \A i \in Delivery(q) : Filed(q, i)' => Filed(q, i),
         \A i \in Delivery(q) : Holds(q, i) /\ Alone(q, i)' =>
            Alone(q, i) /\ MailFile(q, i)' = MailFile(q, i)
  PROVE  MailInv(q)'
<1>1. Delivery(q)' = Delivery(q) /\ \A i : Contents(q, i)' = Contents(q, i)
  BY DEF Delivery, Contents
<1>2. ASSUME pc'[q] = "write", Alone(q, Current(q))'
      PROVE  MailFile(q, Current(q))' = <<>>
  <2>1. pc[q] = "write" /\ Current(q)' = Current(q)
    BY <1>2
  <2>2. Current(q) \in Delivery(q) /\ Holds(q, Current(q))
    BY <2>1, CurrentIsOpen DEF Owed, Delivering, Holds
  <2>3. \A i : i = Current(q) => (Alone(q, i)' <=> Alone(q, Current(q))')
                              /\ MailFile(q, i)' = MailFile(q, Current(q))'
    BY <2>1 DEF Alone, MailFile, SameFile, Owner, Delivery
  <2> QED
    BY <1>2, <2>1, <2>2, <2>3 DEF MailInv
<1>3. ASSUME NEW i \in Delivery(q), Filed(q, i)', Alone(q, i)'
      PROVE  MailFile(q, i)' = Contents(q, i)'
  BY <1>1, <1>3 DEF MailInv, Holds
<1> QED
  BY <1>1, <1>2, <1>3 DEF MailInv

LEMMA MailInit == Init => MailKept
<1> SUFFICES ASSUME Init, NEW r \in Run PROVE MailInv(r)
  BY DEF MailKept
<1>1. TypeOK
  BY TypeInit
<1>2. pc[r] = "load" /\ \A i \in Deliveries : outcome[r][i] = "open"
  BY DEF Init
<1> QED
  BY <1>1, <1>2, DeliveryType DEF MailInv, Filed

\* While no file is named anew, who is alone stays so.
LEMMA AloneFixed ==
  ASSUME job' = job, slot' = slot, NEW q, NEW i
  PROVE  /\ Alone(q, i)' = Alone(q, i)
         /\ maildir' = maildir => MailFile(q, i)' = MailFile(q, i)
BY DEF Alone, SameFile, Owner, Sender, Delivery, MailFile

\* Naming a delivery anew takes the solitude of others at most.
LEMMA MailPickName ==
  ASSUME TypeOK, BooksKept, OrderKept, FilesKept, MailKept,
         NEW r \in Run, PickName(r), NEW q \in Run
  PROVE  MailInv(q)'
<1> DEFINE c == Current(r)
<1>1. /\ job' = job /\ maildir' = maildir /\ outcome' = outcome /\ todo' = todo
      /\ slot' = [slot EXCEPT ![r][c] = now] /\ pc' = [pc EXCEPT ![r] = "open"]
      /\ pc[r] = "name"
  BY DEF PickName, At, Goto, world, UnixTime
<1>2. c \in Delivery(r) /\ outcome[r][c] = "open" /\ c \in Deliveries
  BY <1>1, CurrentIsOpen, DeliveryType DEF OrderKept, Owed, Delivering
<1>3. slot[r][c] = 0
  BY <1>1, <1>2 DEF FilesKept, FilesInv, NamedInv
<1>4. slot \in [Run -> [Deliveries -> Second \cup {0}]]
  BY DEF TypeOK
<1>5. \A p \in Run, k \in Deliveries : slot[p][k] # 0 => slot'[p][k] = slot[p][k]
  <2> HIDE DEF c
  <2> QED
    BY <1>1, <1>3, <1>4
<1>6. ASSUME NEW i \in Delivery(q), slot[q][i] # 0, Alone(q, i)'
      PROVE  Alone(q, i) /\ MailFile(q, i)' = MailFile(q, i)
  <2>1. slot'[q][i] = slot[q][i] /\ \A p : Delivery(p)' = Delivery(p)
    BY <1>1, <1>5, <1>6, DeliveryType DEF Delivery
  <2>2. \A p \in Run : \A k \in Delivery(p) : SameFile(q, i, p, k) => SameFile(q, i, p, k)'
    BY <1>1, <1>5, <1>6, DeliveryType DEF SameFile, Owner, Sender
  <2> QED
    BY <1>1, <1>6, <2>1, <2>2 DEF Alone, MailFile, Owner, Sender
<1>7. \A i \in Delivery(q) : Holds(q, i) => slot[q][i] # 0
  BY DEF FilesKept, FilesInv, NamedInv, Holds
<1>8. /\ \A i \in Delivery(q) : Filed(q, i)' => Filed(q, i)
      /\ pc'[q] = "write" => pc[q] = "write" /\ Current(q)' = Current(q)
  BY <1>1, SameJob DEF Filed, Current, TypeOK
<1> QED
  BY <1>1, <1>6, <1>7, <1>8, MailCarried DEF BooksKept, OrderKept, MailKept

\* Rewriting a file disturbs only those who share its name.
LEMMA RewritesOne ==
  ASSUME TypeOK, BooksKept, OrderKept, FilesKept,
         NEW r \in Run, pc[r] \in {"open", "write"}, NEW new, Rewrites(r, new)
  PROVE  /\ maildir'[Owner(r, Current(r))][slot[r][Current(r)]] = new
         /\ \A q \in Run : \A i \in Delivery(q) :
              Holds(q, i) /\ Alone(q, i) /\ <<q, i>> # <<r, Current(r)>> =>
                maildir'[Owner(q, i)][slot[q][i]] = maildir[Owner(q, i)][slot[q][i]]
<1> DEFINE c == Current(r)
           u == Owner(r, c)
           s == slot[r][c]
<1>1. /\ maildir \in [User -> [Second -> Seq(Block)]]
      /\ maildir' = [maildir EXCEPT ![u][s] = new]
  BY DEF TypeOK, Rewrites, FileName
<1>2. c \in Delivery(r) /\ u \in User
  BY CurrentOwner DEF BooksKept, OrderKept, FilesKept, Delivering
<1>3. s # 0 /\ s \in Second
  BY <1>2, DeliveryType DEF FilesKept, FilesInv, NamedInv, TypeOK
<1>4. ASSUME NEW q \in Run, NEW i \in Delivery(q), Holds(q, i), Alone(q, i),
             <<q, i>> # <<r, c>>
      PROVE  maildir'[Owner(q, i)][slot[q][i]] = maildir[Owner(q, i)][slot[q][i]]
  <2>1. Owner(q, i) \in User /\ slot[q][i] \in Second
    BY <1>4, HoldsFile DEF BooksKept, OrderKept, FilesKept
  <2>2. Owner(q, i) # u \/ slot[q][i] # s
    <3>1. ~SameFile(q, i, r, c)
      BY <1>2, <1>4 DEF Alone
    <3> QED
      BY <1>3, <3>1 DEF SameFile
  <2> HIDE DEF u, s
  <2> QED
    BY <1>1, <2>1, <2>2
<1>5. maildir'[u][s] = new
  <2> HIDE DEF u, s
  <2> QED
    BY <1>1, <1>2, <1>3
<1> QED
  BY <1>4, <1>5

\* Opening, writing, and failing to.
LEMMA MailDeliver ==
  ASSUME TypeOK, BooksKept, OrderKept, FilesKept, MailKept,
         NEW r \in Run, OpenMail(r) \/ WriteMail(r) \/ DeliverFails(r), NEW q \in Run
  PROVE  MailInv(q)'
<1> DEFINE c == Current(r)
<1>1. /\ job' = job /\ slot' = slot /\ Delivering(r)
      /\ outcome \in [Run -> [Deliveries -> Outcome]] /\ pc \in [Run -> Step]
  BY DEF OpenMail, WriteMail, DeliverFails, local, At, Delivering, TypeOK
<1>2. c \in Delivery(r) /\ c \in Deliveries
  BY <1>1, CurrentOwner, DeliveryType DEF BooksKept, OrderKept, FilesKept
<1>3. \/ maildir' = maildir
      \/ pc[r] \in {"open", "write"} /\ \E new : Rewrites(r, new)
  BY DEF OpenMail, WriteMail, DeliverFails, At
\* The other files, and those of other deliveries of r.
<1>4. ASSUME NEW i \in Delivery(q), Holds(q, i), Alone(q, i)', <<q, i>> # <<r, c>>
      PROVE  Alone(q, i) /\ MailFile(q, i)' = MailFile(q, i)
  <2>1. Alone(q, i)
    BY <1>1, <1>4, AloneFixed
  <2>2. Owner(q, i)' = Owner(q, i) /\ slot'[q][i] = slot[q][i]
    BY <1>1, SameJob
  <2>3. maildir'[Owner(q, i)][slot[q][i]] = maildir[Owner(q, i)][slot[q][i]]
    BY <1>3, <1>4, <2>1, RewritesOne
  <2> QED
    BY <2>1, <2>2, <2>3 DEF MailFile
<1>5. CASE q # r
  <2>1. <<q, c>> # <<r, c>> /\ \A i : <<q, i>> # <<r, c>>
    BY <1>5
  <2>2. Same(q)
    BY <1>5, Locality DEF RunStep, Main, Deliver
  <2>3. /\ \A i \in Delivery(q) : Filed(q, i)' => Filed(q, i)
        /\ pc'[q] = "write" => pc[q] = "write" /\ Current(q)' = Current(q)
    BY <1>1, <2>2, SameJob DEF Same, Filed, Current
  <2> QED
    BY <1>1, <1>4, <2>1, <2>3, MailCarried DEF BooksKept, OrderKept, MailKept
<1>6. CASE q = r /\ OpenMail(r)
  <2>1. /\ pc[r] = "open" /\ Rewrites(r, <<>>) /\ outcome' = outcome /\ todo' = todo
        /\ pc'[r] = "write"
    BY <1>6 DEF OpenMail, At, Goto, local, TypeOK
  <2>2. Current(r)' = c /\ Owner(r, c)' = Owner(r, c)
    BY <1>1, <2>1, SameJob DEF Current
  <2>3. maildir'[Owner(r, c)][slot[r][c]] = <<>>
    BY <2>1, RewritesOne
  <2>4. MailFile(r, Current(r))' = <<>>
    <3>1. MailFile(r, Current(r))' = maildir'[Owner(r, c)'][slot'[r][c]]
      BY <2>2 DEF MailFile, Owner, Current
    <3> QED
      BY <1>1, <2>2, <2>3, <3>1
  <2>5. ASSUME NEW i \in Delivery(r), Filed(r, i)', Alone(r, i)'
        PROVE  MailFile(r, i)' = Contents(r, i)'
    <3>1. Filed(r, i) /\ Contents(r, i)' = Contents(r, i)
      BY <1>1, <2>1, <2>5, SameJob DEF Filed, Contents
    <3>2. i # c
      BY <1>1, <3>1, CurrentIsOpen DEF Filed, OrderKept
    <3> QED
      BY <1>4, <1>6, <2>5, <3>1, <3>2 DEF MailKept, MailInv, Holds
  <2>6. Delivery(r)' = Delivery(r)
    BY <1>1 DEF Delivery
  <2> QED
    BY <1>6, <2>4, <2>5, <2>6 DEF MailInv
<1>7. CASE q = r /\ (WriteMail(r) \/ DeliverFails(r))
  <2>1. /\ pc'[r] # "write"
        /\ \/ WriteMail(r) /\ pc[r] = "write" /\ outcome'[r] = [outcome[r] EXCEPT ![c] = "delivered"]
           \/ outcome'[r] = [outcome[r] EXCEPT ![c] = "failed"]
    BY <1>1, <1>7 DEF WriteMail, DeliverFails, At, Return, Goto
  <2>2. \A i \in Deliveries : i # c => outcome'[r][i] = outcome[r][i]
    <3> HIDE DEF c
    <3> QED
      BY <1>1, <2>1
  <2>3. ASSUME NEW i \in Delivery(r), i # c, Filed(r, i)', Alone(r, i)'
        PROVE  MailFile(r, i)' = Contents(r, i)'
    <3>1. Filed(r, i) /\ Contents(r, i)' = Contents(r, i)
      BY <1>1, <2>2, <2>3, SameJob, DeliveryType DEF Filed, Contents
    <3> QED
      BY <1>4, <1>7, <2>3, <3>1 DEF MailKept, MailInv, Holds
  <2>4. ASSUME outcome'[r][c] = "delivered", Alone(r, c)
        PROVE  maildir'[Owner(r, c)][slot[r][c]] = Contents(r, c)
    <3>1. WriteMail(r) /\ pc[r] = "write"
      <4> HIDE DEF c
      <4> QED
        BY <1>1, <1>2, <2>1, <2>4
    <3>2. Stored(r) = <<>>
      BY <2>4, <3>1 DEF MailKept, MailInv, MailFile, Stored, FileName
    <3>3. Overlay(Stored(r), Contents(r, c)) = Contents(r, c)
      BY <3>2, ContentsType, OverlayEmpty
    <3>4. Rewrites(r, Contents(r, c))
      BY <3>1, <3>3 DEF WriteMail
    <3> QED
      BY <3>1, <3>4, RewritesOne
  <2>5. ASSUME NEW i \in Delivery(r), i = c, Filed(r, i)', Alone(r, i)'
        PROVE  MailFile(r, i)' = Contents(r, i)'
    <3>1. Alone(r, i) /\ Owner(r, i)' = Owner(r, i) /\ Contents(r, i)' = Contents(r, i)
      BY <1>1, <2>5, AloneFixed, SameJob DEF Contents
    <3>2. outcome'[r][i] = "delivered"
      BY <2>5 DEF Filed
    <3>3. maildir'[Owner(r, i)][slot[r][i]] = Contents(r, i)
      BY <2>4, <2>5, <3>1, <3>2
    <3> QED
      BY <1>1, <3>1, <3>3 DEF MailFile
  <2>6. Delivery(r)' = Delivery(r)
    BY <1>1 DEF Delivery
  <2> QED
    BY <1>7, <2>1, <2>3, <2>5, <2>6 DEF MailInv
<1> QED
  BY <1>5, <1>6, <1>7

LEMMA MailStep ==
  ASSUME TypeOK, BooksKept, OrderKept, FilesKept, MailKept, [Next]_vars
  PROVE  MailKept'
\* All other steps leave the Maildirs and the names of files alone.
<1>1. ASSUME UNCHANGED <<job, slot, maildir>>, NEW q \in Run,
             pc'[q] = "write" => pc[q] = "write" /\ Current(q)' = Current(q),
             \A i \in Delivery(q) : Filed(q, i)' => Filed(q, i)
      PROVE  MailInv(q)'
  BY <1>1, AloneFixed, MailCarried DEF BooksKept, OrderKept, MailKept
<1>2. CASE UNCHANGED vars \/ Tick
  <2>1. UNCHANGED <<job, slot, maildir, pc, todo, outcome>>
    BY <1>2 DEF Tick, vars, world, local
  <2> QED
    BY <1>1, <2>1, SameJob DEF MailKept, Current, Filed
<1>3. ASSUME NEW r \in Run, RunStep(r), NEW q \in Run
      PROVE  MailInv(q)'
  <2>1. CASE PickName(r)
    BY <2>1, MailPickName
  <2>2. CASE OpenMail(r) \/ WriteMail(r) \/ DeliverFails(r)
    BY <2>2, MailDeliver
  <2>3. CASE ~Deliver(r)
    <3>1. UNCHANGED <<job, slot, maildir>>
      BY <1>3, <2>3 DEF RunStep, Main, Publish, Post, Exec, Kill, Load, Fatal,
           Exit, TakeRemote, TakeLocal, LoopEnd, Compose, CreateFile, EncodeFails,
           Encode, Finger, FingerFails, FingerEnd, Send, SendEnd, SendFails, world, local
    <3>2. CASE q # r
      <4>1. Same(q)
        BY <1>3, <3>2, Locality
      <4> QED
        BY <1>1, <3>1, <4>1, SameJob DEF Same, Current, Filed
    <3>3. CASE q = r
      <4>1. CASE Post(r)
        <5>1. pc'[r] # "write"
          BY <4>1 DEF Post, Finger, FingerFails, FingerEnd, Send, SendEnd, SendFails,
               At, Goto, local, TypeOK
        <5>2. \A i \in Deliveries : i \notin RemoteArgs(r) => outcome'[r][i] = outcome[r][i]
          BY <4>1, SettlesRemote
        <5> QED
          BY <1>1, <3>1, <3>3, <5>1, <5>2, SameJob, DeliveryType DEF Filed
      <4>2. CASE ~Post(r)
        <5>1. outcome'[r] = outcome[r]
          BY <1>3, <2>3, <4>2 DEF RunStep, Main, Publish, Exec, Kill, Load, Fatal, Exit,
               TakeRemote, TakeLocal, LoopEnd, Compose, CreateFile, EncodeFails,
               Encode, local
        <5>2. pc'[r] = "write" => pc[r] = "write" /\ todo'[r] = todo[r]
          BY <1>3, <2>3, <4>2 DEF RunStep, Main, Publish, Exec, Kill, Load, Fatal, Exit,
               TakeRemote, TakeLocal, LoopEnd, Compose, CreateFile, EncodeFails,
               Encode, local, At, Goto, Ends, TypeOK
        <5> QED
          BY <1>1, <3>1, <3>3, <5>1, <5>2, SameJob DEF Filed, Current
      <4> QED
        BY <4>1, <4>2
    <3> QED
      BY <3>2, <3>3
  <2> QED
    BY <2>1, <2>2, <2>3 DEF Deliver
<1> QED
  BY <1>2, <1>3 DEF Next, RunStep, MailKept

\* A mail filed in a second no other delivery to that user chose stays in the
\* Maildir byte for byte: deliverLocal opens each file once, under the name it
\* took from the clock, and no other step of any run writes there.
THEOREM MailStays == Spec => []MailIntact
<1> DEFINE IInv == TypeOK /\ BooksKept /\ OrderKept /\ FilesKept /\ MailKept
<1>1. Init => IInv
  BY TypeInit, BooksInit, OrderInit, FilesInit, MailInit
<1>2. IInv /\ [Next]_vars => IInv'
  BY TypeStep, BooksStep, OrderStep, FilesStep, MailStep
<1>3. IInv => MailIntact
  BY DEF MailKept, MailInv, MailIntact, Alone, MailFile
<1> QED
  BY <1>1, <1>2, <1>3, PTL DEF Spec

(***************************************************************************)
(* An outbox file holds a beginning of the one message written to it       *)
(***************************************************************************)

\* Writing a beginning of a file over a beginning of the same file leaves the
\* longer of the two.
LEMMA OverlayPrefix ==
  ASSUME NEW S, NEW s \in Seq(S), NEW j \in 0..Len(s), NEW k \in 0..Len(s)
  PROVE  Overlay(SubSeq(s, 1, j), SubSeq(s, 1, k)) = SubSeq(s, 1, IF j > k THEN j ELSE k)
<1>1. Len(s) \in Nat
  BY LenProperties
<1>2. \A n \in 0..Len(s) : SubSeq(s, 1, n) \in Seq(S) /\ Len(SubSeq(s, 1, n)) = n
  <2> TAKE n \in 0..Len(s)
  <2>1. n \in Int /\ \A i \in 1..n : s[i] \in S
    BY <1>1, ElementOfSeq
  <2> QED
    BY <1>1, <2>1, SubSeqProperties
<1> DEFINE old == SubSeq(s, 1, j)
           new == SubSeq(s, 1, k)
<1>3. Overlay(old, new) = new \o SubSeq(old, k + 1, j)
  BY <1>2 DEF Overlay
<1>4. CASE j > k
  <2>1. SubSeq(old, k + 1, j) = SubSeq(s, k + 1, j)
    <3>1. j \in 1..Len(s) /\ 1 \in 1..Len(s) /\ k + 1 \in 1..(j - 1 + 1) /\ j \in 1..(j - 1 + 1)
      BY <1>1, <1>4
    <3>2. SubSeq(SubSeq(s, 1, j), k + 1, j) = SubSeq(s, 1 + (k + 1) - 1, 1 + j - 1)
      BY <3>1, SubSeqOfSubSeq
    <3>3. 1 + (k + 1) - 1 = k + 1 /\ 1 + j - 1 = j
      OBVIOUS
    <3> QED
      BY <3>2, <3>3
  <2>2. new \o SubSeq(s, k + 1, j) = SubSeq(s, 1, j)
    <3>1. 1 \in 1..(Len(s) + 1) /\ k \in (1 - 1)..Len(s) /\ j \in k..Len(s)
      BY <1>1, <1>4
    <3> QED
      BY <3>1, ConcatAdjacentSubSeq
  <2> QED
    BY <1>3, <1>4, <2>1, <2>2
<1>5. CASE ~(j > k)
  <2>1. SubSeq(old, k + 1, j) = <<>>
    BY <1>1, <1>5, SubSeqEmpty
  <2>2. new \o <<>> = new
    BY <1>2, ConcatEmptySeq
  <2> QED
    BY <1>3, <1>5, <2>1, <2>2
<1> QED
  BY <1>4, <1>5

\* So what is written over a beginning of a message's file is one again, and
\* the whole file once the whole is written.
LEMMA OverlayBytes ==
  ASSUME NEW m \in Msg, NEW f \in Part, NEW old \in Prefixes(Bytes(m, f))
  PROVE  /\ Overlay(old, Bytes(m, f)) = Bytes(m, f)
         /\ \A k \in 0..Size[m] - 1 :
              Overlay(old, SubSeq(Bytes(m, f), 1, k)) \in Prefixes(Bytes(m, f))
         /\ <<>> \in Prefixes(Bytes(m, f))
         /\ Bytes(m, f) \in Prefixes(Bytes(m, f))
<1> DEFINE s == Bytes(m, f)
<1>1. s \in Seq(Block) /\ Len(s) = Size[m] /\ Size[m] \in Nat
  BY BytesType, MsgAssumption
<1> HIDE DEF s
<1>2. PICK j \in 0..Len(s) : old = SubSeq(s, 1, j)
  BY DEF Prefixes, s
<1>3. \A k \in 0..Len(s) : Overlay(old, SubSeq(s, 1, k)) = SubSeq(s, 1, IF j > k THEN j ELSE k)
  BY <1>1, <1>2, OverlayPrefix
<1>4. SubSeq(s, 1, Len(s)) = s /\ SubSeq(s, 1, 0) = <<>>
  BY <1>1, SubSeqFull, SubSeqEmpty
<1>5. Overlay(old, s) = s
  <2>1. Len(s) \in 0..Len(s) /\ ~(j > Len(s))
    BY <1>1
  <2>2. Overlay(old, SubSeq(s, 1, Len(s))) = SubSeq(s, 1, Len(s))
    BY <1>3, <2>1
  <2> QED
    BY <1>4, <2>2
<1>6. ASSUME NEW k \in 0..Size[m] - 1
      PROVE  Overlay(old, SubSeq(s, 1, k)) \in Prefixes(s)
  <2> DEFINE n == IF j > k THEN j ELSE k
  <2>1. k \in 0..Len(s) /\ n \in 0..Len(s)
    BY <1>1
  <2>2. Overlay(old, SubSeq(s, 1, k)) = SubSeq(s, 1, n)
    BY <1>3, <2>1
  <2> HIDE DEF n
  <2> QED
    BY <2>1, <2>2 DEF Prefixes
<1>7. <<>> \in Prefixes(s) /\ s \in Prefixes(s)
  BY <1>1, <1>4 DEF Prefixes
<1> QED
  BY <1>5, <1>6, <1>7 DEF s

\* Publishing writes one file of the sender's outbox.
WritesOutbox(r) == CreateFile(r) \/ Encode(r) \/ EncodeFails(r)

LEMMA PublishesOne ==
  ASSUME TypeOK, NEW r \in Run, FilesInv(r), pc[r] \in {"create", "encode"},
         NEW new, Publishes(r, new)
  PROVE  /\ outbox'[Sender(r)][NameOf[job[r].msg]][part[r]] = new
         /\ \A u \in User : \A n \in Name : \A k \in Part :
              <<u, n, k>> # <<Sender(r), NameOf[job[r].msg], part[r]>> =>
                outbox'[u][n][k] = outbox[u][n][k]
<1> DEFINE a == Sender(r)
           d == NameOf[job[r].msg]
           p == part[r]
<1>1. /\ outbox \in [User -> [Name -> [Part -> Seq(Block)]]]
      /\ outbox' = [outbox EXCEPT ![a][d][p] = new]
      /\ a \in User /\ d \in Name /\ p \in Part
  BY DEF TypeOK, Publishes, FilesInv, ProgressInv, Wrote
<1> HIDE DEF a, d, p
<1>2. outbox'[a][d][p] = new
  BY <1>1
<1>3. \A u \in User : \A n \in Name : \A k \in Part :
        <<u, n, k>> # <<a, d, p>> => outbox'[u][n][k] = outbox[u][n][k]
  BY <1>1
<1> QED
  BY <1>2, <1>3 DEF a, d, p

\* Who has created a file has done so for good.
LEMMA WroteStays ==
  ASSUME TypeOK, NEW r \in Run, RunStep(r), NEW q \in Run
  PROVE  Wrote(q) => Wrote(q)'
<1>1. CASE q # r
  BY <1>1, JobFixed, Locality, PartOfOthers, SameFiles
<1>2. CASE q = r
  <2>1. part[r] = "create" => part'[r] = "create"
    <3>1. CASE Encode(r)
      BY <3>1 DEF Encode, TypeOK
    <3>2. CASE ~Encode(r)
      BY <3>2 DEF RunStep, Main, Deliver, Publish, Post, Exec, Kill, Load, Fatal, Exit,
           TakeRemote, TakeLocal, LoopEnd, PickName, OpenMail, WriteMail,
           DeliverFails, Compose, CreateFile, EncodeFails, Finger,
           FingerFails, FingerEnd, Send, SendEnd, SendFails, local
    <3> QED
      BY <3>1, <3>2
  <2>2. pc[r] = "encode" => pc'[r] = "encode" \/ part'[r] = "create"
    <3>1. CASE Encode(r)
      BY <3>1 DEF Encode, TypeOK, LastPart
    <3>2. CASE ~Encode(r)
      BY <3>2 DEF RunStep, Main, Deliver, Publish, Post, Exec, Kill, Load, Fatal, Exit,
           TakeRemote, TakeLocal, LoopEnd, PickName, OpenMail, WriteMail,
           DeliverFails, Compose, CreateFile, EncodeFails, Finger,
           FingerFails, FingerEnd, Send, SendEnd, SendFails, local, At
    <3> QED
      BY <3>1, <3>2
  <2> QED
    BY <1>2, <2>1, <2>2 DEF Wrote
<1> QED
  BY <1>1, <1>2

\* If one message only is written under a name after a step, it was so before,
\* and the step writes no other.
LEMMA OnlyOneWriter ==
  ASSUME TypeOK, NEW r \in Run, RunStep(r), NEW m, OnlyOne(m)'
  PROVE  /\ OnlyOne(m)
         /\ WritesOutbox(r) /\ Of(r, m) => job[r].msg = m
<1>1. job' = job /\ \A q : Of(q, m)' = Of(q, m)
  BY JobFixed DEF Of
<1>2. OnlyOne(m)
  BY <1>1, WroteStays DEF OnlyOne
<1>3. WritesOutbox(r) => Wrote(r)'
  BY DEF WritesOutbox, CreateFile, Encode, EncodeFails, Wrote, At, Goto, LastPart, TypeOK
<1> QED
  BY <1>1, <1>2, <1>3 DEF OnlyOne

\* What a step does to a file that is one message's.
LEMMA FileStep ==
  ASSUME TypeOK, FilesKept, NEW r \in Run, RunStep(r),
         NEW m \in Msg, Begun(m), OnlyOne(m)',
         Author[m] \in User, NameOf[m] \in Name, NEW k \in Part
  PROVE  /\ File(m, k)' \in Prefixes(Bytes(m, k))
         /\ ~(WritesOutbox(r) /\ job[r].msg = m /\ part[r] = k) =>
              File(m, k)' = File(m, k)
         /\ Encode(r) /\ job[r].msg = m /\ part[r] = k =>
              File(m, k)' = Bytes(m, k)
<1>1. File(m, k) \in Prefixes(Bytes(m, k))
  BY OnlyOneWriter DEF Begun
<1>2. FilesInv(r)
  BY DEF FilesKept
<1>3. CASE ~WritesOutbox(r)
  <2>1. outbox' = outbox
    BY <1>3 DEF WritesOutbox, RunStep, Main, Deliver, Publish, Post, Exec, Kill, Load,
         Fatal, Exit, TakeRemote, TakeLocal, LoopEnd, PickName, OpenMail, WriteMail,
         DeliverFails, Compose, Finger, FingerFails, FingerEnd, Send, SendEnd,
         SendFails, world
  <2> QED
    BY <1>1, <1>3, <2>1 DEF File, WritesOutbox
<1>4. ASSUME WritesOutbox(r), NEW new, Publishes(r, new)
      PROVE  IF job[r].msg = m /\ part[r] = k THEN File(m, k)' = new
                                              ELSE File(m, k)' = File(m, k)
  <2>1. pc[r] \in {"create", "encode"}
    BY <1>4 DEF WritesOutbox, CreateFile, Encode, EncodeFails, At
  <2>2. CASE job[r].msg = m /\ part[r] = k
    <3>1. outbox'[Sender(r)][NameOf[job[r].msg]][part[r]] = new
      BY <1>2, <1>4, <2>1, PublishesOne
    <3> QED
      BY <2>2, <3>1 DEF File, Sender
  <2>3. CASE ~(job[r].msg = m /\ part[r] = k)
    <3>1. <<Author[m], NameOf[m], k>> # <<Sender(r), NameOf[job[r].msg], part[r]>>
      BY <1>4, <2>3, OnlyOneWriter DEF Of, Sender
    <3>2. \A u \in User : \A n \in Name : \A x \in Part :
            <<u, n, x>> # <<Sender(r), NameOf[job[r].msg], part[r]>> =>
              outbox'[u][n][x] = outbox[u][n][x]
      BY <1>2, <1>4, <2>1, PublishesOne
    <3> QED
      BY <2>3, <3>1, <3>2 DEF File
  <2> QED
    BY <2>2, <2>3
<1>5. CASE CreateFile(r)
  <2>1. Publishes(r, <<>>) /\ ~Encode(r) /\ WritesOutbox(r)
    BY <1>5 DEF CreateFile, Encode, At, WritesOutbox
  <2>2. <<>> \in Prefixes(Bytes(m, k))
    BY <1>1, OverlayBytes
  <2> QED
    BY <1>1, <1>4, <2>1, <2>2
\* The file being written is m's, where it is the one in question.
<1>6. job[r].msg = m /\ part[r] = k =>
        Published(r)[part[r]] = File(m, k) /\ Bytes(job[r].msg, part[r]) = Bytes(m, k)
  BY DEF Published, File, Sender
<1>7. CASE Encode(r)
  <2>1. Publishes(r, Overlay(Published(r)[part[r]], Bytes(job[r].msg, part[r])))
        /\ WritesOutbox(r)
    BY <1>7 DEF Encode, WritesOutbox
  <2>2. Overlay(File(m, k), Bytes(m, k)) = Bytes(m, k)
        /\ Bytes(m, k) \in Prefixes(Bytes(m, k))
    BY <1>1, OverlayBytes
  <2> QED
    BY <1>1, <1>4, <1>6, <2>1, <2>2
<1>8. CASE EncodeFails(r)
  <2>1. PICK n \in 0..Size[job[r].msg] - 1 :
          Publishes(r, Overlay(Published(r)[part[r]],
                               SubSeq(Bytes(job[r].msg, part[r]), 1, n)))
    BY <1>8 DEF EncodeFails
  <2>2. ~Encode(r) /\ WritesOutbox(r)
    BY <1>8 DEF Encode, EncodeFails, At, Goto, Ends, WritesOutbox, TypeOK
  <2>3. job[r].msg = m =>
          Overlay(File(m, k), SubSeq(Bytes(m, k), 1, n)) \in Prefixes(Bytes(m, k))
    BY <1>1, OverlayBytes
  <2> QED
    BY <1>1, <1>4, <1>6, <2>1, <2>2, <2>3
<1> QED
  BY <1>3, <1>5, <1>7, <1>8 DEF WritesOutbox

\* Only by encoding does a run get done with a file.
LEMMA DoneBefore ==
  ASSUME TypeOK, NEW r \in Run, RunStep(r), ~Encode(r), FilesInv(r),
         RunInv(r)', OrderInv(r)', NEW k, DoneWith(r, k)'
  PROVE  DoneWith(r, k)
<1>1. part[r] = "create"
  BY DEF DoneWith, RunStep, Main, Deliver, Publish, Post, Exec, Kill, Load, Fatal,
       Exit, TakeRemote, TakeLocal, LoopEnd, PickName, OpenMail, WriteMail,
       DeliverFails, Compose, CreateFile, EncodeFails, Finger,
       FingerFails, FingerEnd, Send, SendEnd, SendFails, local
<1>2. CASE pc[r] \in {"create", "encode"}
  <2>1. pc'[r] \in {"create", "encode"}
    BY <1>2 DEF RunStep, Main, Deliver, Publish, Post, Exec, Kill, Load, Fatal,
         Exit, TakeRemote, TakeLocal, LoopEnd, PickName, OpenMail, WriteMail,
         DeliverFails, Compose, CreateFile, EncodeFails, Finger, FingerFails,
         FingerEnd, Send, SendEnd, SendFails, local, At, Goto, TypeOK
  <2>2. ~PublishedBoth(r)'
    BY <2>1 DEF PublishedBoth, RunInv, SentOnce, OrderInv, CopyLast, Publishing, Delivering
  <2> QED
    BY <1>1, <2>2 DEF DoneWith
<1>3. CASE pc[r] = "exit"
  <2>1. /\ pc'[r] = "exit" /\ outcome'[r] = outcome[r] /\ sent'[r] = sent[r]
    BY <1>3 DEF RunStep, Main, Deliver, Publish, Post, Exec, Kill, Load, Fatal,
         Exit, TakeRemote, TakeLocal, LoopEnd, PickName, OpenMail, WriteMail,
         DeliverFails, Compose, CreateFile, EncodeFails, Finger, FingerFails,
         FingerEnd, Send, SendEnd, SendFails, local, world, At
  <2> QED
    BY <1>1, <1>3, <2>1 DEF DoneWith, PublishedBoth, Delivering
<1>4. CASE pc[r] \notin {"create", "encode", "exit"}
  <2>1. ~Sorting(r) /\ pc[r] # "compose" /\ pc[r] \in Step
    BY <1>1 DEF FilesInv, ProgressInv, Wrote, TypeOK
  <2>2. PublishedBoth(r)
    BY <1>4, <2>1 DEF Sorting, Delivering, PublishedBoth, Step
  <2> QED
    BY <1>1, <2>2 DEF DoneWith
<1> QED
  BY <1>2, <1>3, <1>4

\* A run has a file open until it has encoded the activity, dead or alive.
LEMMA StaysOpen ==
  ASSUME TypeOK, NEW r \in Run, RunStep(r), ~Encode(r), pc[r] = "encode"
  PROVE  pc'[r] = "encode" /\ part'[r] = part[r]
BY DEF RunStep, Main, Deliver, Publish, Post, Exec, Kill, Load, Fatal,
     Exit, TakeRemote, TakeLocal, LoopEnd, PickName, OpenMail, WriteMail,
     DeliverFails, Compose, CreateFile, EncodeFails, Finger, FingerFails,
     FingerEnd, Send, SendEnd, SendFails, local, At, Goto

LEMMA OutboxInit == Init => OutboxKept
<1> SUFFICES ASSUME Init PROVE OutboxKept
  OBVIOUS
<1>1. ASSUME NEW m \in Msg, Author[m] \in User, NameOf[m] \in Name, NEW k \in Part
      PROVE  File(m, k) \in Prefixes(Bytes(m, k))
  <2>1. File(m, k) = <<>>
    BY <1>1 DEF Init, File
  <2>2. Bytes(m, k) \in Seq(Block)
    BY BytesType
  <2>3. SubSeq(Bytes(m, k), 1, 0) = <<>> /\ 0 \in 0..Len(Bytes(m, k))
    BY <2>2, SubSeqEmpty, LenProperties
  <2> QED
    BY <2>1, <2>3 DEF Prefixes
<1>2. \A r \in Run : part[r] = "note"
  BY DEF Init
<1> QED
  BY <1>1, <1>2 DEF OutboxKept, Begun, Whole, DoneWith

\* What r is done with stays whole.
LEMMA WholeStep ==
  ASSUME TypeOK, BooksKept, OrderKept, FilesKept, OutboxKept, NEW p \in Run, RunStep(p),
         TypeOK', BooksKept', OrderKept', FilesKept', NEW r \in Run
  PROVE  Whole(r)'
<1>1. PICK m \in Msg : job[r].msg = m
  BY JobType
<1>2. job' = job
  BY JobFixed
<1> SUFFICES ASSUME OnlyOne(m)', NEW k \in Part, DoneWith(r, k)'
             PROVE  \/ File(m, k)' = Bytes(m, k)
                    \/ \E q \in Run \ {r} : HasOpen(q, m, k)'
  BY <1>1, <1>2 DEF Whole, OnlyOne, Of, File, HasOpen
<1>3. /\ RunInv(r)' /\ OrderInv(r)' /\ FilesInv(r)' /\ FilesInv(r) /\ FilesInv(p)
  BY DEF BooksKept, OrderKept, FilesKept
<1>4. /\ m \in Msg /\ Author[m] \in User /\ NameOf[m] \in Name /\ part'[r] = "create"
  BY <1>1, <1>2, <1>3 DEF DoneWith, FilesInv, ProgressInv, Wrote, Sender
<1>5. Begun(m) /\ OnlyOne(m)
  BY OnlyOneWriter DEF OutboxKept
<1>6. /\ ~(WritesOutbox(p) /\ job[p].msg = m /\ part[p] = k) => File(m, k)' = File(m, k)
      /\ Encode(p) /\ job[p].msg = m /\ part[p] = k => File(m, k)' = Bytes(m, k)
  BY <1>4, <1>5, FileStep
\* While r has a file open, or is about to, the one it is done with is the other.
<1>7. ASSUME pc'[r] \in {"create", "encode"} PROVE k = "note"
  BY <1>3, <1>7
     DEF DoneWith, PublishedBoth, RunInv, SentOnce, OrderInv, CopyLast, Publishing, Delivering
<1>8. CASE Encode(p) /\ job[p].msg = m /\ part[p] = k
  BY <1>6, <1>8
<1>9. CASE (CreateFile(p) \/ EncodeFails(p)) /\ job[p].msg = m /\ part[p] = k
  <2>1. pc'[p] = "encode" /\ part'[p] = part[p]
    BY <1>9 DEF CreateFile, EncodeFails, At, Goto, local, TypeOK
  <2>2. p # r
    BY <1>1, <1>4, <1>7, <1>9, <2>1
  <2> QED
    BY <1>2, <1>9, <2>1, <2>2 DEF HasOpen
<1>10. CASE ~(WritesOutbox(p) /\ job[p].msg = m /\ part[p] = k)
  <2>1. DoneWith(r, k)
    <3>1. CASE p # r
      BY <1>2, <3>1, Locality, PartOfOthers, SameFiles DEF DoneWith
    <3>2. CASE p = r /\ ~Encode(r)
      BY <1>3, <3>2, DoneBefore
    <3>3. CASE p = r /\ Encode(r)
      <4>1. part[r] # k /\ part[r] \in Part
        BY <1>1, <1>10, <3>3 DEF WritesOutbox, TypeOK
      <4>2. CASE part[r] = "note"
        <5>1. pc'[r] = "create"
          BY <3>3, <4>2 DEF Encode, LastPart, Goto, TypeOK
        <5> QED
          BY <1>7, <4>1, <4>2, <5>1
      <4>3. CASE part[r] = "create"
        BY <4>1, <4>3 DEF DoneWith, Part
      <4> QED
        BY <4>1, <4>2, <4>3 DEF Part
    <3> QED
      BY <3>1, <3>2, <3>3
  <2>2. \/ File(m, k)' = Bytes(m, k)
        \/ \E q \in Run \ {r} : HasOpen(q, m, k)
    BY <1>1, <1>5, <1>6, <1>10, <2>1 DEF OutboxKept, Whole
  <2>3. ASSUME NEW q \in Run \ {r}, HasOpen(q, m, k)
        PROVE  HasOpen(q, m, k)'
    <3>1. CASE q # p
      BY <1>2, <2>3, <3>1, Locality, PartOfOthers DEF HasOpen, Same
    <3>2. CASE q = p
      <4>1. ~Encode(p)
        BY <1>10, <2>3, <3>2 DEF HasOpen, WritesOutbox
      <4> QED
        BY <1>2, <2>3, <3>2, <4>1, StaysOpen DEF HasOpen
    <3> QED
      BY <3>1, <3>2
  <2> QED
    BY <2>2, <2>3
<1> QED
  BY <1>8, <1>9, <1>10 DEF WritesOutbox

LEMMA OutboxStep ==
  ASSUME TypeOK, BooksKept, OrderKept, FilesKept, OutboxKept, [Next]_vars,
         TypeOK', BooksKept', OrderKept', FilesKept'
  PROVE  OutboxKept'
<1>1. CASE UNCHANGED vars \/ Tick
  <2>1. UNCHANGED <<outbox, job, pc, part, todo, outcome, sent>>
    BY <1>1 DEF Tick, vars, world, local
  <2>2. /\ \A m : OnlyOne(m)' = OnlyOne(m)
        /\ \A m, k : File(m, k)' = File(m, k)
        /\ \A r, k : DoneWith(r, k)' = DoneWith(r, k)
        /\ \A r, m, k : HasOpen(r, m, k)' = HasOpen(r, m, k)
    BY <2>1 DEF OnlyOne, Of, Wrote, File, DoneWith, HasOpen, PublishedBoth, Delivering
  <2>3. \A m \in Msg : Begun(m)'
    BY <2>2 DEF OutboxKept, Begun
  <2>4. ASSUME NEW r \in Run PROVE Whole(r)'
    <3>1. job'[r].msg = job[r].msg /\ Whole(r)
      BY <2>1 DEF OutboxKept
    <3> QED
      BY <2>2, <3>1 DEF Whole
  <2> QED
    BY <2>3, <2>4 DEF OutboxKept
<1>2. ASSUME NEW p \in Run, RunStep(p)
      PROVE  OutboxKept'
  <2>1. \A m \in Msg : Begun(m)'
    BY <1>2, FileStep DEF OutboxKept, Begun
  <2>2. \A r \in Run : Whole(r)'
    BY <1>2, WholeStep
  <2> QED
    BY <2>1, <2>2 DEF OutboxKept
<1> QED
  BY <1>1, <1>2 DEF Next, RunStep

\* An inbox learns of an activity only once both files of it are complete in the
\* sender's outbox, and there they stay, unless another run has one open or
\* wrote another message under the same name.
THEOREM SentCanBeFetched == Spec => []SentIsFetchable
<1> DEFINE IInv == TypeOK /\ BooksKept /\ OrderKept /\ FilesKept /\ OutboxKept
<1>1. Init => IInv
  BY TypeInit, BooksInit, OrderInit, FilesInit, OutboxInit
<1>2. IInv /\ [Next]_vars => IInv'
  BY TypeStep, BooksStep, OrderStep, FilesStep, OutboxStep
<1>3. IInv => SentIsFetchable
  <2> SUFFICES ASSUME IInv, NEW r \in Run, NEW b \in Inbox, sent[r][b] > 0
               PROVE  Complete(r) \/ \E q \in Run : Disturbs(q, r)
    BY DEF SentIsFetchable
  <2> DEFINE m == job[r].msg
  <2>1. \A q \in Run : Wrote(q) => /\ status[q] # "idle"
                                   /\ pc[q] \notin {"load", "loop", "compose"}
    BY DEF FilesKept, FilesInv, ProgressInv, Sorting
  <2>2. PublishedBoth(r) /\ part[r] = "create"
    BY DEF FilesKept, FilesInv, ProgressInv, PublishedBoth
  <2>3. CASE OnlyOne(m)
    <3>1. \A k \in Part : \/ File(m, k) = Bytes(m, k)
                          \/ \E q \in Run \ {r} : HasOpen(q, m, k)
      BY <2>2, <2>3 DEF OutboxKept, Whole, DoneWith
    <3>2. \A k \in Part : Published(r)[k] = File(m, k)
      BY DEF Published, File, Sender
    <3>3. \A q \in Run \ {r} : \A k : HasOpen(q, m, k) => Disturbs(q, r)
      BY <2>1 DEF HasOpen, Disturbs, Wrote, Sender
    <3> QED
      BY <3>1, <3>2, <3>3 DEF Complete
  <2>4. CASE ~OnlyOne(m)
    <3>1. PICK q \in Run : Wrote(q) /\ Of(q, m) /\ job[q].msg # m
      BY <2>4 DEF OnlyOne
    <3>2. Disturbs(q, r)
      BY <2>1, <3>1 DEF Of, Disturbs, Sender
    <3> QED
      BY <3>2
  <2> QED
    BY <2>3, <2>4
<1> QED
  BY <1>1, <1>2, <1>3, PTL DEF Spec
=============================================================================
