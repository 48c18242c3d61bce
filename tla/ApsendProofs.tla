---------------------------- MODULE ApsendProofs ----------------------------
(***************************************************************************)
(* What is proved of Apsend, for all sets of runs, users, addresses, jobs, *)
(* messages and inboxes.                                                   *)
(***************************************************************************)
EXTENDS Apsend, SequenceTheorems, TLAPS

(***************************************************************************)
(* Functions and sequences                                                 *)
(***************************************************************************)

\* Updating a table outside its domain changes nothing, inside it the entry.
LEMMA UpdateType ==
  ASSUME NEW A, NEW B, NEW C, NEW f \in [A -> [B -> C]], NEW a, NEW b, NEW v,
         a \in A /\ b \in B => v \in C
  PROVE  [f EXCEPT ![a][b] = v] \in [A -> [B -> C]]
<1>1. CASE a \in A
  <2>1. f[a] \in [B -> C]
    BY <1>1
  <2>2. [f[a] EXCEPT ![b] = v] \in [B -> C]
    BY <1>1, <2>1
  <2> QED
    BY <1>1, <2>2
<1>2. CASE a \notin A
  BY <1>2
<1> QED
  BY <1>1, <1>2

\* Overwriting a file from its start leaves a file of the same blocks.
LEMMA OverlayType ==
  ASSUME NEW S, NEW old \in Seq(S), NEW new \in Seq(S)
  PROVE  Overlay(old, new) \in Seq(S)
<1>1. Len(new) \in Nat /\ Len(old) \in Nat
  BY LenProperties
<1>2. \A i \in Len(new) + 1 .. Len(old) : old[i] \in S
  BY <1>1, ElementOfSeq
<1>3. SubSeq(old, Len(new) + 1, Len(old)) \in Seq(S)
  BY <1>1, <1>2, SubSeqProperties
<1> QED
  BY <1>3, ConcatProperties DEF Overlay

\* What the first k blocks of a file are, is a file.
LEMMA PrefixType ==
  ASSUME NEW S, NEW s \in Seq(S), NEW k \in 0..Len(s)
  PROVE  SubSeq(s, 1, k) \in Seq(S)
<1>1. Len(s) \in Nat
  BY LenProperties
<1>2. \A i \in 1..k : s[i] \in S
  BY <1>1, ElementOfSeq
<1> QED
  BY <1>1, <1>2, SubSeqProperties

LEMMA BytesType ==
  ASSUME NEW m \in Msg, NEW f \in Form \cup Part
  PROVE  Bytes(m, f) \in Seq(Block) /\ Len(Bytes(m, f)) = Size[m]
<1>1. Size[m] \in Nat
  BY MsgAssumption
<1>2. \A i \in 1..Size[m] : <<m, f, i>> \in Block
  BY <1>1 DEF Block
<1> QED
  BY <1>1, <1>2 DEF Bytes

(***************************************************************************)
(* Types                                                                   *)
(***************************************************************************)
LEMMA JobType ==
  ASSUME TypeOK, NEW r \in Run
  PROVE  /\ job[r] \in Job
         /\ job[r].msg \in Msg
         /\ job[r].rcpts \in Seq(Rcpt)
         /\ job[r].file \in BOOLEAN
         /\ Len(job[r].rcpts) \in Nat
         /\ Args(r) \subseteq Nat \ {0}
         /\ RemoteArgs(r) \subseteq Args(r)
         /\ Args(r) \subseteq Deliveries
         /\ 0 \in Deliveries
<1>1. job[r] \in Job
  BY DEF TypeOK
<1>2. job[r].msg \in Msg /\ job[r].rcpts \in Seq(Rcpt) /\ job[r].file \in BOOLEAN
  BY <1>1, JobAssumption
<1>3. Len(job[r].rcpts) \in Nat
  BY <1>2, LenProperties
<1>4. 0..Len(job[r].rcpts) \subseteq Deliveries
  BY <1>1 DEF Deliveries
<1> QED
  BY <1>1, <1>2, <1>3, <1>4 DEF Args, RemoteArgs

LEMMA ContentsType ==
  ASSUME TypeOK, NEW r \in Run, NEW i
  PROVE  Contents(r, i) \in Seq(Block)
<1>1. job[r].msg \in Msg
  BY JobType
<1>2. /\ Bytes(job[r].msg, "copy") \in Seq(Block)
      /\ Bytes(job[r].msg, "mail") \in Seq(Block)
  BY <1>1, BytesType DEF Form
<1>3. <<>> \in Seq(Block)
  BY EmptySeq
<1> QED
  BY <1>2, <1>3 DEF Contents

\* Whatever is written over a mail file, the Maildirs stay Maildirs.
LEMMA RewritesType ==
  ASSUME TypeOK, NEW r \in Run, NEW new \in Seq(Block),
         \/ Rewrites(r, Overlay(Stored(r), new))
         \/ Rewrites(r, <<>>)
  PROVE  maildir' \in [User -> [Second -> Seq(Block)]]
<1> DEFINE u == Owner(r, Current(r))
           s == FileName(r)
<1>1. maildir \in [User -> [Second -> Seq(Block)]]
  BY DEF TypeOK
<1>2. <<>> \in Seq(Block)
  BY EmptySeq
<1>3. u \in User /\ s \in Second => Overlay(Stored(r), new) \in Seq(Block)
  BY <1>1, OverlayType DEF Stored
<1>4. CASE Rewrites(r, Overlay(Stored(r), new))
  BY <1>1, <1>3, <1>4, UpdateType DEF Rewrites
<1>5. CASE Rewrites(r, <<>>)
  BY <1>1, <1>2, <1>5, UpdateType DEF Rewrites
<1> QED
  BY <1>4, <1>5

\* The same of the outboxes.
LEMMA PublishesType ==
  ASSUME TypeOK, NEW r \in Run, NEW new \in Seq(Block),
         \/ Publishes(r, Overlay(Published(r)[part[r]], new))
         \/ Publishes(r, <<>>)
  PROVE  outbox' \in [User -> [Name -> [Part -> Seq(Block)]]]
<1> DEFINE u == Sender(r)
           n == NameOf[job[r].msg]
<1>1. outbox \in [User -> [Name -> [Part -> Seq(Block)]]] /\ part[r] \in Part
  BY DEF TypeOK
<1>2. <<>> \in Seq(Block)
  BY EmptySeq
<1>3. u \in User /\ n \in Name => Overlay(Published(r)[part[r]], new) \in Seq(Block)
  BY <1>1, OverlayType DEF Published
<1>4. ASSUME NEW new2, u \in User /\ n \in Name => new2 \in Seq(Block),
             outbox' = [outbox EXCEPT ![u][n][part[r]] = new2]
      PROVE  outbox' \in [User -> [Name -> [Part -> Seq(Block)]]]
  <2>1. u \in User /\ n \in Name =>
          [outbox[u][n] EXCEPT ![part[r]] = new2] \in [Part -> Seq(Block)]
    BY <1>1, <1>4
  <2>2. outbox' = [outbox EXCEPT ![u][n] = [outbox[u][n] EXCEPT ![part[r]] = new2]]
    BY <1>1, <1>4
  <2> DEFINE entry == [outbox[u][n] EXCEPT ![part[r]] = new2]
             File  == [Part -> Seq(Block)]
  <2>3. outbox \in [User -> [Name -> File]]
    BY <1>1
  <2>4. u \in User /\ n \in Name => entry \in File
    BY <2>1
  <2> HIDE DEF entry, File, u, n
  <2>5. [outbox EXCEPT ![u][n] = entry] \in [User -> [Name -> File]]
    BY <2>3, <2>4, UpdateType
  <2> QED
    BY <2>2, <2>5 DEF entry, File
<1>5. CASE Publishes(r, Overlay(Published(r)[part[r]], new))
  BY <1>3, <1>4, <1>5 DEF Publishes
<1>6. CASE Publishes(r, <<>>)
  BY <1>2, <1>4, <1>6 DEF Publishes
<1> QED
  BY <1>5, <1>6

\* A job is fixed, so the positions it has are.
LEMMA SameJob ==
  ASSUME job' = job, NEW r
  PROVE  /\ Args(r)' = Args(r)
         /\ RemoteArgs(r)' = RemoteArgs(r)
         /\ Sender(r)' = Sender(r)
         /\ \A i : Owner(r, i)' = Owner(r, i) /\ BoxOf(r, i)' = BoxOf(r, i)
BY DEF Args, RemoteArgs, Sender, Owner, BoxOf

\* Taking the first argument off a loop keeps the rest.
LEMMA TailType ==
  ASSUME NEW S, NEW s \in Seq(S), s # <<>>
  PROVE  Head(s) \in S /\ Tail(s) \in Seq(S)
BY HeadTailProperties

LEMMA BoxType ==
  ASSUME NEW a \in Addr
  PROVE  Box(a) \in Inbox \cup {NoInbox}
BY InboxAssumption DEF Box

LEMMA AddBoxType ==
  ASSUME NEW S, NEW bs \in Seq(S), NEW b \in S
  PROVE  AddBox(bs, b) \in Seq(S)
<1>1. Append(bs, b) \in Seq(S)
  OBVIOUS
<1> QED
  BY <1>1 DEF AddBox

\* A sequence of positions of r is a sequence of numbers.
LEMMA PositionsAreNumbers ==
  ASSUME TypeOK, NEW r \in Run
  PROVE  /\ Seq(RemoteArgs(r)) \subseteq Seq(Args(r))
         /\ Seq(Args(r)) \subseteq Seq(Nat)
<1>1. RemoteArgs(r) \subseteq Args(r) /\ Args(r) \subseteq Nat
  BY JobType
<1> QED
  BY <1>1, SeqMonotonic

LEMMA TypeInit == Init => TypeOK
<1> SUFFICES ASSUME Init PROVE TypeOK
  OBVIOUS
<1>1. /\ now \in Second
      /\ \A S : <<>> \in Seq(S)
  BY SecondAssumption, EmptySeq DEF Init, Second
<1>2. \A r \in Run : Len(job[r].rcpts) \in Nat
  BY JobAssumption, LenProperties DEF Init
<1>3. ASSUME NEW r \in Run
      PROVE  [i \in Args(r) |-> i] \in Seq(Args(r)) /\ Args(r) \subseteq Nat
  <2>1. \A n \in Nat : [i \in 1..n |-> i] \in Seq(1..n) /\ 1..n \subseteq Nat
    OBVIOUS
  <2> QED
    BY <1>2, <2>1 DEF Args
<1>4. \A r \in Run : [i \in Args(r) |-> i] \in Seq(Nat)
  BY <1>3, SeqMonotonic
<1>5. Positions
  BY <1>1, <1>3 DEF Init, Positions
<1>6. todo \in [Run -> Seq(Nat)]
  BY <1>4 DEF Init
<1> QED
  BY <1>1, <1>5, <1>6 DEF Init, TypeOK, Status, Step, Part, Outcome

(***************************************************************************)
(* A step of one run leaves what the others keep for themselves alone.     *)
(***************************************************************************)
Same(q) ==
  /\ job'[q] = job[q]         /\ status'[q] = status[q]
  /\ pc'[q] = pc[q]           /\ todo'[q] = todo[q]
  /\ remote'[q] = remote[q]   /\ boxes'[q] = boxes[q]
  /\ gotErr'[q] = gotErr[q]   /\ slot'[q] = slot[q]
  /\ outcome'[q] = outcome[q] /\ sent'[q] = sent[q]

RunStep(r) == Exec(r) \/ Main(r) \/ Kill(r)

LEMMA JobFixed ==
  ASSUME NEW r, RunStep(r)
  PROVE  job' = job
BY DEF RunStep, Main, Deliver, Publish, Post, Exec, Kill, Load, Fatal, Exit,
       TakeRemote, TakeLocal, LoopEnd, PickName, OpenMail, WriteMail,
       DeliverFails, Compose, CreateFile, EncodeFails, Encode, Finger,
       FingerFails, FingerEnd, Send, SendEnd, SendFails

LEMMA Locality ==
  ASSUME TypeOK, NEW r \in Run, RunStep(r), NEW q \in Run, q # r
  PROVE  Same(q)
<1> USE DEF TypeOK, Same, world, local, Goto, Ends
<1>1. CASE Exec(r) \/ Kill(r)
  BY <1>1 DEF Exec, Kill
<1>2. CASE Load(r) \/ Fatal(r) \/ Exit(r)
  BY <1>2 DEF Load, Fatal, Exit
<1>3. CASE TakeRemote(r) \/ TakeLocal(r) \/ LoopEnd(r)
  BY <1>3 DEF TakeRemote, TakeLocal, LoopEnd
<1>4. CASE PickName(r) \/ OpenMail(r)
  BY <1>4 DEF PickName, OpenMail
<1>5. CASE WriteMail(r)
  BY <1>5 DEF WriteMail, Return
<1>6. CASE DeliverFails(r)
  BY <1>6 DEF DeliverFails, Return, NotesError
<1>7. CASE Compose(r) \/ CreateFile(r) \/ EncodeFails(r)
  BY <1>7 DEF Compose, CreateFile, EncodeFails
<1>8. CASE Encode(r)
  BY <1>8 DEF Encode
<1>9. CASE Finger(r) \/ FingerFails(r) \/ FingerEnd(r)
  BY <1>9 DEF Finger, FingerFails, FingerEnd, NotesError
<1>10. CASE Send(r) \/ SendEnd(r)
  BY <1>10 DEF Send, SendEnd, Settles
<1>11. CASE SendFails(r)
  BY <1>11 DEF SendFails, Settles, NotesError
<1> QED
  BY <1>1, <1>2, <1>3, <1>4, <1>5, <1>6, <1>7, <1>8, <1>9, <1>10, <1>11
     DEF RunStep, Main, Deliver, Publish, Post

\* So the positions of the other runs stay in order.
LEMMA PositionsStep ==
  ASSUME TypeOK, NEW r \in Run, RunStep(r),
         todo'[r] \in Seq(Args(r)),
         remote'[r] \in Seq(RemoteArgs(r)),
         pc'[r] = "finger" => todo'[r] \in Seq(RemoteArgs(r))
  PROVE  Positions'
<1> SUFFICES ASSUME NEW q \in Run
             PROVE  /\ todo'[q] \in Seq(Args(q)')
                    /\ remote'[q] \in Seq(RemoteArgs(q)')
                    /\ pc'[q] = "finger" => todo'[q] \in Seq(RemoteArgs(q)')
  BY DEF Positions
<1>1. Args(q)' = Args(q) /\ RemoteArgs(q)' = RemoteArgs(q)
  BY JobFixed, SameJob
<1>2. CASE q = r
  BY <1>1, <1>2
<1>3. CASE q # r
  BY <1>1, <1>3, Locality DEF TypeOK, Positions, Same
<1> QED
  BY <1>2, <1>3

(***************************************************************************)
(* Every step keeps the types                                              *)
(***************************************************************************)
LEMMA TypeStep ==
  ASSUME TypeOK, [Next]_vars
  PROVE  TypeOK'
<1>1. CASE UNCHANGED vars
  BY <1>1, SameJob DEF TypeOK, Positions, vars, world, local, Args, RemoteArgs
<1>2. CASE Tick
  BY <1>2, SecondAssumption, SameJob
     DEF Tick, TypeOK, Positions, Second, world, local, Args, RemoteArgs
<1>3. ASSUME NEW r \in Run, RunStep(r)
      PROVE  TypeOK'
  <2> USE DEF world, local, Goto, Ends, At
  <2>1. /\ todo[r] \in Seq(Args(r)) /\ remote[r] \in Seq(RemoteArgs(r))
        /\ remote[r] \in Seq(Args(r))
        /\ pc[r] = "finger" => todo[r] \in Seq(RemoteArgs(r))
    BY PositionsAreNumbers DEF TypeOK, Positions
  <2>2. Seq(Args(r)) \subseteq Seq(Nat) /\ Seq(RemoteArgs(r)) \subseteq Seq(Nat)
    BY PositionsAreNumbers
  <2>4. CASE Exec(r) \/ Kill(r) \/ Fatal(r) \/ Exit(r)
    <3>1. Positions'
      BY <1>3, <2>1, <2>4, PositionsStep DEF Exec, Kill, Fatal, Exit
    <3> QED
      BY <2>4, <3>1 DEF TypeOK, Exec, Kill, Fatal, Exit, Status, Ended
  <2>5. CASE Load(r) \/ TakeLocal(r) \/ LoopEnd(r) \/ Compose(r) \/ FingerEnd(r) \/ SendEnd(r)
    <3>1. pc' \in [Run -> Step] /\ pc'[r] # "finger"
      BY <2>5 DEF TypeOK, Step, Load, TakeLocal, LoopEnd, Compose, FingerEnd, SendEnd
    <3>2. Positions'
      BY <1>3, <2>1, <2>5, <3>1, PositionsStep
         DEF Load, TakeLocal, LoopEnd, Compose, FingerEnd, SendEnd
    <3> QED
      BY <2>5, <3>1, <3>2
         DEF TypeOK, Load, TakeLocal, LoopEnd, Compose, FingerEnd, SendEnd
  <2>6. CASE TakeRemote(r)
    <3>1. /\ Head(todo[r]) \in RemoteArgs(r) /\ Tail(todo[r]) \in Seq(Args(r))
      BY <2>1, <2>6, TailType DEF TakeRemote, RemoteArgs
    <3>2. Append(remote[r], Head(todo[r])) \in Seq(RemoteArgs(r))
      BY <2>1, <3>1
    <3>3. Positions'
      BY <1>3, <2>6, <3>1, <3>2, PositionsStep DEF TakeRemote, TypeOK
    <3> QED
      BY <2>2, <2>6, <3>1, <3>2, <3>3 DEF TypeOK, TakeRemote
  <2>7. CASE PickName(r)
    <3>1. pc' \in [Run -> Step] /\ pc'[r] # "finger"
      BY <2>7 DEF TypeOK, Step, PickName
    <3>2. Positions'
      BY <1>3, <2>1, <2>7, <3>1, PositionsStep DEF PickName
    <3>3. slot' \in [Run -> [Deliveries -> Second \cup {0}]]
      <4>1. slot \in [Run -> [Deliveries -> Second \cup {0}]] /\ UnixTime \in Second \cup {0}
        BY DEF TypeOK, UnixTime
      <4> QED
        BY <2>7, <4>1, UpdateType DEF PickName
    <3> QED
      BY <2>7, <3>1, <3>2, <3>3 DEF TypeOK, PickName
  <2>8. CASE OpenMail(r)
    <3>1. pc' \in [Run -> Step] /\ pc'[r] # "finger"
      BY <2>8 DEF TypeOK, Step, OpenMail
    <3>2. Positions'
      BY <1>3, <2>1, <2>8, <3>1, PositionsStep DEF OpenMail
    <3>3. maildir' \in [User -> [Second -> Seq(Block)]]
      BY <2>8, EmptySeq, RewritesType DEF OpenMail
    <3> QED
      BY <2>8, <3>1, <3>2, <3>3 DEF TypeOK, OpenMail
  \* What WriteMail and DeliverFails do when they return to the caller.
  <2>9. ASSUME Return(r), remote' = remote
        PROVE  /\ Positions' /\ todo' \in [Run -> Seq(Nat)]
               /\ pc' \in [Run -> Step] /\ status' = status
    <3>1. /\ pc' \in [Run -> Step] /\ pc'[r] # "finger"
          /\ status' = status
      BY <2>9 DEF TypeOK, Step, Return
    <3>2. todo[r] # <<>> => Tail(todo[r]) \in Seq(Args(r))
      BY <2>1, TailType
    <3>3. todo' \in [Run -> Seq(Nat)] /\ todo'[r] \in Seq(Args(r))
      BY <2>1, <2>2, <2>9, <3>2 DEF TypeOK, Return
    <3> QED
      BY <1>3, <2>1, <2>9, <3>1, <3>3, PositionsStep
  <2>10. ASSUME NEW v \in Outcome, NEW i
         PROVE  [outcome EXCEPT ![r][i] = v] \in [Run -> [Deliveries -> Outcome]]
    <3>1. outcome \in [Run -> [Deliveries -> Outcome]]
      BY DEF TypeOK
    <3> QED
      BY <3>1, UpdateType
  <2>11. "delivered" \in Outcome /\ "failed" \in Outcome
    BY DEF Outcome
  <2>12. CASE WriteMail(r)
    <3>1. Contents(r, Current(r)) \in Seq(Block)
      BY ContentsType
    <3>2. maildir' \in [User -> [Second -> Seq(Block)]]
      BY <2>12, <3>1, RewritesType DEF WriteMail
    <3>3. outcome' \in [Run -> [Deliveries -> Outcome]]
      BY <2>10, <2>11, <2>12 DEF WriteMail
    <3> QED
      BY <2>9, <2>12, <3>2, <3>3 DEF TypeOK, WriteMail
  <2>13. CASE DeliverFails(r)
    <3>1. ASSUME NEW k \in 0..Len(Contents(r, Current(r)))
          PROVE  SubSeq(Contents(r, Current(r)), 1, k) \in Seq(Block)
      BY ContentsType, PrefixType
    <3>2. maildir' \in [User -> [Second -> Seq(Block)]]
      BY <2>13, <3>1, RewritesType DEF DeliverFails, TypeOK
    <3>3. outcome' \in [Run -> [Deliveries -> Outcome]]
      BY <2>10, <2>11, <2>13 DEF DeliverFails
    <3>4. gotErr' \in [Run -> BOOLEAN]
      BY <2>13 DEF TypeOK, DeliverFails, NotesError
    <3> QED
      BY <2>9, <2>13, <3>2, <3>3, <3>4 DEF TypeOK, DeliverFails
  <2>14. /\ part[r] \in Form \cup Part
         /\ job[r].msg \in Msg
         /\ Size[job[r].msg] \in Nat
    BY JobType, MsgAssumption DEF TypeOK
  <2>15. CASE CreateFile(r)
    <3>1. pc' \in [Run -> Step] /\ pc'[r] # "finger"
      BY <2>15 DEF TypeOK, Step, CreateFile
    <3>2. Positions'
      BY <1>3, <2>1, <2>15, <3>1, PositionsStep DEF CreateFile
    <3>3. outbox' \in [User -> [Name -> [Part -> Seq(Block)]]]
      BY <2>15, EmptySeq, PublishesType DEF CreateFile
    <3> QED
      BY <2>15, <3>1, <3>2, <3>3 DEF TypeOK, CreateFile
  <2>16. CASE Encode(r)
    <3>1. outbox' \in [User -> [Name -> [Part -> Seq(Block)]]]
      BY <2>14, <2>16, BytesType, PublishesType DEF Encode
    <3>2. /\ pc' \in [Run -> Step] /\ part' \in [Run -> Part]
          /\ status' = status
      BY <2>16 DEF TypeOK, Step, Part, Encode
    <3>3. /\ todo' \in [Run -> Seq(Nat)] /\ todo'[r] \in Seq(Args(r))
          /\ pc'[r] = "finger" => todo'[r] \in Seq(RemoteArgs(r))
      BY <2>1, <2>2, <2>16 DEF TypeOK, Encode
    <3>4. Positions'
      BY <1>3, <2>1, <2>16, <3>3, PositionsStep DEF Encode
    <3> QED
      BY <2>16, <3>1, <3>2, <3>3, <3>4 DEF TypeOK, Encode
  <2>17. CASE EncodeFails(r)
    <3>1. ASSUME NEW k \in 0..Size[job[r].msg] - 1
          PROVE  SubSeq(Bytes(job[r].msg, part[r]), 1, k) \in Seq(Block)
      BY <2>14, BytesType, PrefixType
    <3>2. outbox' \in [User -> [Name -> [Part -> Seq(Block)]]]
      BY <2>17, <3>1, PublishesType DEF EncodeFails
    <3>3. Positions'
      BY <1>3, <2>1, <2>17, PositionsStep DEF EncodeFails
    <3> QED
      BY <2>17, <3>2, <3>3 DEF TypeOK, EncodeFails, Status, Ended
  <2>18. CASE Finger(r) \/ FingerFails(r)
    <3>1. /\ Head(todo[r]) \in RemoteArgs(r)
          /\ Tail(todo[r]) \in Seq(RemoteArgs(r))
          /\ Tail(todo[r]) \in Seq(Args(r))
      BY <2>1, <2>18, TailType DEF Finger, FingerFails
    <3>2. /\ todo' \in [Run -> Seq(Nat)]
          /\ Positions'
      BY <1>3, <2>1, <2>2, <2>18, <3>1, PositionsStep DEF TypeOK, Finger, FingerFails
    <3>3. CASE Finger(r)
      <4>1. BoxOf(r, Head(todo[r])) \in Inbox \cup {NoInbox}
        BY <3>1, BoxType DEF BoxOf, RemoteArgs
      <4>2. AddBox(boxes[r], BoxOf(r, Head(todo[r]))) \in Seq(Inbox \cup {NoInbox})
        BY <4>1, AddBoxType DEF TypeOK
      <4> QED
        BY <3>2, <3>3, <4>2 DEF TypeOK, Finger
    <3>4. CASE FingerFails(r)
      <4>1. outcome' \in [Run -> [Deliveries -> Outcome]]
        BY <2>10, <2>11, <3>4 DEF FingerFails
      <4> QED
        BY <3>2, <3>4, <4>1 DEF TypeOK, FingerFails, NotesError
    <3> QED
      BY <2>18, <3>3, <3>4
  <2>19. CASE Send(r) \/ SendFails(r)
    <3>1. Positions'
      BY <1>3, <2>1, <2>19, PositionsStep DEF Send, SendFails
    <3>2. boxes' \in [Run -> Seq(Inbox \cup {NoInbox})]
      <4>1. boxes[r] \in Seq(Inbox \cup {NoInbox}) /\ boxes[r] # <<>>
        BY <2>19 DEF TypeOK, Send, SendFails
      <4>2. Tail(boxes[r]) \in Seq(Inbox \cup {NoInbox})
        BY <4>1, TailType
      <4> QED
        BY <2>19, <4>2 DEF TypeOK, Send, SendFails
    <3>3. ASSUME NEW b, NEW v \in Outcome, Settles(r, b, v)
          PROVE  outcome' \in [Run -> [Deliveries -> Outcome]]
      BY <3>3 DEF TypeOK, Settles
    <3>4. outcome' \in [Run -> [Deliveries -> Outcome]]
      BY <2>11, <2>19, <3>3 DEF Send, SendFails
    <3>5. sent' \in [Run -> [Inbox -> Nat]]
      <4> DEFINE b == Head(boxes[r])
                 more == [sent EXCEPT ![r][b] = sent[r][b] + 1]
      <4>1. sent \in [Run -> [Inbox -> Nat]]
        BY DEF TypeOK
      <4>2. b \in Inbox => sent[r][b] + 1 \in Nat
        BY <4>1
      <4>3. more \in [Run -> [Inbox -> Nat]]
        BY <4>1, <4>2, UpdateType
      <4>4. sent' = sent \/ sent' = more
        BY <2>19 DEF Send, SendFails
      <4> QED
        BY <4>1, <4>3, <4>4
    <3> QED
      BY <2>19, <3>1, <3>2, <3>4, <3>5 DEF TypeOK, Send, SendFails, NotesError
  <2> QED
    BY <1>3, <2>4, <2>5, <2>6, <2>7, <2>8, <2>12, <2>13, <2>15, <2>16, <2>17,
       <2>18, <2>19
       DEF RunStep, Main, Deliver, Publish, Post
<1> QED
  BY <1>1, <1>2, <1>3 DEF Next, RunStep

\* In every state of every execution the variables have their types.
THEOREM TypeCorrect == Spec => []TypeOK
BY TypeInit, TypeStep, PTL DEF Spec

(***************************************************************************)
(* Elements of the sequences the loops run over                            *)
(***************************************************************************)
LEMMA ElemsTail ==
  ASSUME NEW S, NEW s \in Seq(S), s # <<>>
  PROVE  /\ Head(s) \in Elems(s)
         /\ Elems(s) = {Head(s)} \cup Elems(Tail(s))
         /\ Distinct(s) => Distinct(Tail(s)) /\ Head(s) \notin Elems(Tail(s))
<1>1. /\ Len(s) \in Nat /\ Len(s) >= 1
      /\ DOMAIN s = 1..Len(s) /\ DOMAIN Tail(s) = 1..Len(s) - 1
      /\ Head(s) = s[1]
      /\ \A k \in 1..Len(s) - 1 : Tail(s)[k] = s[k + 1]
  BY HeadTailProperties, EmptySeq, LenProperties
<1>2. \A k \in 1..Len(s) : k = 1 \/ (k - 1 \in 1..Len(s) - 1 /\ s[k] = Tail(s)[k - 1])
  BY <1>1
<1>3. \A k \in 1..Len(s) - 1 : k + 1 \in 1..Len(s) /\ k + 1 # 1
  BY <1>1
<1>4. Elems(s) = {Head(s)} \cup Elems(Tail(s))
  <2>1. 1 \in 1..Len(s)
    BY <1>1
  <2>2. Elems(s) \subseteq {Head(s)} \cup Elems(Tail(s))
    BY <1>1, <1>2 DEF Elems
  <2>3. {Head(s)} \cup Elems(Tail(s)) \subseteq Elems(s)
    BY <1>1, <1>3, <2>1 DEF Elems
  <2> QED
    BY <2>2, <2>3
<1>5. Distinct(s) => Distinct(Tail(s)) /\ Head(s) \notin Elems(Tail(s))
  BY <1>1, <1>3 DEF Distinct, Elems
<1> QED
  BY <1>4, <1>5

LEMMA ElemsAppend ==
  ASSUME NEW S, NEW s \in Seq(S), NEW e \in S
  PROVE  /\ Elems(Append(s, e)) = Elems(s) \cup {e}
         /\ Distinct(s) /\ e \notin Elems(s) => Distinct(Append(s, e))
<1>1. /\ Len(s) \in Nat
      /\ DOMAIN s = 1..Len(s) /\ DOMAIN Append(s, e) = 1..Len(s) + 1
      /\ Append(s, e)[Len(s) + 1] = e
      /\ \A k \in 1..Len(s) : Append(s, e)[k] = s[k]
  BY AppendProperties, LenProperties
<1>2. \A k \in 1..Len(s) + 1 : k \in 1..Len(s) \/ k = Len(s) + 1
  BY <1>1
<1>3. 1..Len(s) \subseteq 1..Len(s) + 1 /\ Len(s) + 1 \in 1..Len(s) + 1
  BY <1>1
<1> QED
  BY <1>1, <1>2, <1>3 DEF Elems, Distinct

LEMMA ElemsEmpty ==
  /\ Elems(<<>>) = {}
  /\ \A S : \A s \in Seq(S) : Elems(s) = {} => s = <<>>
<1>1. Elems(<<>>) = {}
  BY DEF Elems
<1>2. ASSUME NEW S, NEW s \in Seq(S), s # <<>>
      PROVE  Elems(s) # {}
  BY <1>2, ElemsTail
<1> QED
  BY <1>1, <1>2

\* Adding an inbox as Inboxes does: it is there, and nothing is twice.
LEMMA ElemsAddBox ==
  ASSUME NEW S, NEW s \in Seq(S), NEW e \in S
  PROVE  /\ Elems(AddBox(s, e)) = Elems(s) \cup {e}
         /\ Distinct(s) => Distinct(AddBox(s, e))
BY ElemsAppend DEF AddBox

(***************************************************************************)
(* The books of a run are kept by the steps of all runs                    *)
(***************************************************************************)
LEMMA BooksInit == Init => BooksKept
<1> SUFFICES ASSUME Init, NEW r \in Run PROVE RunInv(r)
  BY DEF BooksKept
<1>1. TypeOK
  BY TypeInit
<1>2. /\ pc[r] = "load" /\ status[r] = "idle" /\ boxes[r] = <<>>
      /\ \A i \in Deliveries : outcome[r][i] = "open"
      /\ \A b \in Inbox : sent[r][b] = 0
      /\ todo[r] = [i \in Args(r) |-> i]
  BY DEF Init
<1>3. Elems(todo[r]) = Args(r)
  BY <1>2 DEF Elems
<1>4. /\ RemoteArgs(r) \subseteq Deliveries
      /\ Args(r) \subseteq Deliveries
  BY <1>1, JobType
<1>5. Elems(boxes[r]) = {} /\ Distinct(boxes[r])
  BY <1>2, ElemsEmpty DEF Distinct
<1> QED
  BY <1>2, <1>3, <1>4, <1>5
     DEF RunInv, Accounted, LoopsApart, NothingYet, Noted, CopyTried, SentOnce,
         Truthful, Sorting, Delivering

\* What a run is asked for never changes.
LEMMA SameOwed ==
  ASSUME job' = job, NEW r
  PROVE  Owed(r)' = Owed(r)
BY SameJob DEF Owed, Delivery

\* What the books of q say is about variables of q only.
LEMMA BooksOfOthers ==
  ASSUME NEW q, RunInv(q), job' = job, Same(q)
  PROVE  RunInv(q)'
<1>1. /\ Args(q)' = Args(q) /\ RemoteArgs(q)' = RemoteArgs(q)
      /\ Owed(q)' = Owed(q)
      /\ \A i : BoxOf(q, i)' = BoxOf(q, i)
  BY SameJob, SameOwed
<1>2. /\ Sorting(q)' = Sorting(q) /\ Publishing(q)' = Publishing(q)
      /\ Delivering(q)' = Delivering(q)
  BY DEF Same, Sorting, Publishing, Delivering
<1> USE <1>1, <1>2 DEF Same, RunInv
<1>3. Accounted(q)'
  BY DEF Accounted
<1>4. LoopsApart(q)'
  BY DEF LoopsApart
<1>5. NothingYet(q)'
  BY DEF NothingYet
<1>6. Noted(q)' /\ CopyTried(q)' /\ Truthful(q)'
  BY DEF Noted, CopyTried, Truthful
<1>7. SentOnce(q)'
  BY DEF SentOnce, Distinct
<1> QED
  BY <1>3, <1>4, <1>5, <1>6, <1>7

\* Starting, dying and moving on within a phase of main().
LEMMA BooksControl ==
  ASSUME TypeOK, NEW r \in Run, RunInv(r),
         \/ Exec(r) \/ Kill(r) \/ Fatal(r) \/ Load(r) \/ Compose(r)
         \/ TakeLocal(r) \/ PickName(r) \/ OpenMail(r) \/ CreateFile(r)
  PROVE  RunInv(r)'
<1>1. /\ todo'[r] = todo[r] /\ remote'[r] = remote[r] /\ boxes'[r] = boxes[r]
      /\ gotErr'[r] = gotErr[r] /\ outcome'[r] = outcome[r] /\ sent'[r] = sent[r]
      /\ job' = job
      /\ status'[r] # "ok"
  BY DEF Exec, Kill, Fatal, Load, Compose, TakeLocal, PickName, OpenMail,
         CreateFile, At, Goto, Ends, world, local, TypeOK
<1>2. /\ Sorting(r)' = Sorting(r) /\ Publishing(r)' = Publishing(r)
      /\ (pc'[r] \in {"finger", "send", "exit"} \/ pc[r] \in {"finger", "send", "exit"})
            => pc'[r] = pc[r]
  <2>1. CASE Exec(r) \/ Kill(r) \/ Fatal(r)
    BY <1>1, <2>1 DEF Exec, Kill, Fatal, local, Sorting, Publishing, Delivering
  <2>2. CASE Load(r) \/ Compose(r) \/ CreateFile(r)
    BY <1>1, <2>2
       DEF Load, Compose, CreateFile, At, Goto, TypeOK, Sorting, Publishing, Delivering
  <2>3. CASE TakeLocal(r) \/ PickName(r) \/ OpenMail(r)
    BY <1>1, <2>3
       DEF TakeLocal, PickName, OpenMail, At, Goto, TypeOK, Sorting, Publishing,
           Delivering
  <2> QED
    BY <2>1, <2>2, <2>3
<1>3. /\ Args(r)' = Args(r) /\ RemoteArgs(r)' = RemoteArgs(r)
      /\ Owed(r)' = Owed(r)
      /\ \A i : BoxOf(r, i)' = BoxOf(r, i)
  BY <1>1, SameJob, SameOwed
<1> USE <1>1, <1>2, <1>3 DEF RunInv
<1>4. Accounted(r)'
  BY DEF Accounted
<1>5. LoopsApart(r)'
  <2>1. CASE TakeLocal(r)
    <3>1. todo[r] # <<>> /\ job[r].rcpts[Head(todo[r])] \notin Addr
      BY <2>1, RcptAssumption DEF TakeLocal
    <3>2. Head(todo[r]) \notin RemoteArgs(r)
      BY <3>1 DEF RemoteArgs
    <3> QED
      BY <2>1, <3>2 DEF LoopsApart, TakeLocal, Goto, TypeOK
  <2>2. CASE ~TakeLocal(r)
    <3>1. Delivering(r)' => Delivering(r)
      BY <2>2 DEF Delivering, Exec, Kill, Fatal, Load, Compose, PickName, OpenMail,
         CreateFile, At, Goto, TypeOK, local
    <3> QED
      BY <3>1 DEF LoopsApart
  <2> QED
    BY <2>1, <2>2
<1>6. NothingYet(r)'
  BY DEF NothingYet
<1>7. Noted(r)' /\ CopyTried(r)' /\ Truthful(r)'
  BY DEF Noted, CopyTried, Truthful
<1>8. SentOnce(r)'
  BY DEF SentOnce, Distinct
<1> QED
  BY <1>4, <1>5, <1>6, <1>7, <1>8

\* Sorting an argument into remote, and the end of that loop.
LEMMA BooksLoop ==
  ASSUME TypeOK, NEW r \in Run, RunInv(r), TakeRemote(r) \/ LoopEnd(r)
  PROVE  RunInv(r)'
<1>1. /\ boxes'[r] = boxes[r] /\ gotErr'[r] = gotErr[r]
      /\ outcome'[r] = outcome[r] /\ sent'[r] = sent[r]
      /\ job' = job
      /\ status'[r] # "ok"
      /\ Sorting(r)
  BY DEF TakeRemote, LoopEnd, At, Goto, world, local, Sorting
<1>2. /\ Args(r)' = Args(r) /\ RemoteArgs(r)' = RemoteArgs(r)
      /\ Owed(r)' = Owed(r)
      /\ \A i : BoxOf(r, i)' = BoxOf(r, i)
  BY <1>1, SameJob, SameOwed
<1>3. /\ todo[r] \in Seq(Nat) /\ remote[r] \in Seq(Nat)
  BY DEF TypeOK
<1> USE <1>1, <1>2 DEF RunInv
<1>4. CASE TakeRemote(r)
  <2>1. /\ todo[r] # <<>>
        /\ todo'[r] = Tail(todo[r]) /\ remote'[r] = Append(remote[r], Head(todo[r]))
        /\ pc'[r] = "loop"
    BY <1>4 DEF TakeRemote, At, TypeOK
  <2>2. Head(todo[r]) \in Nat
    BY <1>3, <2>1, TailType
  <2>3. Elems(todo[r]) \cup Elems(remote[r]) = Elems(todo'[r]) \cup Elems(remote'[r])
    BY <1>3, <2>1, <2>2, ElemsTail, ElemsAppend
  <2>4. Sorting(r)' /\ ~Publishing(r)' /\ ~Delivering(r)'
    BY <2>1 DEF Sorting, Publishing, Delivering
  <2>5. Accounted(r)'
    <3>1. \A i \in Args(r) : outcome[r][i] = "open" =>
            i \in Elems(todo[r]) \cup Elems(remote[r])
      BY <1>4 DEF Accounted, TakeRemote, At, Publishing
    <3> QED
      BY <2>3, <2>4, <3>1 DEF Accounted
  <2> QED
    BY <2>1, <2>4, <2>5
       DEF LoopsApart, NothingYet, Noted, CopyTried, Truthful, SentOnce, Distinct
<1>5. CASE LoopEnd(r)
  <2>1. /\ todo[r] = <<>> /\ todo'[r] = <<>> /\ remote'[r] = remote[r]
        /\ pc[r] = "loop"
        /\ pc'[r] = IF remote[r] = <<>> THEN "exit" ELSE "compose"
    BY <1>5 DEF LoopEnd, Goto, At, TypeOK, local
  <2>2. \A i \in Args(r) : outcome[r][i] = "open" => i \in Elems(remote[r])
    BY <2>1, ElemsEmpty DEF Accounted, Publishing
  <2>3. ~Sorting(r)' /\ ~Delivering(r)'
    BY <2>1 DEF Sorting, Delivering
  <2>4. Accounted(r)'
    BY <2>1, <2>2, ElemsEmpty DEF Accounted, Publishing
  \* Nothing remote is settled yet, and nothing is left open.
  <2>5. CopyTried(r)'
    <3>1. SUFFICES ASSUME remote[r] = <<>>, 0 \in Owed(r)
                   PROVE  FALSE
      BY <2>1 DEF CopyTried
    <3>2. PICK i \in RemoteArgs(r) : TRUE
      BY <3>1 DEF Owed
    <3>3. i \in Args(r) /\ outcome[r][i] = "open"
      BY <3>2 DEF NothingYet, RemoteArgs
    <3> QED
      BY <2>2, <3>1, <3>3, ElemsEmpty
  <2> QED
    BY <2>1, <2>3, <2>4, <2>5
       DEF LoopsApart, NothingYet, Noted, Truthful, SentOnce, Distinct
<1> QED
  BY <1>4, <1>5

\* A delivery to a Maildir, made or failed.
LEMMA BooksDeliver ==
  ASSUME TypeOK, NEW r \in Run, RunInv(r), WriteMail(r) \/ DeliverFails(r)
  PROVE  RunInv(r)'
<1> DEFINE c == Current(r)
<1>1. /\ remote'[r] = remote[r] /\ boxes'[r] = boxes[r] /\ sent'[r] = sent[r]
      /\ job' = job
      /\ status'[r] # "ok"
      /\ Delivering(r)
      /\ Return(r)
      /\ gotErr[r] => gotErr'[r]
  BY DEF WriteMail, DeliverFails, Return, At, Goto, NotesError, Delivering, TypeOK
<1>2. /\ Args(r)' = Args(r) /\ RemoteArgs(r)' = RemoteArgs(r)
      /\ Owed(r)' = Owed(r)
      /\ \A i : BoxOf(r, i)' = BoxOf(r, i)
  BY <1>1, SameJob, SameOwed
<1>3. todo[r] \in Seq(Args(r)) /\ RemoteArgs(r) \subseteq Args(r)
      /\ Args(r) \subseteq Deliveries /\ 0 \in Deliveries /\ 0 \notin Args(r)
  BY JobType DEF TypeOK, Positions
<1>4. /\ c \in Deliveries /\ c \notin RemoteArgs(r)
      /\ todo[r] # <<>> => c = Head(todo[r])
      /\ todo[r] = <<>> => c = 0
  <2>1. todo[r] # <<>> => Head(todo[r]) \in Args(r) /\ Head(todo[r]) \notin RemoteArgs(r)
    BY <1>1, <1>3, TailType DEF RunInv, LoopsApart
  <2> QED
    BY <1>3, <2>1 DEF Current
<1>5. \E v \in {"delivered", "failed"} :
        /\ outcome'[r] = [outcome[r] EXCEPT ![c] = v]
        /\ v = "failed" => gotErr'[r]
  <2>1. CASE WriteMail(r)
    BY <2>1 DEF WriteMail, TypeOK
  <2>2. CASE DeliverFails(r)
    BY <2>2 DEF DeliverFails, NotesError, TypeOK
  <2> QED
    BY <2>1, <2>2
<1>6. /\ outcome[r] \in [Deliveries -> Outcome]
      /\ outcome'[r][c] \in {"delivered", "failed"}
      /\ outcome'[r][c] = "failed" => gotErr'[r]
      /\ \A i \in Deliveries : i # c => outcome'[r][i] = outcome[r][i]
  <2>1. outcome[r] \in [Deliveries -> Outcome]
    BY DEF TypeOK
  <2> HIDE DEF c
  <2> QED
    BY <1>4, <1>5, <2>1
<1> HIDE DEF c
<1> USE <1>1, <1>2 DEF RunInv
\* Nothing remote is touched.
<1>7. /\ Noted(r)'
      /\ Truthful(r)'
      /\ SentOnce(r)'
  <2>1. \A i \in RemoteArgs(r) : outcome'[r][i] = outcome[r][i]
    BY <1>3, <1>4, <1>6
  <2>2. SentOnce(r)'
    <3>1. (Sorting(r)' \/ Publishing(r)' \/ pc'[r] = "finger") => Sorting(r)
      BY DEF Return, Goto, TypeOK, Sorting, Publishing, Delivering
    <3> QED
      BY <2>1, <3>1 DEF SentOnce, Distinct
  <2> QED
    BY <1>6, <2>2 DEF Noted, Truthful
<1>8. CASE todo[r] # <<>>
  <2>1. /\ todo'[r] = Tail(todo[r]) /\ pc'[r] = "loop"
        /\ Sorting(r) /\ Sorting(r)' /\ ~Publishing(r) /\ ~Publishing(r)'
        /\ ~Delivering(r)'
    BY <1>8 DEF Return, Goto, TypeOK, Sorting, Publishing, Delivering
  <2>2. Elems(todo[r]) = {c} \cup Elems(todo'[r])
    BY <1>3, <1>4, <1>8, <2>1, ElemsTail
  <2>3. Accounted(r)'
    <3>1. \A i \in Args(r) : outcome[r][i] = "open" =>
            i \in Elems(todo[r]) \cup Elems(remote[r])
      BY <2>1 DEF Accounted, Delivering
    <3> QED
      BY <1>3, <1>6, <2>1, <2>2, <3>1 DEF Accounted
  <2>4. NothingYet(r)'
    BY <1>3, <1>4, <1>6, <2>1 DEF NothingYet
  <2> QED
    BY <1>7, <2>1, <2>3, <2>4 DEF LoopsApart, CopyTried
<1>9. CASE todo[r] = <<>>
  <2>1. /\ todo'[r] = <<>> /\ pc'[r] = "exit"
        /\ ~Sorting(r) /\ ~Sorting(r)' /\ ~Publishing(r) /\ ~Publishing(r)'
        /\ ~Delivering(r)'
    BY <1>9 DEF Return, Goto, TypeOK, Sorting, Publishing, Delivering
  <2>2. Accounted(r)'
    <3>1. \A i \in Args(r) : outcome[r][i] # "open"
      BY <2>1 DEF Accounted, Delivering
    <3> QED
      BY <1>3, <1>4, <1>6, <1>9, <3>1 DEF Accounted
  <2>3. CopyTried(r)'
    BY <1>4, <1>6, <1>9 DEF CopyTried
  <2> QED
    BY <1>7, <2>1, <2>2, <2>3 DEF LoopsApart, NothingYet
<1> QED
  BY <1>8, <1>9

\* Publishing, which ends in the loop over the remote recipients.
LEMMA BooksEncode ==
  ASSUME TypeOK, NEW r \in Run, RunInv(r), Encode(r) \/ EncodeFails(r)
  PROVE  RunInv(r)'
<1>1. /\ remote'[r] = remote[r] /\ boxes'[r] = boxes[r] /\ gotErr'[r] = gotErr[r]
      /\ outcome'[r] = outcome[r] /\ sent'[r] = sent[r]
      /\ job' = job
      /\ status'[r] # "ok"
      /\ pc[r] = "encode"
  BY DEF Encode, EncodeFails, At, Goto, Ends, local, TypeOK
<1>2. /\ Args(r)' = Args(r) /\ RemoteArgs(r)' = RemoteArgs(r)
      /\ Owed(r)' = Owed(r)
      /\ \A i : BoxOf(r, i)' = BoxOf(r, i)
  BY <1>1, SameJob, SameOwed
<1>3. \/ pc'[r] \in {"create", "encode"} /\ todo'[r] = todo[r]
      \/ pc'[r] = "finger" /\ todo'[r] = remote[r]
  BY DEF Encode, EncodeFails, At, Goto, Ends, local, TypeOK
<1>4. /\ Publishing(r)
      /\ ~Sorting(r)' /\ ~Delivering(r)'
  BY <1>1, <1>3 DEF Publishing, Sorting, Delivering
<1>5. Publishing(r)' \/ pc'[r] = "finger"
  BY <1>3 DEF Publishing
<1> USE <1>1, <1>2, <1>4 DEF RunInv
<1>6. Accounted(r)'
  <2>1. \A i \in Args(r) : outcome[r][i] = "open" => i \in Elems(remote[r])
    BY DEF Accounted, Sorting, Delivering
  <2> QED
    BY <1>3, <1>5, <2>1 DEF Accounted
<1>7. SentOnce(r)'
  BY <1>5 DEF SentOnce, Distinct
<1> QED
  BY <1>3, <1>6, <1>7 DEF LoopsApart, NothingYet, Noted, CopyTried, Truthful

\* Finding an inbox, or not, and the end of that loop.
LEMMA BooksFinger ==
  ASSUME TypeOK, NEW r \in Run, RunInv(r),
         Finger(r) \/ FingerFails(r) \/ FingerEnd(r)
  PROVE  RunInv(r)'
<1> DEFINE c == Head(todo[r])
<1>1. /\ sent'[r] = sent[r]
      /\ job' = job
      /\ status'[r] # "ok"
      /\ pc[r] = "finger"
      /\ pc'[r] \in {"finger", "send"}
  BY DEF Finger, FingerFails, FingerEnd, At, Goto, world, local, TypeOK
<1>2. /\ Args(r)' = Args(r) /\ RemoteArgs(r)' = RemoteArgs(r)
      /\ Owed(r)' = Owed(r)
      /\ \A i : BoxOf(r, i)' = BoxOf(r, i)
  BY <1>1, SameJob, SameOwed
<1>3. /\ ~Sorting(r)' /\ ~Delivering(r)' /\ ~Publishing(r)'
      /\ ~Sorting(r) /\ ~Delivering(r) /\ ~Publishing(r)
  BY <1>1 DEF Publishing, Sorting, Delivering
<1>4. /\ todo[r] \in Seq(RemoteArgs(r))
      /\ boxes[r] \in Seq(Inbox \cup {NoInbox})
      /\ outcome[r] \in [Deliveries -> Outcome]
      /\ RemoteArgs(r) \subseteq Deliveries
  BY <1>1, JobType DEF TypeOK, Positions
<1> USE <1>1, <1>2, <1>3 DEF RunInv
<1>5. \A i \in Args(r) : outcome[r][i] = "open" =>
        \/ i \in Elems(todo[r])
        \/ i \in RemoteArgs(r) /\ BoxOf(r, i) \in Elems(boxes[r])
  BY DEF Accounted
<1>6. \A b \in Inbox : sent[r][b] = 0
  BY DEF SentOnce
<1>7. \A i \in RemoteArgs(r) : outcome[r][i] # "delivered"
  BY <1>6 DEF SentOnce
<1>8. CASE Finger(r) \/ FingerFails(r)
  <2>1. todo[r] # <<>> /\ todo'[r] = Tail(todo[r]) /\ pc'[r] = "finger"
    BY <1>8 DEF Finger, FingerFails, TypeOK
  <2>2. c \in RemoteArgs(r) /\ Elems(todo[r]) = {c} \cup Elems(todo'[r])
    BY <1>4, <2>1, TailType, ElemsTail
  <2>3. CASE Finger(r)
    <3>1. /\ boxes'[r] = AddBox(boxes[r], BoxOf(r, c))
          /\ outcome'[r] = outcome[r] /\ gotErr'[r] = gotErr[r]
      BY <2>3 DEF Finger, TypeOK
    <3>2. BoxOf(r, c) \in Inbox \cup {NoInbox}
      BY <2>2, BoxType DEF BoxOf, RemoteArgs
    <3>3. /\ Elems(boxes'[r]) = Elems(boxes[r]) \cup {BoxOf(r, c)}
          /\ Distinct(boxes[r]) => Distinct(boxes'[r])
      BY <1>4, <3>1, <3>2, ElemsAddBox
    <3>4. Accounted(r)'
      BY <1>5, <2>1, <2>2, <3>1, <3>3 DEF Accounted
    <3>5. SentOnce(r)'
      <4>1. Distinct(boxes[r])'
        BY <3>3 DEF SentOnce, Distinct
      <4> QED
        BY <1>6, <1>7, <3>1, <4>1 DEF SentOnce
    <3> QED
      BY <2>1, <3>1, <3>4, <3>5
         DEF LoopsApart, NothingYet, Noted, CopyTried, Truthful
  <2>4. CASE FingerFails(r)
    <3>1. /\ boxes'[r] = boxes[r] /\ gotErr'[r]
          /\ outcome'[r] = [outcome[r] EXCEPT ![c] = "failed"]
      BY <2>4 DEF FingerFails, NotesError, TypeOK
    <3>2. /\ outcome'[r][c] = "failed"
          /\ \A i \in Deliveries : i # c => outcome'[r][i] = outcome[r][i]
      <4> HIDE DEF c
      <4> QED
        BY <1>4, <2>2, <3>1
    <3>3. Accounted(r)'
      <4>1. Args(r) \subseteq Deliveries
        BY JobType
      <4> QED
        BY <1>5, <2>1, <2>2, <3>1, <3>2, <4>1 DEF Accounted
    <3>4. SentOnce(r)'
      <4>1. \A i \in RemoteArgs(r) : outcome'[r][i] # "delivered"
        BY <1>4, <1>7, <3>2
      <4> QED
        BY <1>6, <3>1, <4>1 DEF SentOnce, Distinct
    <3> QED
      BY <2>1, <3>1, <3>3, <3>4
         DEF LoopsApart, NothingYet, Noted, CopyTried, Truthful
  <2> QED
    BY <1>8, <2>3, <2>4
<1>9. CASE FingerEnd(r)
  <2>1. /\ todo[r] = <<>> /\ todo'[r] = <<>> /\ boxes'[r] = boxes[r]
        /\ outcome'[r] = outcome[r] /\ gotErr'[r] = gotErr[r]
        /\ pc'[r] = "send"
    BY <1>9 DEF FingerEnd, Goto, local, TypeOK
  <2>2. Accounted(r)'
    BY <1>5, <2>1, ElemsEmpty DEF Accounted
  <2>3. SentOnce(r)'
    BY <1>6, <1>7, <2>1 DEF SentOnce, Distinct
  <2> QED
    BY <2>1, <2>2, <2>3 DEF LoopsApart, NothingYet, Noted, CopyTried, Truthful
<1> QED
  BY <1>8, <1>9

\* Posting to an inbox, taken in or not, and the end of that loop.
LEMMA BooksSend ==
  ASSUME TypeOK, NEW r \in Run, RunInv(r),
         Send(r) \/ SendFails(r) \/ SendEnd(r)
  PROVE  RunInv(r)'
<1> DEFINE b == Head(boxes[r])
<1>1. /\ todo'[r] = todo[r] /\ job' = job
      /\ status'[r] # "ok"
      /\ pc[r] = "send"
      /\ gotErr[r] => gotErr'[r]
  BY DEF Send, SendFails, SendEnd, At, Goto, NotesError, local, TypeOK
<1>2. /\ Args(r)' = Args(r) /\ RemoteArgs(r)' = RemoteArgs(r)
      /\ Owed(r)' = Owed(r)
      /\ \A i : BoxOf(r, i)' = BoxOf(r, i)
  BY <1>1, SameJob, SameOwed
<1>3. /\ boxes[r] \in Seq(Inbox \cup {NoInbox})
      /\ sent[r] \in [Inbox -> Nat]
      /\ outcome[r] \in [Deliveries -> Outcome]
      /\ RemoteArgs(r) \subseteq Args(r) /\ Args(r) \subseteq Deliveries
  BY JobType DEF TypeOK
<1> USE <1>1, <1>2 DEF RunInv
<1>4. todo[r] = <<>>
  BY DEF LoopsApart
<1>5. \A i \in Args(r) : outcome[r][i] = "open" =>
        i \in RemoteArgs(r) /\ BoxOf(r, i) \in Elems(boxes[r])
  BY DEF Accounted, Sorting, Delivering, Publishing
<1>6. CASE Send(r) \/ SendFails(r)
  <2>1. boxes[r] # <<>> /\ boxes'[r] = Tail(boxes[r]) /\ pc'[r] = "send"
    BY <1>6 DEF Send, SendFails, TypeOK
  <2>2. /\ ~Sorting(r)' /\ ~Delivering(r)' /\ ~Publishing(r)'
    BY <2>1 DEF Publishing, Sorting, Delivering
  <2>3. /\ b \in Inbox \cup {NoInbox} /\ b \in Elems(boxes[r])
        /\ Elems(boxes[r]) = {b} \cup Elems(boxes'[r])
        /\ Distinct(boxes'[r]) /\ b \notin Elems(boxes'[r])
    BY <1>3, <2>1, TailType, ElemsTail DEF SentOnce
  <2>4. \E v \in {"delivered", "failed"} :
          /\ \A i \in Deliveries :
               outcome'[r][i] = IF i \in Behind(r, b) THEN v ELSE outcome[r][i]
          /\ v = "failed" => gotErr'[r]
          /\ v = "delivered" => b \in Inbox /\ sent'[r] = [sent[r] EXCEPT ![b] = @ + 1]
    <3>1. CASE Send(r)
      BY <2>3, <3>1 DEF Send, Settles, TypeOK
    <3>2. CASE SendFails(r)
      BY <3>2 DEF SendFails, Settles, NotesError, TypeOK
    <3> QED
      BY <1>6, <3>1, <3>2
  <2>5. \A i \in RemoteArgs(r) :
          (BoxOf(r, i) = b /\ outcome[r][i] = "open") <=> i \in Behind(r, b)
    BY DEF Behind
  <2>6. Behind(r, b) \subseteq RemoteArgs(r)
    BY DEF Behind
  <2>7. \/ sent'[r] = sent[r]
        \/ b \in Inbox /\ sent'[r] = [sent[r] EXCEPT ![b] = @ + 1]
    BY <1>6, <2>3 DEF Send, SendFails, TypeOK
  <2> HIDE DEF b
  <2>8. Accounted(r)'
    BY <1>3, <1>5, <2>1, <2>3, <2>4, <2>5 DEF Accounted
  <2>9. Noted(r)'
    BY <2>4 DEF Noted
  <2>10. SentOnce(r)'
    <3>1. \A x \in Inbox : /\ sent'[r][x] <= 1
                           /\ x # b => sent'[r][x] = sent[r][x]
      <4>1. b \in Inbox => sent[r][b] = 0
        BY <2>3 DEF SentOnce
      <4>2. \A x \in Inbox : sent[r][x] \in Nat /\ sent[r][x] <= 1
        BY <1>3 DEF SentOnce
      <4> QED
        BY <1>3, <2>7, <4>1, <4>2
    <3>2. \A x \in Inbox : x \in Elems(boxes'[r]) => sent'[r][x] = 0
      BY <2>3, <3>1 DEF SentOnce
    <3>3. ASSUME NEW i \in RemoteArgs(r), outcome'[r][i] = "delivered"
          PROVE  BoxOf(r, i) \in Inbox /\ sent'[r][BoxOf(r, i)] = 1
      <4>1. CASE i \in Behind(r, b)
        <5>1. b \in Inbox /\ sent[r][b] = 0 /\ BoxOf(r, i) = b
          BY <1>3, <2>3, <2>4, <2>5, <3>3, <4>1 DEF SentOnce
        <5>2. sent'[r] = [sent[r] EXCEPT ![b] = @ + 1]
          BY <1>3, <2>4, <3>3, <4>1
        <5> QED
          BY <1>3, <5>1, <5>2
      <4>2. CASE i \notin Behind(r, b)
        <5>1. outcome[r][i] = "delivered"
          BY <1>3, <2>4, <3>3, <4>2
        <5>2. BoxOf(r, i) \in Inbox /\ sent[r][BoxOf(r, i)] = 1
          BY <5>1 DEF SentOnce
        <5>3. BoxOf(r, i) # b
          BY <2>3, <5>2 DEF SentOnce
        <5> QED
          BY <3>1, <5>2, <5>3
      <4> QED
        BY <4>1, <4>2
    <3>4. Distinct(boxes[r])'
      BY <2>3 DEF Distinct
    <3> QED
      BY <2>1, <2>2, <3>1, <3>2, <3>3, <3>4 DEF SentOnce
  <2> QED
    BY <1>4, <2>1, <2>2, <2>8, <2>9, <2>10
       DEF LoopsApart, NothingYet, CopyTried, Truthful
<1>7. CASE SendEnd(r)
  <2>1. /\ boxes[r] = <<>> /\ boxes'[r] = <<>>
        /\ outcome'[r] = outcome[r] /\ gotErr'[r] = gotErr[r] /\ sent'[r] = sent[r]
        /\ pc'[r] = IF job[r].file THEN "name" ELSE "exit"
    BY <1>7 DEF SendEnd, Goto, world, local, TypeOK
  <2>2. /\ ~Sorting(r)' /\ ~Publishing(r)'
        /\ pc'[r] # "finger"
    BY <1>4, <2>1 DEF Publishing, Sorting, Delivering
  <2>3. \A i \in Args(r) : outcome[r][i] # "open"
    BY <1>5, <2>1, ElemsEmpty
  <2>4. Accounted(r)'
    BY <2>1, <2>3 DEF Accounted
  <2>5. CopyTried(r)'
    BY <2>1 DEF CopyTried, Owed
  <2>6. SentOnce(r)'
    BY <2>1, <2>2 DEF SentOnce, Distinct
  <2> QED
    BY <1>4, <2>1, <2>2, <2>4, <2>5, <2>6
       DEF LoopsApart, NothingYet, Noted, Truthful
<1> QED
  BY <1>6, <1>7

\* At the end nothing is open, and a failure would have been noted.
LEMMA BooksExit ==
  ASSUME TypeOK, NEW r \in Run, RunInv(r), Exit(r)
  PROVE  RunInv(r)'
<1>1. /\ todo'[r] = todo[r] /\ remote'[r] = remote[r] /\ boxes'[r] = boxes[r]
      /\ gotErr'[r] = gotErr[r] /\ outcome'[r] = outcome[r] /\ sent'[r] = sent[r]
      /\ job' = job /\ pc'[r] = pc[r] /\ pc[r] = "exit"
      /\ status'[r] = IF gotErr[r] THEN "failed" ELSE "ok"
  BY DEF Exit, Ends, At, world, local, TypeOK
<1>2. /\ Args(r)' = Args(r) /\ RemoteArgs(r)' = RemoteArgs(r)
      /\ Owed(r)' = Owed(r)
      /\ \A i : BoxOf(r, i)' = BoxOf(r, i)
  BY <1>1, SameJob, SameOwed
<1>3. /\ Sorting(r)' = Sorting(r) /\ Publishing(r)' = Publishing(r)
      /\ Delivering(r)' = Delivering(r)
      /\ ~Sorting(r) /\ ~Publishing(r)
  BY <1>1 DEF Sorting, Publishing, Delivering
<1> USE <1>1, <1>2, <1>3 DEF RunInv
<1>4. Truthful(r)'
  <2>1. SUFFICES ASSUME ~gotErr[r], NEW i \in Owed(r)
                 PROVE  outcome[r][i] = "delivered"
    BY DEF Truthful
  <2>2. i = 0 \/ i \in Args(r)
    BY JobType DEF Owed, Delivery, Args
  <2>3. i \in Deliveries /\ outcome[r][i] \in Outcome
    BY <2>2, JobType DEF TypeOK
  <2>4. outcome[r][i] # "failed"
    BY <2>1, <2>3 DEF Noted
  <2>5. outcome[r][i] # "open"
    BY <2>1, <2>2 DEF Accounted, CopyTried
  <2> QED
    BY <2>3, <2>4, <2>5 DEF Outcome
<1> QED
  BY <1>4 DEF Accounted, LoopsApart, NothingYet, Noted, CopyTried, SentOnce, Distinct

LEMMA BooksStep ==
  ASSUME TypeOK, BooksKept, [Next]_vars
  PROVE  BooksKept'
<1>1. CASE UNCHANGED vars \/ Tick
  BY <1>1, BooksOfOthers DEF BooksKept, Same, Tick, vars, world, local
<1>2. ASSUME NEW r \in Run, RunStep(r)
      PROVE  BooksKept'
  <2>1. RunInv(r)
    BY DEF BooksKept
  <2>2. RunInv(r)'
    BY <1>2, <2>1, BooksControl, BooksLoop, BooksDeliver, BooksEncode,
       BooksFinger, BooksSend, BooksExit
       DEF RunStep, Main, Deliver, Publish, Post
  <2>3. ASSUME NEW q \in Run, q # r PROVE RunInv(q)'
    BY <1>2, <2>3, JobFixed, Locality, BooksOfOthers DEF BooksKept
  <2> QED
    BY <2>2, <2>3 DEF BooksKept
<1> QED
  BY <1>1, <1>2 DEF Next, RunStep

\* In every execution each delivery of each run is settled or waits where the
\* run will take it from.
THEOREM BooksAreKept == Spec => []BooksKept
<1>1. Init => TypeOK /\ BooksKept
  BY TypeInit, BooksInit
<1>2. TypeOK /\ BooksKept /\ [Next]_vars => (TypeOK /\ BooksKept)'
  BY TypeStep, BooksStep
<1> QED
  BY <1>1, <1>2, PTL DEF Spec

\* Exit status 0 means that each delivery was made and each remote recipient's
\* inbox took the activity in exactly once, however many runs there are.
THEOREM OkIsDelivered == Spec => []OkMeansDelivered
<1>1. BooksKept => OkMeansDelivered
  BY DEF BooksKept, RunInv, Truthful, SentOnce, OkMeansDelivered
<1> QED
  BY <1>1, BooksAreKept, PTL

\* No run posts an activity to the same inbox twice.
THEOREM NobodyPostsTwice == Spec => []PostedAtMostOnce
<1>1. BooksKept => PostedAtMostOnce
  BY DEF BooksKept, RunInv, SentOnce, PostedAtMostOnce
<1> QED
  BY <1>1, BooksAreKept, PTL

(***************************************************************************)
(* That Apsend implements Dispatch, as far as safety goes: each step of a  *)
(* run is one that a mailer may take, or none of its caller's business.    *)
(***************************************************************************)

(***************************************************************************)
(* Beyond its books a run keeps to this: what its loops have yet to reach  *)
(* is listed once and still open, so that nothing is settled twice; and it *)
(* files a copy only if it owes one, last of all.                          *)
(***************************************************************************)
Onward(r) == Publishing(r) \/ pc[r] \in {"finger", "send"}

ListedOnce(r) ==
  /\ Distinct(todo[r]) /\ Distinct(remote[r])
  /\ Sorting(r) => Elems(todo[r]) \cap Elems(remote[r]) = {}

StillOpen(r) ==
  (Sorting(r) \/ pc[r] = "finger") =>
    \A i \in Elems(todo[r]) : outcome[r][i] = "open"

CopyLast(r) ==
  /\ outcome[r][0] # "open" => pc[r] = "exit"
  /\ Onward(r) => remote[r] # <<>>
  /\ (Delivering(r) /\ todo[r] = <<>>) => 0 \in Owed(r)

OrderInv(r) == ListedOnce(r) /\ StillOpen(r) /\ CopyLast(r)
OrderKept == \A r \in Run : OrderInv(r)

LEMMA OrderInit == Init => OrderKept
<1> SUFFICES ASSUME Init, NEW r \in Run PROVE OrderInv(r)
  BY DEF OrderKept
<1>1. TypeOK
  BY TypeInit
<1>2. /\ pc[r] = "load" /\ remote[r] = <<>>
      /\ \A i \in Deliveries : outcome[r][i] = "open"
      /\ todo[r] = [i \in Args(r) |-> i]
  BY DEF Init
<1>3. Elems(todo[r]) = Args(r) /\ Distinct(todo[r])
  BY <1>2 DEF Elems, Distinct
<1>4. Elems(remote[r]) = {} /\ Distinct(remote[r])
  BY <1>2, ElemsEmpty DEF Distinct
<1>5. Args(r) \subseteq Deliveries /\ 0 \in Deliveries
  BY <1>1, JobType
<1> QED
  BY <1>2, <1>3, <1>4, <1>5
     DEF OrderInv, ListedOnce, StillOpen, CopyLast, Onward, Publishing, Delivering

LEMMA OrderOfOthers ==
  ASSUME NEW q, OrderInv(q), job' = job, Same(q)
  PROVE  OrderInv(q)'
<1>1. /\ Owed(q)' = Owed(q)
      /\ Sorting(q)' = Sorting(q) /\ Publishing(q)' = Publishing(q)
      /\ Delivering(q)' = Delivering(q) /\ Onward(q)' = Onward(q)
  BY SameOwed DEF Same, Sorting, Publishing, Delivering, Onward
<1> QED
  BY <1>1 DEF Same, OrderInv, ListedOnce, StillOpen, CopyLast, Distinct

\* Starting, ending, and moving on within a phase of main().
LEMMA OrderControl ==
  ASSUME TypeOK, NEW r \in Run, OrderInv(r),
         \/ Exec(r) \/ Kill(r) \/ Fatal(r) \/ Exit(r) \/ Load(r) \/ Compose(r)
         \/ TakeLocal(r) \/ PickName(r) \/ OpenMail(r) \/ CreateFile(r)
         \/ EncodeFails(r)
  PROVE  OrderInv(r)'
<1>1. /\ todo'[r] = todo[r] /\ remote'[r] = remote[r] /\ outcome'[r] = outcome[r]
      /\ job' = job
  BY DEF Exec, Kill, Fatal, Exit, Load, Compose, TakeLocal, PickName, OpenMail,
         CreateFile, EncodeFails, world, local
<1>2. /\ Sorting(r)' = Sorting(r) /\ Onward(r)' = Onward(r)
      /\ (Delivering(r)' /\ todo[r] = <<>>) => Delivering(r)
      /\ (pc'[r] \in {"finger", "exit"} \/ pc[r] \in {"finger", "exit"}) => pc'[r] = pc[r]
  <2>1. CASE Exec(r) \/ Kill(r) \/ Fatal(r) \/ Exit(r) \/ EncodeFails(r)
    BY <1>1, <2>1
       DEF Exec, Kill, Fatal, Exit, EncodeFails, local, Sorting, Publishing, Delivering, Onward
  <2>2. CASE Load(r) \/ Compose(r) \/ CreateFile(r)
    BY <1>1, <2>2 DEF Load, Compose, CreateFile, At, Goto, TypeOK, Sorting,
         Publishing, Delivering, Onward
  <2>3. CASE TakeLocal(r) \/ PickName(r) \/ OpenMail(r)
    BY <1>1, <2>3 DEF TakeLocal, PickName, OpenMail, At, Goto, TypeOK, Sorting,
         Publishing, Delivering, Onward
  <2> QED
    BY <2>1, <2>2, <2>3
<1>3. Owed(r)' = Owed(r)
  BY <1>1, SameOwed
<1> QED
  BY <1>1, <1>2, <1>3 DEF OrderInv, ListedOnce, StillOpen, CopyLast, Distinct

LEMMA OrderLoop ==
  ASSUME TypeOK, NEW r \in Run, OrderInv(r), TakeRemote(r) \/ LoopEnd(r)
  PROVE  OrderInv(r)'
<1>1. /\ outcome'[r] = outcome[r] /\ job' = job /\ pc[r] = "loop" /\ Sorting(r)
      /\ todo[r] \in Seq(Nat) /\ remote[r] \in Seq(Nat)
      /\ Owed(r)' = Owed(r)
  BY SameOwed DEF TakeRemote, LoopEnd, At, world, local, Sorting, TypeOK
<1> USE <1>1 DEF OrderInv
<1>2. CASE TakeRemote(r)
  <2> DEFINE c == Head(todo[r])
  <2>1. /\ todo[r] # <<>> /\ pc'[r] = "loop"
        /\ todo'[r] = Tail(todo[r]) /\ remote'[r] = Append(remote[r], c)
    BY <1>2 DEF TakeRemote, At, TypeOK
  <2>2. /\ Elems(todo[r]) = {c} \cup Elems(todo'[r])
        /\ c \notin Elems(todo'[r]) /\ Distinct(todo'[r]) /\ c \in Nat
    BY <2>1, ElemsTail, TailType DEF ListedOnce
  <2>3. /\ c \notin Elems(remote[r])
        /\ Elems(remote'[r]) = Elems(remote[r]) \cup {c} /\ Distinct(remote'[r])
    BY <2>1, <2>2, ElemsAppend DEF ListedOnce
  <2>4. Elems(todo'[r]) \cap Elems(remote'[r]) = {}
    BY <2>2, <2>3 DEF ListedOnce
  <2>5. /\ \A i \in Elems(todo'[r]) : outcome[r][i] = "open"
        /\ outcome[r][0] = "open"
    BY <2>2 DEF StillOpen, CopyLast
  <2>6. ~Onward(r)' /\ ~Delivering(r)'
    BY <2>1 DEF Onward, Publishing, Delivering
  <2> QED
    BY <2>2, <2>3, <2>4, <2>5, <2>6 DEF ListedOnce, StillOpen, CopyLast, Distinct
<1>3. CASE LoopEnd(r)
  <2>1. /\ todo[r] = <<>> /\ todo'[r] = todo[r] /\ remote'[r] = remote[r]
        /\ pc'[r] = IF remote[r] = <<>> THEN "exit" ELSE "compose"
    BY <1>3 DEF LoopEnd, Goto, local, TypeOK
  <2>2. ~Sorting(r)' /\ ~Delivering(r)' /\ pc'[r] # "finger"
        /\ (Onward(r)' => remote[r] # <<>>)
    BY <2>1 DEF Sorting, Delivering, Onward, Publishing
  <2>3. outcome[r][0] = "open"
    BY DEF CopyLast
  <2> QED
    BY <2>1, <2>2, <2>3 DEF ListedOnce, StillOpen, CopyLast, Distinct
<1> QED
  BY <1>2, <1>3

LEMMA OrderDeliver ==
  ASSUME TypeOK, NEW r \in Run, OrderInv(r), WriteMail(r) \/ DeliverFails(r)
  PROVE  OrderInv(r)'
<1> DEFINE c == Current(r)
<1>1. /\ remote'[r] = remote[r] /\ job' = job /\ Return(r) /\ Delivering(r)
      /\ \E v \in {"delivered", "failed"} : outcome'[r] = [outcome[r] EXCEPT ![c] = v]
  <2>1. CASE WriteMail(r)
    BY <2>1 DEF WriteMail, TypeOK, At, Delivering
  <2>2. CASE DeliverFails(r)
    BY <2>2 DEF DeliverFails, TypeOK, Delivering
  <2> QED
    BY <2>1, <2>2
<1>2. /\ todo[r] \in Seq(Args(r)) /\ Args(r) \subseteq Deliveries /\ 0 \notin Args(r)
      /\ 0 \in Deliveries
      /\ outcome[r] \in [Deliveries -> Outcome]
      /\ Owed(r)' = Owed(r)
  BY <1>1, JobType, SameOwed DEF TypeOK, Positions
<1> USE <1>1, <1>2 DEF OrderInv
<1>3. CASE todo[r] # <<>>
  <2>1. /\ todo'[r] = Tail(todo[r]) /\ pc'[r] = "loop" /\ Sorting(r) /\ c = Head(todo[r])
    BY <1>3 DEF Return, Goto, TypeOK, Sorting, Delivering, Current
  <2>2. /\ Elems(todo[r]) = {c} \cup Elems(todo'[r])
        /\ c \notin Elems(todo'[r]) /\ Distinct(todo'[r])
        /\ c \in Args(r) /\ Tail(todo[r]) \in Seq(Args(r))
    BY <1>3, <2>1, ElemsTail, TailType DEF ListedOnce
  <2>3. Elems(todo'[r]) \subseteq Deliveries
    BY <2>1, <2>2, ElementOfSeq, LenProperties DEF Elems
  <2>4. \A i \in Deliveries : i # c => outcome'[r][i] = outcome[r][i]
    <3> HIDE DEF c
    <3> QED
      OBVIOUS
  <2>5. /\ \A i \in Elems(todo'[r]) : outcome'[r][i] = "open"
        /\ outcome'[r][0] = "open"
    BY <2>1, <2>2, <2>3, <2>4 DEF StillOpen, CopyLast, Delivering
  <2>6. ~Onward(r)' /\ ~Delivering(r)'
    BY <2>1 DEF Onward, Publishing, Delivering
  <2>7. Elems(todo'[r]) \cap Elems(remote[r]) = {}
    BY <2>1, <2>2 DEF ListedOnce
  <2> QED
    BY <2>2, <2>5, <2>6, <2>7 DEF ListedOnce, StillOpen, CopyLast, Distinct
<1>4. CASE todo[r] = <<>>
  <2>1. pc'[r] = "exit" /\ todo'[r] = todo[r]
    BY <1>4 DEF Return, Goto, TypeOK
  <2>2. ~Sorting(r)' /\ ~Onward(r)' /\ ~Delivering(r)' /\ pc'[r] # "finger"
    BY <2>1 DEF Sorting, Onward, Publishing, Delivering
  <2> QED
    BY <2>1, <2>2 DEF ListedOnce, StillOpen, CopyLast, Distinct
<1> QED
  BY <1>3, <1>4

LEMMA OrderEncode ==
  ASSUME TypeOK, NEW r \in Run, RunInv(r), OrderInv(r), Encode(r)
  PROVE  OrderInv(r)'
<1>1. /\ remote'[r] = remote[r] /\ outcome'[r] = outcome[r] /\ job' = job
      /\ pc[r] = "encode"
      /\ \/ pc'[r] = "create" /\ todo'[r] = todo[r]
         \/ pc'[r] = "finger" /\ todo'[r] = remote[r]
  BY DEF Encode, At, Goto, TypeOK
<1>2. /\ ~Sorting(r)' /\ ~Delivering(r)' /\ Publishing(r) /\ Onward(r)
      /\ Owed(r)' = Owed(r)
  BY <1>1, SameOwed DEF Sorting, Delivering, Publishing, Onward
<1>3. \A i \in Elems(remote[r]) : outcome[r][i] = "open"
  <2>1. Elems(remote[r]) \subseteq RemoteArgs(r)
    BY ElementOfSeq, LenProperties DEF TypeOK, Positions, Elems
  <2> QED
    BY <1>2, <2>1 DEF RunInv, NothingYet
<1>4. outcome[r][0] = "open"
  BY <1>1 DEF OrderInv, CopyLast
<1> QED
  BY <1>1, <1>2, <1>3, <1>4
     DEF OrderInv, ListedOnce, StillOpen, CopyLast, Distinct

LEMMA OrderPost ==
  ASSUME TypeOK, NEW r \in Run, RunInv(r), OrderInv(r), Post(r)
  PROVE  OrderInv(r)'
<1>1. /\ remote'[r] = remote[r] /\ job' = job /\ pc[r] \in {"finger", "send"}
      /\ Owed(r)' = Owed(r)
  BY SameOwed DEF Post, Finger, FingerFails, FingerEnd, Send, SendFails, SendEnd, At,
         local
<1>2. /\ outcome[r] \in [Deliveries -> Outcome]
      /\ RemoteArgs(r) \subseteq Args(r) /\ Args(r) \subseteq Deliveries
      /\ 0 \notin Args(r) /\ 0 \in Deliveries
      /\ remote[r] # <<>> /\ outcome[r][0] = "open"
  BY <1>1, JobType DEF OrderInv, CopyLast, Onward, TypeOK
<1> USE <1>1, <1>2 DEF OrderInv
<1>3. CASE Finger(r) \/ FingerFails(r)
  <2> DEFINE c == Head(todo[r])
  <2>1. /\ pc[r] = "finger" /\ pc'[r] = pc[r] /\ todo[r] # <<>>
        /\ todo'[r] = Tail(todo[r])
        /\ todo[r] \in Seq(RemoteArgs(r))
    BY <1>3 DEF Finger, FingerFails, At, TypeOK, Positions
  <2>2. /\ Elems(todo[r]) = {c} \cup Elems(todo'[r])
        /\ c \notin Elems(todo'[r]) /\ Distinct(todo'[r])
        /\ c \in RemoteArgs(r) /\ Tail(todo[r]) \in Seq(RemoteArgs(r))
    BY <2>1, ElemsTail, TailType DEF ListedOnce
  <2>3. \A i \in Deliveries : i # c => outcome'[r][i] = outcome[r][i]
    <3>1. outcome'[r] = outcome[r] \/ outcome'[r] = [outcome[r] EXCEPT ![c] = "failed"]
      BY <1>3 DEF Finger, FingerFails, TypeOK
    <3> HIDE DEF c
    <3> QED
      BY <3>1
  <2>4. Elems(todo'[r]) \subseteq Deliveries
    BY <2>1, <2>2, ElementOfSeq, LenProperties DEF Elems
  <2>5. /\ \A i \in Elems(todo'[r]) : outcome'[r][i] = "open"
        /\ outcome'[r][0] = "open"
    BY <2>1, <2>2, <2>3, <2>4 DEF StillOpen
  <2>6. ~Sorting(r)' /\ ~Delivering(r)'
    BY <2>1 DEF Sorting, Delivering
  <2> QED
    BY <2>2, <2>5, <2>6 DEF ListedOnce, StillOpen, CopyLast, Distinct
<1>4. CASE FingerEnd(r) \/ Send(r) \/ SendFails(r)
  <2>1. pc'[r] = "send" /\ todo'[r] = todo[r]
    BY <1>4 DEF FingerEnd, Send, SendFails, At, Goto, local, TypeOK
  <2>2. outcome'[r][0] = "open"
    <3>1. 0 \notin Behind(r, Head(boxes[r]))
      BY DEF Behind
    <3> QED
      BY <1>4, <3>1 DEF FingerEnd, Send, SendFails, Settles, local, TypeOK
  <2>3. ~Sorting(r)' /\ ~Delivering(r)'
    BY <2>1 DEF Sorting, Delivering
  <2> QED
    BY <2>1, <2>2, <2>3 DEF ListedOnce, StillOpen, CopyLast, Distinct
<1>5. CASE SendEnd(r)
  <2>1. /\ todo'[r] = todo[r] /\ outcome'[r] = outcome[r] /\ pc[r] = "send"
        /\ pc'[r] = IF job[r].file THEN "name" ELSE "exit"
    BY <1>5 DEF SendEnd, Goto, At, local, TypeOK
  \* Somebody is remote, so the copy is owed if -F says so.
  <2>2. job[r].file => 0 \in Owed(r)
    <3>1. remote[r] \in Seq(RemoteArgs(r))
      BY DEF TypeOK, Positions
    <3>2. Head(remote[r]) \in RemoteArgs(r)
      BY <3>1, TailType
    <3>3. 0 \in Delivery(r)
      BY JobType DEF Delivery
    <3> QED
      BY <3>2, <3>3 DEF Owed
  <2>3. /\ todo[r] = <<>> /\ pc'[r] # "finger" /\ ~Sorting(r)' /\ ~Onward(r)'
        /\ Delivering(r)' => job[r].file
    BY <2>1 DEF RunInv, LoopsApart, Onward, Publishing, Delivering, Sorting
  <2> QED
    BY <2>1, <2>2, <2>3 DEF ListedOnce, StillOpen, CopyLast, Distinct
<1> QED
  BY <1>3, <1>4, <1>5 DEF Post

LEMMA OrderStep ==
  ASSUME TypeOK, BooksKept, OrderKept, [Next]_vars
  PROVE  OrderKept'
<1>1. CASE UNCHANGED vars \/ Tick
  BY <1>1, OrderOfOthers DEF OrderKept, Same, Tick, vars, world, local
<1>2. ASSUME NEW r \in Run, RunStep(r)
      PROVE  OrderKept'
  <2>1. RunInv(r) /\ OrderInv(r)
    BY DEF BooksKept, OrderKept
  <2>2. OrderInv(r)'
    BY <1>2, <2>1, OrderControl, OrderLoop, OrderDeliver, OrderEncode, OrderPost
       DEF RunStep, Main, Deliver, Publish
  <2>3. ASSUME NEW q \in Run, q # r PROVE OrderInv(q)'
    BY <1>2, <2>3, JobFixed, Locality, OrderOfOthers DEF OrderKept
  <2> QED
    BY <2>2, <2>3 DEF OrderKept
<1> QED
  BY <1>1, <1>2 DEF Next, RunStep

(***************************************************************************)
(* The steps of a run, as the caller sees them                             *)
(***************************************************************************)
Owing     == [r \in Run |-> IF status[r] = "idle" THEN {} ELSE Owed(r)]
Reporting == [r \in Run |-> IF status[r] = "killed" THEN "failed" ELSE status[r]]

LEMMA PromiseInit == Init => Promise!Init
<1> SUFFICES ASSUME Init PROVE Promise!Init
  OBVIOUS
<1> QED
  BY DEF Init, Promise!Init

\* A step that neither starts, settles nor reports shows nothing.
LEMMA PromiseStutter ==
  ASSUME job' = job, status' = status, outcome' = outcome
  PROVE  UNCHANGED Promise!vars
<1>1. \A r : Owed(r)' = Owed(r)
  BY SameOwed
<1> QED
  BY <1>1 DEF Promise!vars

\* The caller's Start.
LEMMA PromiseStart ==
  ASSUME TypeOK, NEW r \in Run, Exec(r)
  PROVE  Promise!Start(r, Owed(r)) /\ Owed(r) \in SUBSET Deliveries
<1>1. /\ status[r] = "idle" /\ status' = [status EXCEPT ![r] = "running"]
      /\ job' = job /\ outcome' = outcome
  BY DEF Exec, Ends, local
<1>2. status \in [Run -> Status] /\ \A q : Owed(q)' = Owed(q)
  BY <1>1, SameOwed DEF TypeOK
<1>3. Reporting[r] = "idle" /\ Reporting' = [Reporting EXCEPT ![r] = "running"]
  BY <1>1, <1>2 DEF Reporting
<1>4. Owing' = [Owing EXCEPT ![r] = Owed(r)]
  BY <1>1, <1>2 DEF Owing
<1>5. Owed(r) \subseteq Deliveries
  BY JobType DEF Owed, Delivery, Args
<1> QED
  BY <1>1, <1>3, <1>4, <1>5 DEF Promise!Start, Owing, Reporting

\* Giving up, dying and an exit.
LEMMA PromiseReport ==
  ASSUME TypeOK, NEW r \in Run, NEW how \in Ended,
         status[r] = "running", Ends(r, how), job' = job, outcome' = outcome,
         how = "ok" => \A i \in Owed(r) : outcome[r][i] = "delivered"
  PROVE  Promise!ReportOk(r) \/ Promise!ReportFailed(r)
<1>1. status \in [Run -> Status] /\ \A q : Owed(q)' = Owed(q)
  BY SameOwed DEF TypeOK
<1>2. Owing' = Owing /\ Owing[r] = Owed(r)
  BY <1>1 DEF Owing, Ends, Ended
<1>3. /\ Reporting[r] = "running"
      /\ Reporting' = [Reporting EXCEPT ![r] = IF how = "ok" THEN "ok" ELSE "failed"]
  BY <1>1 DEF Reporting, Ends, Ended
<1> QED
  BY <1>2, <1>3 DEF Promise!ReportOk, Promise!ReportFailed, Owing, Reporting

\* Settling deliveries that are owed and open, or none.
LEMMA PromiseSettle ==
  ASSUME TypeOK, NEW r \in Run, status[r] = "running",
         NEW S \in SUBSET Owed(r), \A i \in S : outcome[r][i] = "open",
         NEW v \in {"delivered", "failed"},
         outcome' = [outcome EXCEPT ![r] =
                       [i \in Deliveries |-> IF i \in S THEN v ELSE @[i]]],
         job' = job, status' = status
  PROVE  Promise!Settle(r) \/ UNCHANGED Promise!vars
<1>1. outcome \in [Run -> [Deliveries -> Outcome]] /\ \A q : Owed(q)' = Owed(q)
  BY SameOwed DEF TypeOK
<1>2. CASE S = {}
  <2>1. outcome' = outcome
    BY <1>1, <1>2
  <2> QED
    BY <2>1, PromiseStutter
<1>3. CASE S # {}
  <2>1. Owing' = Owing /\ Reporting' = Reporting /\ Owing[r] = Owed(r)
        /\ Reporting[r] = "running"
    BY <1>1 DEF Owing, Reporting
  <2>2. S \in (SUBSET Promise!Open(r)) \ {{}}
    BY <1>3, <2>1 DEF Promise!Open, Owing
  <2>3. v \in Promise!Verdict
    BY DEF Promise!Verdict
  <2> QED
    BY <2>1, <2>2, <2>3 DEF Promise!Settle, Owing, Reporting
<1> QED
  BY <1>2, <1>3

\* One delivery, by its number.
LEMMA PromiseSettleOne ==
  ASSUME TypeOK, NEW r \in Run, status[r] = "running",
         NEW c \in Owed(r), outcome[r][c] = "open",
         NEW v \in {"delivered", "failed"},
         outcome' = [outcome EXCEPT ![r][c] = v],
         job' = job, status' = status
  PROVE  Promise!Settle(r) \/ UNCHANGED Promise!vars
<1>1. outcome \in [Run -> [Deliveries -> Outcome]]
  BY DEF TypeOK
<1>2. [outcome[r] EXCEPT ![c] = v]
        = [i \in Deliveries |-> IF i \in {c} THEN v ELSE outcome[r][i]]
  BY <1>1
<1>3. outcome' = [outcome EXCEPT ![r] =
                    [i \in Deliveries |-> IF i \in {c} THEN v ELSE @[i]]]
  BY <1>1, <1>2
<1>4. {c} \in SUBSET Owed(r) /\ \A i \in {c} : outcome[r][i] = "open"
  OBVIOUS
<1> QED
  BY <1>3, <1>4, PromiseSettle

\* What a Maildir delivery settles is owed and open.
LEMMA CurrentIsOpen ==
  ASSUME TypeOK, NEW r \in Run, OrderInv(r), Delivering(r)
  PROVE  Current(r) \in Owed(r) /\ outcome[r][Current(r)] = "open"
<1>1. CASE todo[r] # <<>>
  <2>1. Head(todo[r]) \in Args(r) /\ Head(todo[r]) \in Elems(todo[r])
    BY <1>1, TailType, ElemsTail DEF TypeOK, Positions
  <2>2. Head(todo[r]) \in Owed(r)
    BY <2>1, JobType DEF Owed, Delivery, Args
  <2> QED
    BY <1>1, <2>1, <2>2 DEF Current, OrderInv, StillOpen, Sorting
<1>2. CASE todo[r] = <<>>
  BY <1>2 DEF Current, OrderInv, CopyLast, Delivering
<1> QED
  BY <1>1, <1>2

LEMMA PromiseStep ==
  ASSUME TypeOK, BooksKept, OrderKept, [Next]_vars
  PROVE  Promise!Next \/ UNCHANGED Promise!vars
<1>1. CASE UNCHANGED vars \/ Tick
  BY <1>1, PromiseStutter DEF Tick, vars, local
<1>2. ASSUME NEW r \in Run, RunStep(r)
      PROVE  Promise!Next \/ UNCHANGED Promise!vars
  <2> DEFINE Shown == \/ Promise!Settle(r) \/ Promise!ReportOk(r) \/ Promise!ReportFailed(r)
                      \/ Promise!Start(r, Owed(r)) /\ Owed(r) \in SUBSET Deliveries
                      \/ UNCHANGED Promise!vars
  <2> SUFFICES Shown
    <3>1. Promise!Start(r, Owed(r)) /\ Owed(r) \in SUBSET Deliveries => Promise!Next
      BY DEF Promise!Next, Promise!Start
    <3>2. Promise!Settle(r) \/ Promise!ReportOk(r) \/ Promise!ReportFailed(r) => Promise!Next
      BY DEF Promise!Next, Promise!Work
    <3> QED
      BY <3>1, <3>2
  <2>1. RunInv(r) /\ OrderInv(r)
    BY DEF BooksKept, OrderKept
  <2>2. RemoteArgs(r) \subseteq Owed(r)
    BY JobType DEF Owed, Delivery, RemoteArgs, Args
  <2>3. CASE Exec(r)
    BY <2>3, PromiseStart
  <2>4. CASE Kill(r) \/ Fatal(r) \/ EncodeFails(r)
    BY <2>4, PromiseReport DEF Kill, Fatal, EncodeFails, At, local, Ended
  <2>5. CASE Exit(r)
    <3>1. /\ status[r] = "running" /\ job' = job /\ outcome' = outcome
          /\ Ends(r, IF gotErr[r] THEN "failed" ELSE "ok")
      BY <2>5 DEF Exit, At, local
    <3>2. ~gotErr[r] => \A i \in Owed(r) : outcome[r][i] = "delivered"
      <4>1. RunInv(r)'
        BY <2>1, <2>5, BooksExit
      <4>2. Owed(r)' = Owed(r)
        BY <3>1, SameOwed
      <4>3. ~gotErr[r] => status'[r] = "ok"
        BY <3>1 DEF Ends, TypeOK
      <4> QED
        BY <3>1, <4>1, <4>2, <4>3 DEF RunInv, Truthful
    <3> QED
      BY <3>1, <3>2, PromiseReport DEF Ended
  <2>6. CASE WriteMail(r) \/ DeliverFails(r)
    <3>1. /\ Delivering(r) /\ status[r] = "running" /\ job' = job /\ status' = status
          /\ \E v \in {"delivered", "failed"} :
               outcome' = [outcome EXCEPT ![r][Current(r)] = v]
      BY <2>6 DEF WriteMail, DeliverFails, Delivering, At, Return, Goto
    <3> QED
      BY <2>1, <3>1, CurrentIsOpen, PromiseSettleOne
  <2>7. CASE FingerFails(r)
    <3>1. /\ pc[r] = "finger" /\ status[r] = "running" /\ job' = job /\ status' = status
          /\ todo[r] # <<>>
          /\ outcome' = [outcome EXCEPT ![r][Head(todo[r])] = "failed"]
      BY <2>7 DEF FingerFails, At
    <3>2. Head(todo[r]) \in RemoteArgs(r) /\ Head(todo[r]) \in Elems(todo[r])
      BY <3>1, TailType, ElemsTail DEF TypeOK, Positions
    <3>3. outcome[r][Head(todo[r])] = "open"
      BY <2>1, <3>1, <3>2 DEF OrderInv, StillOpen
    <3> QED
      BY <2>2, <3>1, <3>2, <3>3, PromiseSettleOne
  <2>8. CASE Send(r) \/ SendFails(r)
    <3> DEFINE S == Behind(r, Head(boxes[r]))
    <3>1. /\ status[r] = "running" /\ job' = job /\ status' = status
          /\ \E v \in {"delivered", "failed"} :
               outcome' = [outcome EXCEPT ![r] =
                             [i \in Deliveries |-> IF i \in S THEN v ELSE @[i]]]
      BY <2>8 DEF Send, SendFails, At, Settles
    <3>2. S \in SUBSET Owed(r) /\ \A i \in S : outcome[r][i] = "open"
      BY <2>2 DEF Behind
    <3> HIDE DEF S
    <3> QED
      BY <3>1, <3>2, PromiseSettle
  <2>9. CASE \/ Load(r) \/ TakeRemote(r) \/ TakeLocal(r) \/ LoopEnd(r)
             \/ PickName(r) \/ OpenMail(r) \/ Compose(r) \/ CreateFile(r)
             \/ Encode(r) \/ Finger(r) \/ FingerEnd(r) \/ SendEnd(r)
    <3>1. job' = job /\ status' = status /\ outcome' = outcome
      BY <2>9 DEF Load, TakeRemote, TakeLocal, LoopEnd, PickName, OpenMail, Compose,
           CreateFile, Encode, Finger, FingerEnd, SendEnd, Goto, local
    <3> QED
      BY <3>1, PromiseStutter
  <2> QED
    BY <1>2, <2>3, <2>4, <2>5, <2>6, <2>7, <2>8, <2>9
       DEF RunStep, Main, Deliver, Publish, Post
<1> QED
  BY <1>1, <1>2 DEF Next, RunStep

\* Whatever runs together, each run of apsend settles a delivery it owes once,
\* reports "ok" only when all are made, and does nothing after its report: the
\* safety part of KeepsPromise.
THEOREM PromiseIsKept == Spec => Promise!SafeSpec
<1>1. Init => TypeOK /\ BooksKept /\ OrderKept
  BY TypeInit, BooksInit, OrderInit
<1>2. TypeOK /\ BooksKept /\ OrderKept /\ [Next]_vars => (TypeOK /\ BooksKept /\ OrderKept)'
  BY TypeStep, BooksStep, OrderStep
<1>3. TypeOK /\ BooksKept /\ OrderKept /\ [Next]_vars => [Promise!Next]_(Promise!vars)
  BY PromiseStep
<1> QED
  BY <1>1, <1>2, <1>3, PromiseInit, PTL DEF Spec, Promise!SafeSpec

(***************************************************************************)
(* A run comes to its end                                                  *)
(***************************************************************************)
LEMMA StageOf ==
  /\ Stage["load"] = 13     /\ Stage["loop"] = 12    /\ Stage["name"] = 11
  /\ Stage["open"] = 10     /\ Stage["write"] = 9    /\ Stage["compose"] = 11
  /\ Stage["create"] = 10   /\ Stage["encode"] = 9   /\ Stage["finger"] = 6
  /\ Stage["send"] = 5      /\ Stage["exit"] = 1
BY DEF Stage

LEMMA AheadIs ==
  ASSUME NEW t \in Nat, NEW m \in Nat, NEW b \in Nat, NEW k \in Part
  PROVE  /\ Ahead("load", t, m, b, k) = 13 + (4 * t + 2 * m)
         /\ Ahead("loop", t, m, b, k) = 12 + (4 * t + 2 * m)
         /\ (t = 0 => Ahead("name", t, m, b, k) = 4)
         /\ (t # 0 => Ahead("name", t, m, b, k) = 11 + (4 * t + 2 * m))
         /\ (t = 0 => Ahead("open", t, m, b, k) = 3)
         /\ (t # 0 => Ahead("open", t, m, b, k) = 10 + (4 * t + 2 * m))
         /\ (t = 0 => Ahead("write", t, m, b, k) = 2)
         /\ (t # 0 => Ahead("write", t, m, b, k) = 9 + (4 * t + 2 * m))
         /\ (k = "note" => Ahead("compose", t, m, b, k) = 11 + 2 * m)
         /\ (k = "create" => Ahead("compose", t, m, b, k) = 9 + 2 * m)
         /\ (k = "note" => Ahead("create", t, m, b, k) = 10 + 2 * m)
         /\ (k = "create" => Ahead("create", t, m, b, k) = 8 + 2 * m)
         /\ (k = "note" => Ahead("encode", t, m, b, k) = 9 + 2 * m)
         /\ (k = "create" => Ahead("encode", t, m, b, k) = 7 + 2 * m)
         /\ Ahead("finger", t, m, b, k) = 6 + (2 * t + b)
         /\ Ahead("send", t, m, b, k) = 5 + b
         /\ Ahead("exit", t, m, b, k) = 1
<1>1. Ahead("load", t, m, b, k) = 13 + (4 * t + 2 * m)
  BY StageOf DEF Ahead
<1>2. Ahead("loop", t, m, b, k) = 12 + (4 * t + 2 * m)
  BY StageOf DEF Ahead
<1>3. (t = 0 => Ahead("name", t, m, b, k) = 4)
         /\ (t # 0 => Ahead("name", t, m, b, k) = 11 + (4 * t + 2 * m))
  BY StageOf DEF Ahead
<1>4. (t = 0 => Ahead("open", t, m, b, k) = 3)
         /\ (t # 0 => Ahead("open", t, m, b, k) = 10 + (4 * t + 2 * m))
  BY StageOf DEF Ahead
<1>5. (t = 0 => Ahead("write", t, m, b, k) = 2)
         /\ (t # 0 => Ahead("write", t, m, b, k) = 9 + (4 * t + 2 * m))
  BY StageOf DEF Ahead
<1>6. (k = "note" => Ahead("compose", t, m, b, k) = 11 + 2 * m)
         /\ (k = "create" => Ahead("compose", t, m, b, k) = 9 + 2 * m)
  BY StageOf DEF Ahead, Part
<1>7. (k = "note" => Ahead("create", t, m, b, k) = 10 + 2 * m)
         /\ (k = "create" => Ahead("create", t, m, b, k) = 8 + 2 * m)
  BY StageOf DEF Ahead, Part
<1>8. (k = "note" => Ahead("encode", t, m, b, k) = 9 + 2 * m)
         /\ (k = "create" => Ahead("encode", t, m, b, k) = 7 + 2 * m)
  BY StageOf DEF Ahead, Part
<1>9. Ahead("finger", t, m, b, k) = 6 + (2 * t + b)
  BY StageOf DEF Ahead
<1>10. Ahead("send", t, m, b, k) = 5 + b
  BY StageOf DEF Ahead
<1>11. Ahead("exit", t, m, b, k) = 1
  BY StageOf DEF Ahead
<1> QED
  BY <1>1, <1>2, <1>3, <1>4, <1>5, <1>6, <1>7, <1>8, <1>9, <1>10, <1>11

\* What is ahead of any step is a positive number.
LEMMA AheadIsNumber ==
  ASSUME NEW step \in Step,
         NEW t \in Nat, NEW m \in Nat, NEW b \in Nat, NEW k \in Part
  PROVE  Ahead(step, t, m, b, k) \in Nat \ {0}
<1> DEFINE a == 4 * t + 2 * m
           d == 2 * m
           f == 2 * t + b
<1>1. a \in Nat /\ d \in Nat /\ f \in Nat
  OBVIOUS
<1>2. Ahead("load", t, m, b, k) = 13 + a /\ Ahead("loop", t, m, b, k) = 12 + a
  BY AheadIs
<1>3. t = 0 => /\ Ahead("name", t, m, b, k) = 4 /\ Ahead("open", t, m, b, k) = 3
               /\ Ahead("write", t, m, b, k) = 2
  BY AheadIs
<1>4. t # 0 => /\ Ahead("name", t, m, b, k) = 11 + a /\ Ahead("open", t, m, b, k) = 10 + a
               /\ Ahead("write", t, m, b, k) = 9 + a
  BY AheadIs
<1>5. k = "note" => /\ Ahead("compose", t, m, b, k) = 11 + d
                    /\ Ahead("create", t, m, b, k) = 10 + d
                    /\ Ahead("encode", t, m, b, k) = 9 + d
  BY AheadIs
<1>6. k = "create" => /\ Ahead("compose", t, m, b, k) = 9 + d
                      /\ Ahead("create", t, m, b, k) = 8 + d
                      /\ Ahead("encode", t, m, b, k) = 7 + d
  BY AheadIs
<1>7. /\ Ahead("finger", t, m, b, k) = 6 + f /\ Ahead("send", t, m, b, k) = 5 + b
      /\ Ahead("exit", t, m, b, k) = 1
  BY AheadIs
<1> HIDE DEF a, d, f
<1> QED
  BY <1>1, <1>2, <1>3, <1>4, <1>5, <1>6, <1>7 DEF Step, Part

\* From step to step there is less ahead: within a phase, and from each to the
\* next.
LEMMA AheadFalls ==
  ASSUME NEW t \in Nat, NEW m \in Nat, NEW b \in Nat, NEW k \in Part
  PROVE  /\ Ahead("loop", t, m, b, k) < Ahead("load", t, m, b, k)
         /\ Ahead("loop", t, m + 1, b, k) < Ahead("loop", t + 1, m, b, k)
         /\ t > 0 => Ahead("name", t, m, b, k) < Ahead("loop", t, m, b, k)
         /\ Ahead("exit", t, m, b, k) < Ahead("loop", t, m, b, k)
         /\ Ahead("compose", t, m, b, k) < Ahead("loop", t, m, b, k)
         /\ Ahead("open", t, m, b, k) < Ahead("name", t, m, b, k)
         /\ Ahead("write", t, m, b, k) < Ahead("open", t, m, b, k)
         /\ \A step \in {"name", "open", "write"} :
              /\ Ahead("loop", t, m, b, k) < Ahead(step, t + 1, m, b, k)
              /\ Ahead("exit", t, m, b, k) < Ahead(step, t, m, b, k)
         /\ Ahead("create", t, m, b, k) < Ahead("compose", t, m, b, k)
         /\ Ahead("encode", t, m, b, k) < Ahead("create", t, m, b, k)
         /\ Ahead("create", t, m, b, "create") < Ahead("encode", t, m, b, "note")
         /\ Ahead("finger", m, m, 0, "create") < Ahead("encode", t, m, 0, "create")
         /\ Ahead("finger", t, m, b, k) < Ahead("finger", t + 1, m, b, k)
         /\ Ahead("finger", t, m, b + 1, k) < Ahead("finger", t + 1, m, b, k)
         /\ Ahead("send", t, m, b, k) < Ahead("finger", t, m, b, k)
         /\ Ahead("send", t, m, b, k) < Ahead("send", t, m, b + 1, k)
         /\ Ahead("name", 0, m, b, k) < Ahead("send", 0, m, b, k)
         /\ Ahead("exit", t, m, b, k) < Ahead("send", t, m, b, k)
<1> DEFINE a == 4 * t + 2 * m
           d == 2 * m
           f == 2 * t + b
<1>1. a \in Nat /\ d \in Nat /\ f \in Nat /\ d <= a /\ b <= f
  OBVIOUS
<1>2. /\ t + 1 \in Nat /\ m + 1 \in Nat /\ b + 1 \in Nat /\ 0 \in Nat /\ t + 1 # 0
      /\ "note" \in Part /\ "create" \in Part
      /\ k = "note" \/ k = "create"
  BY DEF Part
<1>3. /\ 4 * (t + 1) + 2 * m = a + 4 /\ 4 * t + 2 * (m + 1) = a + 2
      /\ 2 * (t + 1) + b = f + 2 /\ 2 * t + (b + 1) = f + 1
  OBVIOUS
<1>4. /\ Ahead("load", t, m, b, k) = 13 + a
      /\ Ahead("loop", t, m, b, k) = 12 + a
      /\ Ahead("loop", t + 1, m, b, k) = 12 + (a + 4)
      /\ Ahead("loop", t, m + 1, b, k) = 12 + (a + 2)
  <2>1. Ahead("loop", t + 1, m, b, k) = 12 + (4 * (t + 1) + 2 * m)
    BY <1>2, AheadIs
  <2>2. Ahead("loop", t, m + 1, b, k) = 12 + (4 * t + 2 * (m + 1))
    BY <1>2, AheadIs
  <2> QED
    BY <1>3, <2>1, <2>2, AheadIs
<1>5. t = 0 => /\ Ahead("name", t, m, b, k) = 4 /\ Ahead("open", t, m, b, k) = 3
               /\ Ahead("write", t, m, b, k) = 2
  BY AheadIs
<1>6. t # 0 => /\ Ahead("name", t, m, b, k) = 11 + a /\ Ahead("open", t, m, b, k) = 10 + a
               /\ Ahead("write", t, m, b, k) = 9 + a
  BY AheadIs
<1>7. Ahead("exit", t, m, b, k) = 1 /\ Ahead("send", t, m, b, k) = 5 + b
  BY AheadIs
<1>8. /\ Ahead("name", t + 1, m, b, k)  = 11 + (a + 4)
      /\ Ahead("open", t + 1, m, b, k)  = 10 + (a + 4)
      /\ Ahead("write", t + 1, m, b, k) = 9 + (a + 4)
  <2>1. /\ Ahead("name", t + 1, m, b, k)  = 11 + (4 * (t + 1) + 2 * m)
        /\ Ahead("open", t + 1, m, b, k)  = 10 + (4 * (t + 1) + 2 * m)
        /\ Ahead("write", t + 1, m, b, k) = 9 + (4 * (t + 1) + 2 * m)
    BY <1>2, AheadIs
  <2> QED
    BY <1>3, <2>1
<1>9. k = "note" => /\ Ahead("compose", t, m, b, k) = 11 + d
                    /\ Ahead("create", t, m, b, k) = 10 + d
                    /\ Ahead("encode", t, m, b, k) = 9 + d
  BY AheadIs
<1>10. k = "create" => /\ Ahead("compose", t, m, b, k) = 9 + d
                       /\ Ahead("create", t, m, b, k) = 8 + d
                       /\ Ahead("encode", t, m, b, k) = 7 + d
  BY AheadIs
<1>11. Ahead("encode", t, m, b, "note") = 9 + d
  BY <1>2, AheadIs
<1>12. Ahead("create", t, m, b, "create") = 8 + d
  BY <1>2, AheadIs
<1>13. Ahead("encode", t, m, 0, "create") = 7 + d
  BY <1>2, AheadIs
<1>14. /\ Ahead("finger", m, m, 0, "create") = 6 + d
       /\ Ahead("finger", t, m, b, k) = 6 + f
       /\ Ahead("finger", t, m, b + 1, k) = 6 + (f + 1)
       /\ Ahead("finger", t + 1, m, b, k) = 6 + (f + 2)
  <2>1. Ahead("finger", m, m, 0, "create") = 6 + (2 * m + 0)
    BY <1>2, AheadIs
  <2>2. Ahead("finger", t, m, b + 1, k) = 6 + (2 * t + (b + 1))
    BY <1>2, AheadIs
  <2>3. Ahead("finger", t + 1, m, b, k) = 6 + (2 * (t + 1) + b)
    BY <1>2, AheadIs
  <2> QED
    BY <1>1, <1>3, <2>1, <2>2, <2>3, AheadIs
<1>15. Ahead("send", t, m, b + 1, k) = 5 + (b + 1)
  BY <1>2, AheadIs
<1>16. Ahead("send", 0, m, b, k) = 5 + b
  BY <1>2, AheadIs
<1>17. Ahead("name", 0, m, b, k) = 4
  BY <1>2, AheadIs
<1> HIDE DEF a, d, f
<1>18. /\ Ahead("loop", t, m, b, k) < Ahead("load", t, m, b, k)
       /\ Ahead("loop", t, m + 1, b, k) < Ahead("loop", t + 1, m, b, k)
       /\ t > 0 => Ahead("name", t, m, b, k) < Ahead("loop", t, m, b, k)
       /\ Ahead("exit", t, m, b, k) < Ahead("loop", t, m, b, k)
       /\ Ahead("open", t, m, b, k) < Ahead("name", t, m, b, k)
       /\ Ahead("write", t, m, b, k) < Ahead("open", t, m, b, k)
  BY <1>1, <1>4, <1>5, <1>6, <1>7
<1>19. ASSUME NEW step \in {"name", "open", "write"}
       PROVE  /\ Ahead("loop", t, m, b, k) < Ahead(step, t + 1, m, b, k)
              /\ Ahead("exit", t, m, b, k) < Ahead(step, t, m, b, k)
  BY <1>1, <1>4, <1>5, <1>6, <1>7, <1>8
<1>20. /\ Ahead("compose", t, m, b, k) < Ahead("loop", t, m, b, k)
       /\ Ahead("create", t, m, b, k) < Ahead("compose", t, m, b, k)
       /\ Ahead("encode", t, m, b, k) < Ahead("create", t, m, b, k)
  BY <1>1, <1>2, <1>4, <1>9, <1>10
<1>21. /\ Ahead("create", t, m, b, "create") < Ahead("encode", t, m, b, "note")
       /\ Ahead("finger", m, m, 0, "create") < Ahead("encode", t, m, 0, "create")
  BY <1>1, <1>11, <1>12, <1>13, <1>14
<1>22. /\ Ahead("finger", t, m, b, k) < Ahead("finger", t + 1, m, b, k)
       /\ Ahead("finger", t, m, b + 1, k) < Ahead("finger", t + 1, m, b, k)
       /\ Ahead("send", t, m, b, k) < Ahead("finger", t, m, b, k)
       /\ Ahead("send", t, m, b, k) < Ahead("send", t, m, b + 1, k)
       /\ Ahead("name", 0, m, b, k) < Ahead("send", 0, m, b, k)
       /\ Ahead("exit", t, m, b, k) < Ahead("send", t, m, b, k)
  BY <1>1, <1>7, <1>14, <1>15, <1>16, <1>17
<1> QED
  BY <1>18, <1>19, <1>20, <1>21, <1>22

LEMMA LengthsAreNumbers ==
  ASSUME TypeOK, NEW r \in Run
  PROVE  /\ Len(todo[r]) \in Nat /\ Len(remote[r]) \in Nat /\ Len(boxes[r]) \in Nat
         /\ pc[r] \in Step /\ part[r] \in Part
<1>1. /\ todo[r] \in Seq(Nat) /\ remote[r] \in Seq(Nat)
      /\ boxes[r] \in Seq(Inbox \cup {NoInbox})
  BY DEF TypeOK
<1> QED
  BY <1>1, LenProperties DEF TypeOK

\* What is left is a number, whatever the run is at.
LeftIsNatural == \A r \in Run : Left(r) \in Nat

LEMMA LeftIsNumber == TypeOK => LeftIsNatural
BY LengthsAreNumbers, AheadIsNumber DEF LeftIsNatural, Left

\* Reaching an argument, or posting to an inbox, makes the list shorter by one.
LEMMA TailIsShorter ==
  ASSUME NEW S, NEW s \in Seq(S), s # <<>>
  PROVE  Len(Tail(s)) \in Nat /\ Len(s) = Len(Tail(s)) + 1
BY HeadTailProperties, EmptySeq, LenProperties

\* The steps from the start to the outbox that do not end the run.
LEMMA LeftFallsBefore ==
  ASSUME TypeOK, NEW r \in Run,
         \/ Load(r) \/ TakeRemote(r) \/ TakeLocal(r) \/ LoopEnd(r)
         \/ PickName(r) \/ OpenMail(r) \/ Compose(r) \/ CreateFile(r)
  PROVE  Left(r)' < Left(r)
<1>1. /\ Len(todo[r]) \in Nat /\ Len(remote[r]) \in Nat /\ Len(boxes[r]) \in Nat
      /\ part[r] \in Part
  BY LengthsAreNumbers
<1>2. /\ status[r] = "running" /\ status' = status /\ boxes' = boxes /\ part' = part
  BY DEF Load, TakeRemote, TakeLocal, LoopEnd, PickName, OpenMail, Compose, CreateFile,
     At, Goto, local
<1>3. status[r] \notin Ended /\ status'[r] \notin Ended
  BY <1>2 DEF Ended
<1>4. CASE TakeRemote(r)
  <2>1. /\ pc[r] = "loop" /\ pc'[r] = "loop" /\ todo[r] # <<>>
        /\ todo'[r] = Tail(todo[r]) /\ remote'[r] = Append(remote[r], Head(todo[r]))
    BY <1>4 DEF TakeRemote, At, TypeOK
  <2>2. /\ Len(todo'[r]) \in Nat /\ Len(todo[r]) = Len(todo'[r]) + 1
        /\ Len(remote'[r]) = Len(remote[r]) + 1
    BY <2>1, TailIsShorter, TailType, AppendProperties DEF TypeOK
  <2> QED
    BY <1>1, <1>2, <1>3, <2>1, <2>2, AheadFalls DEF Left
<1>5. CASE ~TakeRemote(r)
  <2>1. todo' = todo /\ remote' = remote
    BY <1>5 DEF Load, TakeLocal, LoopEnd, PickName, OpenMail, Compose, CreateFile, local
  <2>2. \/ pc[r] = "load" /\ pc'[r] = "loop"
        \/ pc[r] = "loop" /\ pc'[r] = "name" /\ todo[r] # <<>>
        \/ pc[r] = "loop" /\ pc'[r] \in {"exit", "compose"}
        \/ pc[r] = "name" /\ pc'[r] = "open"
        \/ pc[r] = "open" /\ pc'[r] = "write"
        \/ pc[r] = "compose" /\ pc'[r] = "create"
        \/ pc[r] = "create" /\ pc'[r] = "encode"
    BY <1>5 DEF Load, TakeLocal, LoopEnd, PickName, OpenMail, Compose, CreateFile, At,
       Goto, TypeOK
  <2>3. todo[r] # <<>> => Len(todo[r]) > 0
    BY <1>1, TailIsShorter DEF TypeOK
  <2> QED
    BY <1>1, <1>2, <1>3, <2>1, <2>2, <2>3, AheadFalls DEF Left
<1> QED
  BY <1>4, <1>5

\* deliverLocal, returning from a delivery to the caller.
LEMMA LeftFallsDeliver ==
  ASSUME TypeOK, NEW r \in Run, WriteMail(r) \/ DeliverFails(r)
  PROVE  Left(r)' < Left(r)
<1>1. /\ pc[r] \in {"name", "open", "write"} /\ status[r] = "running" /\ status' = status
      /\ remote' = remote /\ boxes' = boxes /\ part' = part /\ Return(r)
  BY DEF WriteMail, DeliverFails, At, Return, Goto
<1>2. /\ Len(todo[r]) \in Nat /\ Len(remote[r]) \in Nat /\ Len(boxes[r]) \in Nat
      /\ part[r] \in Part /\ status[r] \notin Ended /\ status'[r] \notin Ended
  BY <1>1, LengthsAreNumbers DEF Ended
<1>3. CASE todo[r] = <<>>
  <2>1. pc'[r] = "exit" /\ todo' = todo
    BY <1>1, <1>3 DEF Return, Goto, TypeOK
  <2> QED
    BY <1>1, <1>2, <2>1, AheadFalls DEF Left
<1>4. CASE todo[r] # <<>>
  <2>1. pc'[r] = "loop" /\ todo'[r] = Tail(todo[r])
    BY <1>1, <1>4 DEF Return, Goto, TypeOK
  <2>2. Len(todo'[r]) \in Nat /\ Len(todo[r]) = Len(todo'[r]) + 1
    BY <1>4, <2>1, TailIsShorter DEF TypeOK
  <2> QED
    BY <1>1, <1>2, <2>1, <2>2, AheadFalls DEF Left
<1> QED
  BY <1>3, <1>4

\* Encode, which goes on to the next file or to the actors to find.
LEMMA LeftFallsEncode ==
  ASSUME TypeOK, NEW r \in Run, RunInv(r), Encode(r)
  PROVE  Left(r)' < Left(r)
<1>1. /\ pc[r] = "encode" /\ status[r] = "running" /\ status' = status
      /\ remote' = remote /\ boxes' = boxes
  BY DEF Encode, At, Goto
<1>2. /\ Len(todo[r]) \in Nat /\ Len(remote[r]) \in Nat /\ Len(boxes[r]) \in Nat
      /\ part[r] \in Part /\ status[r] \notin Ended /\ status'[r] \notin Ended
  BY <1>1, LengthsAreNumbers DEF Ended
<1>3. Len(boxes[r]) = 0
  BY <1>1, EmptySeq DEF RunInv, NothingYet, Publishing
<1>4. CASE part[r] = "create"
  <2>1. pc'[r] = "finger" /\ todo'[r] = remote[r] /\ part'[r] = "create"
    BY <1>4 DEF Encode, LastPart, Goto, TypeOK
  <2> QED
    BY <1>1, <1>2, <1>3, <1>4, <2>1, AheadFalls DEF Left
<1>5. CASE part[r] = "note"
  <2>1. pc'[r] = "create" /\ part'[r] = "create" /\ todo' = todo
    BY <1>5 DEF Encode, LastPart, Goto, TypeOK
  <2> QED
    BY <1>1, <1>2, <1>5, <2>1, AheadFalls DEF Left
<1> QED
  BY <1>2, <1>4, <1>5 DEF Part

\* Finding actors and posting to their inboxes.
LEMMA LeftFallsPost ==
  ASSUME TypeOK, NEW r \in Run, RunInv(r), Post(r)
  PROVE  Left(r)' < Left(r)
<1>1. /\ status[r] = "running" /\ status' = status /\ remote' = remote /\ part' = part
  BY DEF Post, Finger, FingerFails, FingerEnd, Send, SendFails, SendEnd, At, Goto, local
<1>2. /\ Len(todo[r]) \in Nat /\ Len(remote[r]) \in Nat /\ Len(boxes[r]) \in Nat
      /\ part[r] \in Part /\ status[r] \notin Ended /\ status'[r] \notin Ended
  BY <1>1, LengthsAreNumbers DEF Ended
<1>3. CASE Finger(r) \/ FingerFails(r)
  <2>1. /\ pc[r] = "finger" /\ pc' = pc /\ todo[r] # <<>>
        /\ todo'[r] = Tail(todo[r])
        /\ boxes'[r] \in {boxes[r], AddBox(boxes[r], BoxOf(r, Head(todo[r])))}
    BY <1>3 DEF Finger, FingerFails, At, TypeOK
  <2>2. Len(todo'[r]) \in Nat /\ Len(todo[r]) = Len(todo'[r]) + 1
    BY <2>1, TailIsShorter DEF TypeOK
  <2>3. Len(boxes'[r]) \in {Len(boxes[r]), Len(boxes[r]) + 1}
    <3>1. Head(todo[r]) \in RemoteArgs(r)
      BY <2>1, TailType DEF TypeOK, Positions
    <3>2. BoxOf(r, Head(todo[r])) \in Inbox \cup {NoInbox}
      BY <3>1, BoxType DEF BoxOf, RemoteArgs
    <3>3. boxes[r] \in Seq(Inbox \cup {NoInbox})
      BY DEF TypeOK
    <3>4. Len(Append(boxes[r], BoxOf(r, Head(todo[r])))) = Len(boxes[r]) + 1
      BY <3>2, <3>3, AppendProperties
    <3> QED
      BY <2>1, <3>4 DEF AddBox
  <2> QED
    BY <1>1, <1>2, <2>1, <2>2, <2>3, AheadFalls DEF Left
<1>4. CASE FingerEnd(r)
  <2>1. /\ pc[r] = "finger" /\ pc'[r] = "send" /\ todo' = todo /\ boxes' = boxes
    BY <1>4 DEF FingerEnd, At, Goto, local, TypeOK
  <2> QED
    BY <1>1, <1>2, <2>1, AheadFalls DEF Left
<1>5. CASE Send(r) \/ SendFails(r)
  <2>1. /\ pc[r] = "send" /\ pc' = pc /\ todo' = todo
        /\ boxes[r] # <<>> /\ boxes'[r] = Tail(boxes[r])
    BY <1>5 DEF Send, SendFails, At, TypeOK
  <2>2. Len(boxes'[r]) \in Nat /\ Len(boxes[r]) = Len(boxes'[r]) + 1
    BY <2>1, TailIsShorter DEF TypeOK
  <2> QED
    BY <1>1, <1>2, <2>1, <2>2, AheadFalls DEF Left
<1>6. CASE SendEnd(r)
  <2>1. /\ pc[r] = "send" /\ pc'[r] \in {"name", "exit"} /\ todo' = todo /\ boxes' = boxes
    BY <1>6 DEF SendEnd, At, Goto, local, TypeOK
  <2>2. Len(todo[r]) = 0
    BY <2>1, EmptySeq DEF RunInv, LoopsApart
  <2> QED
    BY <1>1, <1>2, <2>1, <2>2, AheadFalls DEF Left
<1> QED
  BY <1>3, <1>4, <1>5, <1>6 DEF Post

\* The steps that end a run leave nothing, and before them something was left.
LEMMA LeftFallsAtEnd ==
  ASSUME TypeOK, NEW r \in Run, Fatal(r) \/ EncodeFails(r) \/ Exit(r)
  PROVE  Left(r)' < Left(r)
<1>1. status[r] = "running" /\ status'[r] \in Ended
  BY DEF Fatal, EncodeFails, Exit, At, Ends, Ended, TypeOK
<1>2. Left(r)' = 0
  BY <1>1 DEF Left
<1>3. Left(r) \in Nat \ {0}
  BY <1>1, LengthsAreNumbers, AheadIsNumber DEF Left, Ended
<1> QED
  BY <1>2, <1>3

\* Every loop of main() ends, for any arguments and whatever fails: a step of a
\* run lowers what it has left, a natural number.  With the fairness of FairSpec,
\* this is why a run that is not killed reports.
THEOREM RunsGetShorter == Spec => EachStepCounts
<1>1. TypeOK /\ BooksKept /\ LeftIsNatural' /\ [Next]_vars
        => [\A r \in Run : Main(r) => Left(r)' < Left(r) /\ Left(r)' >= 0]_vars
  <2> SUFFICES ASSUME TypeOK, BooksKept, LeftIsNatural', NEW r \in Run, Main(r)
               PROVE  Left(r)' < Left(r) /\ Left(r)' >= 0
    OBVIOUS
  <2>1. RunInv(r)
    BY DEF BooksKept
  <2>2. Left(r)' < Left(r)
    BY <2>1, LeftFallsBefore, LeftFallsDeliver, LeftFallsEncode, LeftFallsPost,
       LeftFallsAtEnd DEF Main, Deliver, Publish
  <2>3. Left(r)' >= 0
    BY DEF LeftIsNatural
  <2> QED
    BY <2>2, <2>3
<1> QED
  BY <1>1, TypeCorrect, BooksAreKept, LeftIsNumber, PTL DEF Spec, EachStepCounts
=============================================================================
