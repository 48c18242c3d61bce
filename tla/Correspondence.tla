--------------------------- MODULE Correspondence ---------------------------
(***************************************************************************)
(* A conversation between users of this system, who read and write mail,   *)
(* and actors elsewhere, who do not: cmd/apsend and cmd/apserve over        *)
(* package apub's translation of headers.                                  *)
(*                                                                         *)
(* Here one run of apsend is one step, and so is the relay of one POST;    *)
(* what may happen inside them is in Apsend and Apserve.  A POST may be    *)
(* lost, come late, out of order and twice; a relay may never happen, nor  *)
(* a copy be filed.                                                        *)
(***************************************************************************)
EXTENDS MailHeaders, FiniteSets

CONSTANTS
  Local,       \* actors with a Maildir and an outbox on this system
  Notes,       \* what actors elsewhere write: [author, to, cc]
  Drafts,      \* new mail, as a mail client addresses it: [to, cc]
  Bcc,         \* sets of actors a mail may be sent to without naming them
  Elsewhere,   \* where the ID of what others write is
  ClientID,    \* a Message-ID as mail clients make them, without https
  MaxNotes,    \* bound: so many activities
  MaxThreads,  \* bound: so many of them start a thread
  MaxSecond    \* bound: the clock stops here

ASSUME LocalAssumption == Local \subseteq Verified /\ Elsewhere \notin Local
ASSUME NotesAssumption ==
  \A n \in Notes : /\ n.author \in Actor \ Local
                   /\ {n.to, n.cc} \subseteq Seq(Recipient)
ASSUME DraftsAssumption == \A d \in Drafts : {d.to, d.cc} \subseteq Seq(Box)
ASSUME BoundAssumption ==
  MaxNotes \in Nat /\ MaxThreads \in Nat /\ MaxSecond \in Nat \ {0}

VARIABLES
  now,        \* the second mail clients date mail with: it names the activity
  published,  \* activities others can fetch, from an outbox here or elsewhere
  wire,       \* POSTs made to inboxes here: [to, note]
  mailbox,    \* mailbox[u]: the mail delivered to u's Maildir so far; that one file
              \* may replace another there is in Apsend
  written,    \* history: every activity published so far
  replies     \* history: [note, mail, all], which activity answers which mail,
              \* and whether it was meant for all its recipients

vars == <<now, published, wire, mailbox, written, replies>>

NoteID == Local \X (1..MaxSecond) \cup {Elsewhere} \X (1..MaxNotes)

Note == [author : Actor, to : Seq(Recipient), cc : Seq(Recipient),
         id : NoteID, inReplyTo : NoteID \cup {NoID}]
Mail == [from : Address \cup {BadAddress}, to : Seq(Box), cc : Seq(Box),
         id : NoteID, inReplyTo : NoteID \cup {NoID}]

TypeOK ==
  /\ now \in 1..MaxSecond
  /\ written \subseteq Note
  /\ published \subseteq written
  /\ wire \subseteq [to : Local, note : written]
  /\ mailbox \in [Local -> SUBSET Mail]
  /\ replies \subseteq [note : written, mail : Mail, all : BOOLEAN]
  /\ \A r \in replies : r.mail \in mailbox[r.note.author]

Init ==
  /\ now       = 1
  /\ published = {}
  /\ written   = {}
  /\ wire      = {}
  /\ mailbox   = [u \in Local |-> {}]
  /\ replies   = {}

\* AppendToOutbox creates the file that the ID names, in place of the one that an
\* earlier activity of that ID was in.
Outbox(note) == {p \in published : p.id # note.id} \cup {note}

Publish(note) ==
  LET all == written \cup {note} IN
    /\ Cardinality(all) <= MaxNotes
    /\ Cardinality({n \in all : n.inReplyTo = NoID}) <= MaxThreads
    /\ written'   = all
    /\ published' = Outbox(note)

(***************************************************************************)
(* Actors elsewhere address whom they like, answer what they have seen, and *)
(* post to any inbox here, an addressee's or a follower's.                 *)
(***************************************************************************)
OthersWrite ==
  /\ \E n \in Notes, S \in SUBSET Local,
        parent \in {NoID} \cup {p.id : p \in published} :
       LET note == [author |-> n.author, to |-> n.to, cc |-> n.cc,
                    id |-> <<Elsewhere, Cardinality(written) + 1>>,
                    inReplyTo |-> parent]
       IN  /\ Publish(note)
           /\ wire' = wire \cup [to : S, note : {note}]
  /\ UNCHANGED <<now, mailbox, replies>>

(***************************************************************************)
(* apsend -F, as apsubmit executes it for a mail and all its recipients     *)
(***************************************************************************)

\* Whose inbox each argument stands for: that of the actor itself, whether
\* the address ends in "+followers" or not.
Inboxes(mail, bcc) ==
  {Resolves[b.addr] : b \in Elems(mail.to) \cup Elems(mail.cc)} \cup bcc

\* Mutant of Permit: the recipients are replaced instead of added to.
PermitOnly(note) == [note EXCEPT !.to = <<Public>>]
\* "Permit this activity for the public, too".
Permit(note) == [note EXCEPT !.to = Append(@, Public)]

\* Mutant of FiledCopy: the message is filed as it was submitted.
AsSubmitted(mail, note) == mail
\* The mail is marshalled again once the activity has its ID.
FiledCopy(mail, note) == MarshalMail(note)

Send(mail, bcc, answering) ==
  LET note == [UnmarshalMail(mail) EXCEPT !.id = <<Resolves[mail.from], now>>]
      sent == Permit(note)
  IN  /\ Readable(mail)
      /\ note.author \in Local
      /\ CanMarshal(note)
      /\ Publish(sent)
      /\ wire' = wire \cup [to : Inboxes(mail, bcc) \cap Local, note : {sent}]
      /\ \/ mailbox' = [mailbox EXCEPT ![note.author] = @ \cup {FiledCopy(mail, note)}]
         \/ UNCHANGED mailbox
      /\ replies' = replies \cup {[note |-> sent, mail |-> a.mail, all |-> a.all] :
                                    a \in answering}
      /\ UNCHANGED now

Write(u) ==
  \E d \in Drafts, bcc \in Bcc :
    Send([from |-> AddressOf[u], to |-> d.to, cc |-> d.cc, id |-> ClientID,
          inReplyTo |-> NoID], bcc, {})

\* A mail client's answer, to the author or to all; one's own address is left
\* out.  Answering one's own mail means writing to its recipients again.
Others(u, boxes) == Kept(boxes, Box \ {PersonBox(u)})
Answer(u, m, all) ==
  LET mine == m.from = AddressOf[u]
      to   == Others(u, m.to)
      cc   == Others(u, m.cc)
      from == <<[addr |-> m.from, followers |-> FALSE]>>
  IN  [from |-> AddressOf[u], id |-> ClientID, inReplyTo |-> m.id,
       to |-> IF mine THEN to ELSE from,
       cc |-> IF ~all THEN <<>> ELSE IF mine THEN cc ELSE to \o cc]

Reply(u) ==
  \E m \in mailbox[u], all \in BOOLEAN :
    Send(Answer(u, m, all), {}, {[mail |-> m, all |-> all]})

(***************************************************************************)
(* apserve's relay of a POST, and apsend's delivery of the mail it makes.   *)
(* apsend reads the mail's header before it delivers anything.             *)
(***************************************************************************)
\* Mutant of Deliverable: a message for a local user is not read first.
AnythingGoes(mail) == TRUE
Deliverable(mail) == Readable(mail)

Relay(u) ==
  \E p \in wire :
    /\ p.to = u
    /\ CanMarshal(p.note)
    /\ Deliverable(MarshalMail(p.note))
    /\ mailbox' = [mailbox EXCEPT ![u] = @ \cup {MarshalMail(p.note)}]
    /\ UNCHANGED <<now, published, wire, written, replies>>

Tick ==
  /\ now < MaxSecond
  /\ now' = now + 1
  /\ UNCHANGED <<published, wire, mailbox, written, replies>>

Next == \/ OthersWrite \/ Tick
        \/ \E u \in Local : Write(u) \/ Reply(u) \/ Relay(u)

Spec == Init /\ [][Next]_vars

(***************************************************************************)
(* Properties                                                              *)
(***************************************************************************)

\* The activities a mail may have been made of.
Sources(m) == {p \in written : p.id = m.id /\ MarshalMail(p) = m}

\* Two activities of one author and second.
Reused(id) == \E p, q \in written : p # q /\ p.id = id /\ q.id = id

\* A thread holds together: what a user's activity is in reply to is something its
\* author has had as mail, received or filed, and whoever fetches it by that ID gets
\* the activity which that mail was made of; after a second activity of the same
\* ID, one of the two.  No Message-ID of a mail client gets into a thread.
ThreadsHold ==
  \A n \in written :
    n.author \in Local /\ n.inReplyTo # NoID =>
      \E m \in mailbox[n.author], p \in published :
        /\ m.id = n.inReplyTo /\ p.id = m.id
        /\ MarshalMail(p) = m \/ Reused(m.id)

\* An answer to all reaches everybody the activity answered names, and each
\* followers collection of somebody it names in time: the round trip through
\* two headers and WebFinger loses only actors whose address is not theirs.
ReplyReachesAll ==
  \A r \in replies : \A p \in Sources(r.mail) :
    r.all =>
      /\ (Named(p) \cap Verified) \subseteq Named(r.note)
      /\ \A c \in (Addressed(p) \cap Collection) \ Dropped(p) :
           (\A a \in Actor : Followers[a] = c => a \in Verified)
             => c \in Addressed(r.note)

\* An answer reaches nobody else: neither a person nor anybody's followers
\* whom the activity answered does not name, except whoever has the address
\* that somebody it names only seems to have.
NoStrangers ==
  \A r \in replies : \A p \in Sources(r.mail) :
    LET mistaken == {Resolves[AddressOf[a]] :
                       a \in {b \in Named(p) \ Verified : AddressOf[b] \in Address}}
        taken    == Named(p) \cup mistaken
    IN  /\ Named(r.note) \ {r.note.author} \subseteq taken
        /\ Addressed(r.note) \cap Collection
             \subseteq Addressed(p) \cup {Followers[a] : a \in mistaken}

\* Everybody who has an activity as mail has the same mail, its author's own
\* copy included; only two activities of one author and second may differ.
OneMail ==
  \A u, v \in Local : \A m \in mailbox[u], k \in mailbox[v] :
    \/ m.id # k.id \/ m = k
    \/ Reused(m.id)

\* Mail that is delivered can be answered: every address in it resolves, so
\* that a reply to all is taken by apsend, unless it is to the followers of an
\* address whose owner turns out to have none.
Answerable ==
  \A u \in Local : \A m \in mailbox[u] :
    LET reply == Answer(u, m, TRUE) IN
      /\ Readable(reply)
      /\ CanMarshal(UnmarshalMail(reply)) \/
           \E b \in Elems(reply.to) \cup Elems(reply.cc) :
             b.followers /\ Followers[Resolves[b.addr]] = NoID
=============================================================================
