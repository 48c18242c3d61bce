---------------------------- MODULE MailHeaders ----------------------------
(***************************************************************************)
(* package apub, mail.go: who an activity is addressed to, as the header of *)
(* a mail message and back.                                                *)
(*                                                                         *)
(* MarshalMail writes the most likely address of each actor it looks up,   *)
(* and a "+followers" address for a followers collection, if it knows whose *)
(* it is.  UnmarshalMail asks WebFinger who each address is.  Subject and   *)
(* body take no part in this and are left out.                             *)
(***************************************************************************)
EXTENDS Sequences, Integers

CONSTANTS
  Actor,       \* actors, by their ID
  Collection,  \* followers collections, by theirs
  Public,      \* the public collection
  NoID,        \* the empty string
  Followers,   \* Followers[a]: a's collection, NoID if it has none
  Address,     \* mail addresses
  BadAddress,  \* what does not parse as one
  AddressOf,   \* AddressOf[a]: user name and host of a's ID
  Resolves     \* Resolves[d]: the actor WebFinger finds for d, or NoID

ASSUME DirectoryAssumption ==
  /\ Actor \cap Collection = {}
  /\ {Public, NoID} \cap (Actor \cup Collection) = {}
  /\ Public # NoID
  /\ BadAddress \notin Address
  /\ Followers \in [Actor -> Collection \cup {NoID}]
  /\ AddressOf \in [Actor -> Address \cup {BadAddress}]
  /\ Resolves  \in [Address -> Actor \cup {NoID}]

Recipient == Actor \cup Collection \cup {Public, NoID}

Elems(s) == {s[i] : i \in DOMAIN s}
Each(Op(_), s) == [i \in DOMAIN s |-> Op(s[i])]

\* The elements of s that are in S, in their order: SelectSeq for a set, as a
\* recursive function, so that it can be reasoned about.
Kept(s, S) ==
  LET kept[i \in 0..Len(s)] ==
        IF i = 0 THEN <<>>
        ELSE IF s[i] \in S THEN Append(kept[i - 1], s[i]) ELSE kept[i - 1]
  IN  kept[Len(s)]

People(ids) == Kept(ids, Actor)

(***************************************************************************)
(* An address in a header.  Address and FollowersAddress differ in the      *)
(* suffix "+followers"; an actor with neither name nor user name has an     *)
(* address that cannot be read back.                                       *)
(***************************************************************************)
Box == [addr : Address \cup {BadAddress}, followers : BOOLEAN]
PersonBox(a)    == [addr |-> AddressOf[a], followers |-> FALSE]
FollowersBox(a) == [addr |-> AddressOf[a], followers |-> TRUE]

\* Mutant of Owners: the comparison with the collection's ID is lost.
AnyOwners(seen, c) == {i \in DOMAIN seen : Followers[seen[i]] # NoID}
\* indexFollowers: where in seen the actors are whose followers c holds.
Owners(seen, c) == {i \in DOMAIN seen : Followers[seen[i]] = c}
Owner(seen, c) == seen[CHOOSE i \in Owners(seen, c) :
                         \A k \in Owners(seen, c) : i <= k]

\* One header line: the people first, then the collections whose owner has
\* been seen by then.  The public collection and all others are dropped.
Line(ids, seen) ==
  LET owned == Kept(ids, {c \in Collection : Owners(seen, c) # {}})
  IN  Each(PersonBox, People(ids)) \o Each(LAMBDA c : FollowersBox(Owner(seen, c)), owned)

\* The actors looked up when the To line is written, and the CC line.
SeenAtTo(note) == <<note.author>> \o People(note.to)
SeenAtCC(note) == SeenAtTo(note) \o People(note.cc)

(***************************************************************************)
(* MarshalMail and UnmarshalMail.  Each fails as a whole.  CanMarshal and   *)
(* Readable are what they need; that a lookup may fail all the same is up   *)
(* to whoever uses them.                                                   *)
(***************************************************************************)
CanMarshal(note) ==
  note.author \in Actor /\ NoID \notin Elems(note.to) \cup Elems(note.cc)

MarshalMail(note) ==
  [from      |-> AddressOf[note.author],
   to        |-> Line(note.to, SeenAtTo(note)),
   cc        |-> Line(note.cc, SeenAtCC(note)),
   id        |-> note.id,
   inReplyTo |-> note.inReplyTo]

Found(d) == d \in Address /\ Resolves[d] # NoID
Readable(mail) ==
  /\ Found(mail.from)
  /\ \A b \in Elems(mail.to) \cup Elems(mail.cc) : Found(b.addr)

\* Mutant of Addressee: the suffix is removed to look the address up, and
\* then forgotten.
AlwaysPerson(b) == Resolves[b.addr]
\* Whom an address adds to the activity: nobody, under no ID, if these are
\* the followers of an actor without any.
Addressee(b) ==
  IF b.followers THEN Followers[Resolves[b.addr]] ELSE Resolves[b.addr]

UnmarshalMail(mail) ==
  [author    |-> Resolves[mail.from],
   to        |-> Each(Addressee, mail.to),
   cc        |-> Each(Addressee, mail.cc),
   id        |-> NoID,
   inReplyTo |-> mail.inReplyTo]

(***************************************************************************)
(* What a reader of the code would say of an activity                      *)
(***************************************************************************)
Addressed(note) == Elems(note.to) \cup Elems(note.cc)
Named(note)     == (Addressed(note) \cap Actor) \cup {note.author}

\* The collections an activity is addressed to that its mail does not show.
Owned(seen) == {Followers[a] : a \in Elems(seen)}
Dropped(note) ==
  ((Elems(note.to) \cap Collection) \ Owned(SeenAtTo(note)))
  \cup ((Elems(note.cc) \cap Collection) \ Owned(SeenAtCC(note)))

\* Actors whose most likely address is theirs.
Verified == {a \in Actor : AddressOf[a] \in Address /\ Resolves[AddressOf[a]] = a}
=============================================================================
