------------------------------ MODULE MCApsend ------------------------------
(***************************************************************************)
(* Instances of Apsend for TLC.  otl and bowie are users of this system.   *)
(* Of the remote addresses, ann and abe sit behind one shared inbox, cat   *)
(* has an inbox of her own and dan's actor lacks one.                      *)
(***************************************************************************)
EXTENDS Apsend, TLC

CONSTANTS r1, r2,
          otl, bowie, ann, abe, cat, dan,
          hub, catbox,
          note,    \* a mail from otl
          twin,    \* another, shorter mail from otl with the same Date
          reply,   \* a mail from bowie
          alien,   \* a mail whose sender is elsewhere
          follow,  \* JSON from otl with an ID of its own
          bare     \* JSON without ID and date
CONSTANTS sec1, own1

MCUser  == {otl, bowie}
MCAddr  == {ann, abe, cat, dan}
MCInbox == {hub, catbox}
MCMsg   == {note, twin, reply, alien, follow, bare}
MCName  == {sec1, own1}

MCInboxOf  == (ann :> hub) @@ (abe :> catbox) @@ (cat :> catbox) @@ (dan :> NoInbox)
MCSharedOf == [a \in MCAddr |-> IF a \in {ann, abe} THEN hub ELSE NoInbox]

MCAuthor == [m \in MCMsg |-> IF m = reply THEN bowie
                             ELSE IF m = alien THEN NoUser ELSE otl]
MCNameOf == [m \in MCMsg |-> IF m = bare THEN NoName
                             ELSE IF m = follow THEN own1 ELSE sec1]
MCSize   == [m \in MCMsg |-> IF m = twin THEN 1 ELSE 2]

Invoke(M, R, F) == [msg : M, rcpts : R, file : F]

\* Every kind of message and argument list, one run at a time.
OneJob == Invoke(MCMsg,
                 {<<>>, <<otl>>, <<bowie, otl>>, <<ann, abe>>, <<ann, cat>>,
                  <<otl, cat, ann>>, <<cat, cat, abe>>, <<dan>>},
                 BOOLEAN)

\* Two runs that meet in the Maildirs.
MailJobs == Invoke({note, twin}, {<<bowie>>, <<otl>>, <<cat>>}, {TRUE})
            \cup Invoke({reply}, {<<otl, bowie>>}, {FALSE})

\* Two runs that meet in the outbox: the same message again, another of the
\* same second, one of another user.
PostJobs == Invoke({note, twin, reply}, {<<cat>>, <<ann, cat>>}, {FALSE})
TwoJobs  == MailJobs \cup PostJobs
=============================================================================
