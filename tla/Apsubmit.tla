------------------------------ MODULE Apsubmit ------------------------------
(***************************************************************************)
(* cmd/apsubmit, the submission server: SMTP sessions that hand messages   *)
(* to the mailer.                                                          *)
(*                                                                         *)
(* The library go-smtp owns the connection: it keeps the order of the      *)
(* commands, counts the recipients of the transaction and calls the        *)
(* Session of this connection for each command.  Session.Data executes     *)
(* apsend and waits; the mailer is the one Dispatch specifies, which       *)
(* Apsend implements.                                                      *)
(***************************************************************************)
EXTENDS Integers, Sequences

CONSTANTS
  Conn,       \* SMTP connections
  Addr,       \* addresses a client may name as recipients
  Fingered,   \* those WebFinger resolves
  MaxTxn,     \* bound: MaxTxn[c], transactions of connection c
  MaxRcpt     \* bound: MaxRcpt[c], recipients named on connection c

ASSUME AddrAssumption == Fingered \subseteq Addr
ASSUME BoundAssumption == MaxTxn \in [Conn -> Nat \ {0}] /\ MaxRcpt \in [Conn -> Nat]

\* One execution of apsend for each transaction that reaches DATA.
Exec == UNION {{c} \X (1..MaxTxn[c]) : c \in Conn}

VARIABLES
  phase,       \* phase[c]: what go-smtp expects next on connection c
  asked,       \* asked[c]: recipients go-smtp counts for this transaction
  recipients,  \* recipients[c]: the field of that name of c's Session
  txn,         \* txn[c]: number of the transaction c is in
  input,       \* input[x]: did apsend read the message whole, or cut short
  answer,      \* history: answer[x], the reply to DATA
  wanted,      \* history: wanted[x], recipients accepted in the transaction
  accepted,    \* history: accepted[c], recipients ever accepted on c
  owed, settled, report    \* the mailer's

session == <<asked, recipients>>
history == <<input, answer, wanted, accepted>>
mailer  == <<owed, settled, report>>
vars    == <<phase, session, txn, history, mailer>>

Mailer == INSTANCE Dispatch WITH Run <- Exec, Item <- Addr

Phase == {"new", "ready", "mail", "data", "closed"}
Elems(s) == {s[i] : i \in DOMAIN s}

TypeOK ==
  /\ phase      \in [Conn -> Phase]
  /\ asked      \in [Conn -> Seq(Addr)]
  /\ recipients \in [Conn -> Seq(Addr)]
  /\ txn        \in [Conn -> Nat]
  /\ input      \in [Exec -> {"none", "whole", "cut"}]
  /\ answer     \in [Exec -> {"none", "ok", "error"}]
  /\ wanted     \in [Exec -> SUBSET Addr]
  /\ accepted   \in [Conn -> SUBSET Addr]
  /\ Mailer!TypeOK

Init ==
  /\ phase      = [c \in Conn |-> "new"]
  /\ asked      = [c \in Conn |-> <<>>]
  /\ recipients = [c \in Conn |-> <<>>]
  /\ txn        = [c \in Conn |-> 1]
  /\ input      = [x \in Exec |-> "none"]
  /\ answer     = [x \in Exec |-> "none"]
  /\ wanted     = [x \in Exec |-> {}]
  /\ accepted   = [c \in Conn |-> {}]
  /\ Mailer!Init

Current(c) == <<c, txn[c]>>
Goto(c, p) == phase' = [phase EXCEPT ![c] = p]

(***************************************************************************)
(* The commands                                                            *)
(***************************************************************************)

\* Mutant of FreshSession: the backend hands one Session to every connection.
SharedSession(c) ==
  IF \E d \in Conn : recipients[d] # <<>>
    THEN LET d == CHOOSE d \in Conn : recipients[d] # <<>> IN recipients[d]
    ELSE <<>>
FreshSession(c) == <<>>

\* EHLO, AUTH: go-smtp gets a Session from Backend.NewSession.
Hello(c) ==
  /\ phase[c] = "new"
  /\ recipients' = [recipients EXCEPT ![c] = FreshSession(c)]
  /\ Goto(c, "ready")
  /\ UNCHANGED <<asked, txn, history, mailer>>

\* MAIL FROM: Session.Mail only logs.
MailFrom(c) ==
  /\ phase[c] = "ready"
  /\ txn[c] <= MaxTxn[c]
  /\ Goto(c, "mail")
  /\ UNCHANGED <<session, txn, history, mailer>>

\* Mutant of Recorded: a recipient is recorded once for the whole session.
RecordedOnce(rs, a) == IF a \in Elems(rs) THEN rs ELSE Append(rs, a)
Recorded(rs, a) == Append(rs, a)

\* RCPT TO an address Session.Rcpt accepts: WebFinger knows it.
Rcpt(c, a) ==
  /\ phase[c] = "mail"
  /\ Len(recipients[c]) < MaxRcpt[c]
  /\ a \in Fingered
  /\ recipients' = [recipients EXCEPT ![c] = Recorded(@, a)]
  /\ asked'      = [asked EXCEPT ![c] = Append(@, a)]
  /\ accepted'   = [accepted EXCEPT ![c] = @ \cup {a}]
  /\ UNCHANGED <<phase, txn, input, answer, wanted, mailer>>

\* Session.Reset, called by go-smtp when a transaction is over or given up,
\* has an empty body.
Reset(c) == UNCHANGED recipients

\* RSET or a second EHLO, in a transaction.
Abort(c) ==
  /\ phase[c] = "mail"
  /\ asked' = [asked EXCEPT ![c] = <<>>]
  /\ Reset(c)
  /\ txn'   = [txn EXCEPT ![c] = @ + 1]
  /\ Goto(c, "ready")
  /\ UNCHANGED <<history, mailer>>

\* Mutant of Args: the arguments start one too far into the recipients.
ArgsSkipOne(c) == Tail(recipients[c])
Args(c) == recipients[c]

\* DATA: Session.Data starts apsend -F with the Session's recipients.  The
\* client's message arrives whole, or its connection breaks in the middle;
\* apsend sees the end of its input either way.  (The sender's copy under -F
\* is one more delivery of the mailer's; here it shows in the report only.)
Data(c) ==
  /\ phase[c] = "mail"
  /\ asked[c] # <<>>
  /\ Mailer!Start(Current(c), Elems(Args(c)))
  /\ \E i \in {"whole", "cut"} : input' = [input EXCEPT ![Current(c)] = i]
  /\ wanted' = [wanted EXCEPT ![Current(c)] = Elems(asked[c])]
  /\ Goto(c, "data")
  /\ UNCHANGED <<session, txn, answer, accepted>>

\* Mutant of Answer: the client gets the mailer's own word for it.
ReportAsIs(c) == report[Current(c)]
\* Mutant of Answer: the error of cmd.Run is dropped.
AlwaysOk(c) == "ok"
\* cmd.Run fails if apsend does, or if its input could not be copied.
Answer(c) == IF report[Current(c)] = "ok" /\ input[Current(c)] = "whole"
               THEN "ok" ELSE "error"

\* Mutant of Returned: only success is waited for.
ReturnedOk(c) == report[Current(c)] = "ok"
Returned(c) == report[Current(c)] \in Mailer!Report

\* apsend has exited, the client is answered and the transaction is over.
DataReturns(c) ==
  /\ phase[c] = "data"
  /\ Returned(c)
  /\ answer' = [answer EXCEPT ![Current(c)] = Answer(c)]
  /\ asked'  = [asked EXCEPT ![c] = <<>>]
  /\ Reset(c)
  /\ txn'    = [txn EXCEPT ![c] = @ + 1]
  /\ Goto(c, IF input[Current(c)] = "cut" THEN "closed" ELSE "ready")
  /\ UNCHANGED <<input, wanted, accepted, mailer>>

\* QUIT, a lost connection or the end of apsubmit: Session.Logout does
\* nothing, an apsend already started runs on and nobody gets its answer.
Close(c) ==
  /\ phase[c] # "closed"
  /\ Goto(c, "closed")
  /\ UNCHANGED <<session, txn, history, mailer>>

Mail(x) == Mailer!Work(x) /\ UNCHANGED <<phase, session, txn, history>>

Command(c) == \/ Hello(c) \/ MailFrom(c) \/ Abort(c) \/ Data(c) \/ Close(c)
              \/ \E a \in Addr : Rcpt(c, a)

Next == \/ \E c \in Conn : Command(c) \/ DataReturns(c)
        \/ \E x \in Exec : Mail(x)

Spec == Init /\ [][Next]_vars

\* An apsend that was started reports (Apsend's KeepsPromise), and Session.Data
\* goes on when it has.  Clients need not send anything.
FairSpec ==
  /\ Spec
  /\ \A c \in Conn : WF_vars(DataReturns(c))
  /\ \A x \in Exec : WF_vars(Mail(x) /\ report'[x] # report[x])

(***************************************************************************)
(* Properties                                                              *)
(***************************************************************************)

\* "Error messages are returned immediately": a client told 250 need not send
\* again, for apsend read its message whole and delivered it to each recipient
\* accepted in that transaction.
AnsweredMeansDelivered ==
  \A x \in Exec : answer[x] = "ok" =>
    /\ input[x] = "whole"
    /\ \A a \in wanted[x] : settled[x][a] = "delivered"

\* A message goes to nobody whom its own connection did not have accepted:
\* not to a refused recipient, nor to one of another session.
OnlyAcceptedRecipients ==
  \A x \in Exec : owed[x] \subseteq accepted[x[1]]

\* What go-smtp holds to be the transaction's recipients are the last ones of
\* the Session's, in order: none is dropped on the way to apsend.
AskedIsSuffix ==
  \A c \in Conn :
    \E k \in 0..Len(recipients[c]) :
      asked[c] = SubSeq(recipients[c], k + 1, Len(recipients[c]))

\* A client that sent its message gets an answer, unless it went away.
DataIsAnswered == \A c \in Conn : phase[c] = "data" ~> phase[c] # "data"

\* doc/apas.md, 2.2: "An email lists recipients explicitly", so that it is
\* obvious where a message is sent: to the recipients of its transaction.
OnlyThisTransaction == \A x \in Exec : owed[x] \subseteq wanted[x]
=============================================================================
