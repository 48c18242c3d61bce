--------------------------- MODULE ApsubmitProofs ---------------------------
(***************************************************************************)
(* What is proved of Apsubmit, for any number of connections, transactions *)
(* and recipients.                                                         *)
(***************************************************************************)
EXTENDS Apsubmit, SequenceTheorems, TLAPS

(***************************************************************************)
(* A connection's Session knows at least the recipients go-smtp counts, and *)
(* only accepted ones; what is handed to the mailer is from there.         *)
(***************************************************************************)
Suffix(s, t) == \E k \in 0..Len(t) : s = SubSeq(t, k + 1, Len(t))

SessionInv(c) ==
  /\ phase[c] \in {"mail", "data"} => txn[c] \in 1..MaxTxn[c]
  /\ phase[c] \in {"new", "ready"} => asked[c] = <<>>
  /\ txn[c] # 0
  /\ Suffix(asked[c], recipients[c])
  /\ Elems(recipients[c]) \subseteq accepted[c]
SessionsKept == \A c \in Conn : SessionInv(c)

HandedInv(x) ==
  /\ wanted[x] \subseteq owed[x]
  /\ owed[x] \subseteq accepted[x[1]]
  /\ report[x] = "ok" => \A a \in owed[x] : settled[x][a] = "delivered"
  /\ answer[x] = "ok" => report[x] = "ok" /\ input[x] = "whole"
HandedKept == \A x \in Exec : HandedInv(x)

(***************************************************************************)
(* Sequences of recipients                                                 *)
(***************************************************************************)
LEMMA ElemsType ==
  ASSUME NEW S, NEW s \in Seq(S)
  PROVE  Elems(s) \subseteq S
BY LenProperties, ElementOfSeq DEF Elems

LEMMA ElemsOfAppend ==
  ASSUME NEW S, NEW s \in Seq(S), NEW e \in S
  PROVE  Elems(Append(s, e)) = Elems(s) \cup {e}
<1>1. /\ Len(s) \in Nat
      /\ DOMAIN s = 1..Len(s) /\ DOMAIN Append(s, e) = 1..Len(s) + 1
      /\ Append(s, e)[Len(s) + 1] = e
      /\ \A k \in 1..Len(s) : Append(s, e)[k] = s[k]
  BY AppendProperties, LenProperties
<1> QED
  BY <1>1 DEF Elems

\* The empty sequence is a suffix of all.
LEMMA SuffixEmpty ==
  ASSUME NEW S, NEW t \in Seq(S)
  PROVE  Suffix(<<>>, t)
<1>1. Len(t) \in Nat
  BY LenProperties
<1>2. SubSeq(t, Len(t) + 1, Len(t)) = <<>>
  BY <1>1, SubSeqEmpty
<1> QED
  BY <1>1, <1>2 DEF Suffix

\* A suffix stays one when both get the same recipient.
LEMMA SuffixAppend ==
  ASSUME NEW S, NEW s \in Seq(S), NEW t \in Seq(S), Suffix(s, t), NEW e \in S
  PROVE  Suffix(Append(s, e), Append(t, e))
<1>1. PICK k \in 0..Len(t) : s = SubSeq(t, k + 1, Len(t))
  BY DEF Suffix
<1> DEFINE n == Len(t)
           u == SubSeq(Append(t, e), k + 1, n + 1)
<1>2. /\ n \in Nat /\ k \in Nat /\ k <= n
      /\ Append(t, e) \in Seq(S) /\ Len(Append(t, e)) = n + 1
      /\ \A i \in 1..n : Append(t, e)[i] = t[i]
      /\ Append(t, e)[n + 1] = e
  BY LenProperties, AppendProperties
<1> HIDE DEF n
<1>3. /\ Len(s) = n - k /\ \A i \in 1..n - k : s[i] = t[k + i]
  <2>1. \A i \in k + 1..n : t[i] \in S
    BY <1>2, ElementOfSeq DEF n
  <2>2. /\ Len(SubSeq(t, k + 1, n)) = IF k + 1 <= n THEN n - (k + 1) + 1 ELSE 0
        /\ \A i \in 1..n - (k + 1) + 1 : SubSeq(t, k + 1, n)[i] = t[k + 1 + i - 1]
    BY <1>2, <2>1, SubSeqProperties
  <2>3. s = SubSeq(t, k + 1, n)
    BY <1>1 DEF n
  <2>4. Len(s) = n - k
    BY <1>2, <2>2, <2>3
  <2>5. ASSUME NEW i \in 1..n - k PROVE s[i] = t[k + i]
    <3>1. i \in 1..n - (k + 1) + 1 /\ k + 1 + i - 1 = k + i
      BY <1>2
    <3>2. SubSeq(t, k + 1, n)[i] = t[k + 1 + i - 1]
      BY <2>2, <3>1
    <3> QED
      BY <2>3, <3>1, <3>2
  <2> QED
    BY <2>4, <2>5
<1>4. /\ u \in Seq(S) /\ Len(u) = n - k + 1
      /\ \A i \in 1..n - k + 1 : u[i] = Append(t, e)[k + i]
  <2>1. \A i \in k + 1..n + 1 : Append(t, e)[i] \in S
    BY <1>2, ElementOfSeq
  <2>2. /\ u \in Seq(S)
        /\ Len(u) = IF k + 1 <= n + 1 THEN n + 1 - (k + 1) + 1 ELSE 0
        /\ \A i \in 1..n + 1 - (k + 1) + 1 : u[i] = Append(t, e)[k + 1 + i - 1]
    BY <1>2, <2>1, SubSeqProperties
  <2> HIDE DEF u
  <2>3. Len(u) = n - k + 1
    BY <1>2, <2>2
  <2>4. ASSUME NEW i \in 1..n - k + 1 PROVE u[i] = Append(t, e)[k + i]
    <3>1. i \in 1..n + 1 - (k + 1) + 1 /\ k + 1 + i - 1 = k + i
      BY <1>2
    <3>2. u[i] = Append(t, e)[k + 1 + i - 1]
      BY <2>2, <3>1
    <3> QED
      BY <3>1, <3>2
  <2> QED
    BY <2>2, <2>3, <2>4
<1> HIDE DEF u
<1>5. /\ Append(s, e) \in Seq(S) /\ Len(Append(s, e)) = n - k + 1
      /\ \A i \in 1..n - k : Append(s, e)[i] = s[i]
      /\ Append(s, e)[n - k + 1] = e
  BY <1>2, <1>3, AppendProperties
<1>6. \A i \in 1..n - k + 1 : Append(s, e)[i] = u[i]
  <2> TAKE i \in 1..n - k + 1
  <2>1. CASE i = n - k + 1
    BY <1>2, <1>4, <1>5, <2>1
  <2>2. CASE i # n - k + 1
    BY <1>2, <1>3, <1>4, <1>5, <2>2
  <2> QED
    BY <2>1, <2>2
<1>7. Append(s, e) = u
  BY <1>4, <1>5, <1>6, SeqEqual
<1>8. k \in 0..n + 1 /\ Append(s, e) = SubSeq(Append(t, e), k + 1, n + 1)
  BY <1>2, <1>7 DEF u
<1>9. \E j \in 0..Len(Append(t, e)) :
        Append(s, e) = SubSeq(Append(t, e), j + 1, Len(Append(t, e)))
  BY <1>2, <1>8
<1> QED
  BY <1>9 DEF Suffix

(***************************************************************************)
(* Types                                                                   *)
(***************************************************************************)
LEMMA ExecType ==
  /\ \A x \in Exec : x[1] \in Conn
  /\ \A c \in Conn : \A n \in 1..MaxTxn[c] : <<c, n>> \in Exec
BY DEF Exec

LEMMA TypeInit == Init => TypeOK
BY EmptySeq DEF Init, TypeOK, Phase, Mailer!Init, Mailer!TypeOK

LEMMA TypeStep ==
  ASSUME TypeOK, [Next]_vars
  PROVE  TypeOK'
<1> USE DEF TypeOK, Phase, session, history, mailer, Goto, Mailer!TypeOK
<1>1. CASE UNCHANGED vars
  BY <1>1 DEF vars
<1>2. ASSUME NEW c \in Conn, Hello(c) \/ MailFrom(c) \/ Abort(c) \/ Close(c)
      PROVE  TypeOK'
  <2>1. CASE Hello(c)
    BY <2>1, EmptySeq DEF Hello, FreshSession
  <2>2. CASE MailFrom(c) \/ Close(c)
    BY <2>2 DEF MailFrom, Close
  <2>3. CASE Abort(c)
    BY <2>3, EmptySeq DEF Abort, Reset
  <2> QED
    BY <1>2, <2>1, <2>2, <2>3
<1>3. ASSUME NEW c \in Conn, NEW a \in Addr, Rcpt(c, a)
      PROVE  TypeOK'
  <2>1. Append(recipients[c], a) \in Seq(Addr) /\ Append(asked[c], a) \in Seq(Addr)
    BY AppendProperties
  <2> QED
    BY <1>3, <2>1 DEF Rcpt, Recorded
<1>4. ASSUME NEW c \in Conn, Data(c)
      PROVE  TypeOK'
  <2>1. Elems(asked[c]) \subseteq Addr /\ Elems(recipients[c]) \subseteq Addr
    BY ElemsType
  <2> QED
    BY <1>4, <2>1 DEF Data, Args, Mailer!Start, Mailer!Report
<1>5. ASSUME NEW c \in Conn, DataReturns(c)
      PROVE  TypeOK'
  <2>1. Answer(c) \in {"none", "ok", "error"}
    BY DEF Answer
  <2>2. answer' \in [Exec -> {"none", "ok", "error"}]
    BY <1>5, <2>1 DEF DataReturns
  <2>3. phase' \in [Conn -> Phase] /\ txn' \in [Conn -> Nat]
    BY <1>5 DEF DataReturns
  <2>4. asked' \in [Conn -> Seq(Addr)] /\ recipients' = recipients
    BY <1>5, EmptySeq DEF DataReturns, Reset
  <2> QED
    BY <1>5, <2>2, <2>3, <2>4 DEF DataReturns
<1>6. ASSUME NEW x \in Exec, Mail(x)
      PROVE  TypeOK'
  <2>1. CASE Mailer!Settle(x)
    BY <1>6, <2>1 DEF Mail, Mailer!Settle, Mailer!Verdict
  <2>2. CASE Mailer!ReportOk(x) \/ Mailer!ReportFailed(x)
    BY <1>6, <2>2 DEF Mail, Mailer!ReportOk, Mailer!ReportFailed, Mailer!Report
  <2> QED
    BY <1>6, <2>1, <2>2 DEF Mail, Mailer!Work
<1> QED
  BY <1>1, <1>2, <1>3, <1>4, <1>5, <1>6 DEF Next, Command

\* The variables of the sessions and of the mailer keep their types.
THEOREM TypeCorrect == Spec => []TypeOK
BY TypeInit, TypeStep, PTL DEF Spec

(***************************************************************************)
(* Sessions                                                                *)
(***************************************************************************)
LEMMA SessionsInit == Init => SessionsKept
<1> SUFFICES ASSUME Init, NEW c \in Conn PROVE SessionInv(c)
  BY DEF SessionsKept
<1>1. /\ phase[c] = "new" /\ asked[c] = <<>> /\ recipients[c] = <<>> /\ txn[c] = 1
  BY DEF Init
<1>2. Suffix(<<>>, <<>>)
  BY EmptySeq, SuffixEmpty
<1>3. Elems(<<>>) = {}
  BY DEF Elems
<1> QED
  BY <1>1, <1>2, <1>3 DEF SessionInv

\* What SessionInv says of a connection is about its own variables.
SameSession(d) ==
  /\ phase'[d] = phase[d]           /\ txn'[d] = txn[d]
  /\ asked'[d] = asked[d]           /\ recipients'[d] = recipients[d]
  /\ accepted'[d] = accepted[d]

LEMMA OtherSessions ==
  ASSUME TypeOK, NEW c \in Conn, Command(c) \/ DataReturns(c), NEW d \in Conn, d # c
  PROVE  SameSession(d)
BY DEF TypeOK, SameSession, Command, DataReturns, Hello, MailFrom, Rcpt, Abort, Data, Close,
     Reset, Goto, session, history

LEMMA SessionCommand ==
  ASSUME TypeOK, NEW c \in Conn, SessionInv(c), Command(c) \/ DataReturns(c)
  PROVE  SessionInv(c)'
<1> USE DEF session, history, Goto, Reset
<1>1. /\ recipients[c] \in Seq(Addr) /\ asked[c] \in Seq(Addr) /\ txn[c] \in Nat
      /\ MaxTxn[c] \in Nat
  BY BoundAssumption DEF TypeOK
<1>2. Suffix(<<>>, recipients[c])
  BY <1>1, SuffixEmpty
<1>3. CASE Hello(c)
  <2>1. /\ phase'[c] = "ready" /\ recipients'[c] = <<>> /\ asked'[c] = <<>>
        /\ txn'[c] = txn[c]
    BY <1>3 DEF Hello, FreshSession, TypeOK, SessionInv
  <2>2. Suffix(<<>>, <<>>)
    BY EmptySeq, SuffixEmpty
  <2>3. Elems(<<>>) = {}
    BY DEF Elems
  <2> QED
    BY <2>1, <2>2, <2>3 DEF SessionInv
<1>4. CASE MailFrom(c)
  <2>1. /\ phase'[c] = "mail" /\ recipients'[c] = recipients[c] /\ asked'[c] = asked[c]
        /\ txn'[c] = txn[c] /\ accepted'[c] = accepted[c]
    BY <1>4 DEF MailFrom, TypeOK
  <2>2. txn[c] \in 1..MaxTxn[c]
    <3>1. txn[c] <= MaxTxn[c] /\ txn[c] # 0
      BY <1>4 DEF MailFrom, SessionInv
    <3> QED
      BY <1>1, <3>1
  <2> QED
    BY <2>1, <2>2 DEF SessionInv
<1>5. ASSUME NEW a \in Addr, Rcpt(c, a) PROVE SessionInv(c)'
  <2>1. /\ phase'[c] = phase[c] /\ phase[c] = "mail" /\ txn'[c] = txn[c]
        /\ recipients'[c] = Append(recipients[c], a)
        /\ asked'[c] = Append(asked[c], a)
        /\ accepted'[c] = accepted[c] \cup {a}
    BY <1>5 DEF Rcpt, Recorded, TypeOK
  <2>2. Suffix(asked'[c], recipients'[c])
    BY <1>1, <2>1, SuffixAppend DEF SessionInv
  <2>3. Elems(recipients'[c]) \subseteq accepted'[c]
    BY <1>1, <2>1, ElemsOfAppend DEF SessionInv
  <2> QED
    BY <2>1, <2>2, <2>3 DEF SessionInv
<1>6. CASE Abort(c) \/ DataReturns(c)
  <2>1. /\ recipients'[c] = recipients[c] /\ accepted'[c] = accepted[c]
        /\ asked'[c] = <<>> /\ txn'[c] = txn[c] + 1 /\ phase'[c] \in {"ready", "closed"}
    BY <1>6 DEF Abort, DataReturns, TypeOK
  <2> QED
    BY <1>1, <1>2, <2>1 DEF SessionInv
<1>7. CASE Data(c) \/ Close(c)
  <2>1. /\ recipients'[c] = recipients[c] /\ accepted'[c] = accepted[c]
        /\ asked'[c] = asked[c] /\ txn'[c] = txn[c]
        /\ phase'[c] = "closed" \/ (phase[c] = "mail" /\ phase'[c] = "data")
    BY <1>7 DEF Data, Close, TypeOK
  <2> QED
    BY <2>1 DEF SessionInv
<1> QED
  BY <1>3, <1>4, <1>5, <1>6, <1>7 DEF Command

LEMMA SessionsStep ==
  ASSUME TypeOK, SessionsKept, [Next]_vars
  PROVE  SessionsKept'
<1>1. ASSUME NEW d \in Conn, SameSession(d) PROVE SessionInv(d)'
  BY <1>1 DEF SessionsKept, SessionInv, SameSession
<1>2. CASE UNCHANGED vars
  BY <1>1, <1>2 DEF SessionsKept, SameSession, vars, session, history
<1>3. ASSUME NEW c \in Conn, Command(c) \/ DataReturns(c)
      PROVE  SessionsKept'
  BY <1>1, <1>3, OtherSessions, SessionCommand DEF SessionsKept
<1>4. ASSUME NEW x \in Exec, Mail(x) PROVE SessionsKept'
  BY <1>1, <1>4 DEF SessionsKept, SameSession, Mail, session, history
<1> QED
  BY <1>2, <1>3, <1>4 DEF Next

(***************************************************************************)
(* What is handed to the mailer, and what the client is told               *)
(***************************************************************************)
LEMMA HandedInit == Init => HandedKept
BY DEF Init, HandedKept, HandedInv, Mailer!Init

\* A suffix has no other elements.
LEMMA ElemsOfSuffix ==
  ASSUME NEW S, NEW t \in Seq(S), NEW s, Suffix(s, t)
  PROVE  Elems(s) \subseteq Elems(t)
<1>1. PICK k \in 0..Len(t) : s = SubSeq(t, k + 1, Len(t))
  BY DEF Suffix
<1>2. Len(t) \in Nat /\ DOMAIN t = 1..Len(t)
  BY LenProperties
<1>3. \A i \in k + 1..Len(t) : t[i] \in Elems(t)
  BY <1>2 DEF Elems
<1>4. s \in Seq(Elems(t))
  BY <1>1, <1>2, <1>3, SubSeqProperties
<1> QED
  BY <1>4, ElemsType

LEMMA HandedStep ==
  ASSUME TypeOK, SessionsKept, HandedKept, [Next]_vars
  PROVE  HandedKept'
<1> USE DEF session, history, mailer
<1>1. CASE UNCHANGED vars
  BY <1>1 DEF vars, HandedKept, HandedInv
\* Most commands have no say in it.
<1>2. ASSUME UNCHANGED <<input, answer, wanted, mailer>>,
             \A c \in Conn : accepted[c] \subseteq accepted'[c]
      PROVE  HandedKept'
  BY <1>2, ExecType DEF HandedKept, HandedInv
<1>3. ASSUME NEW c \in Conn, Command(c), ~Data(c)
      PROVE  HandedKept'
  <2>1. UNCHANGED <<input, answer, wanted, mailer>>
    BY <1>3 DEF Command, Hello, MailFrom, Rcpt, Abort, Close
  <2>2. \A d \in Conn : accepted[d] \subseteq accepted'[d]
    BY <1>3 DEF Command, Hello, MailFrom, Rcpt, Abort, Close, TypeOK
  <2> QED
    BY <1>2, <2>1, <2>2
<1>4. ASSUME NEW c \in Conn, Data(c)
      PROVE  HandedKept'
  <2>1. PICK e \in Exec : e = Current(c)
    BY <1>4, ExecType DEF Data, SessionsKept, SessionInv, Current
  <2>2. PICK rs, as : rs = Elems(recipients[c]) /\ as = Elems(asked[c])
    OBVIOUS
  <2>3. /\ e[1] = c
        /\ report[e] = "idle" /\ answer' = answer /\ settled' = settled
        /\ accepted' = accepted
        /\ report' = [report EXCEPT ![e] = "running"]
        /\ owed' = [owed EXCEPT ![e] = rs]
        /\ wanted' = [wanted EXCEPT ![e] = as]
        /\ \A x \in Exec \ {e} : input'[x] = input[x]
    BY <1>4, <2>1, <2>2 DEF Data, Args, Mailer!Start, Current, TypeOK
  <2>4. as \subseteq rs /\ rs \subseteq accepted[c]
    BY <2>2, ElemsOfSuffix DEF SessionsKept, SessionInv, TypeOK
  <2>5. HandedInv(e)'
    <3>1. wanted'[e] = as /\ owed'[e] = rs /\ report'[e] = "running"
      BY <2>3 DEF TypeOK, Mailer!TypeOK
    <3>2. answer[e] # "ok"
      BY <2>3 DEF HandedKept, HandedInv
    <3> QED
      BY <2>3, <2>4, <3>1, <3>2 DEF HandedInv
  <2>6. ASSUME NEW x \in Exec, x # e PROVE HandedInv(x)'
    <3>1. /\ input'[x] = input[x] /\ wanted'[x] = wanted[x]
          /\ owed'[x] = owed[x] /\ report'[x] = report[x]
      BY <2>3, <2>6 DEF TypeOK, Mailer!TypeOK
    <3>2. HandedInv(x)
      BY DEF HandedKept
    <3> QED
      BY <2>3, <3>1, <3>2 DEF HandedInv
  <2> QED
    BY <2>5, <2>6 DEF HandedKept
<1>5. ASSUME NEW c \in Conn, DataReturns(c)
      PROVE  HandedKept'
  <2> DEFINE e == Current(c)
  <2>1. /\ UNCHANGED <<input, wanted, accepted, mailer>>
        /\ answer' = [answer EXCEPT ![e] = Answer(c)]
    BY <1>5 DEF DataReturns
  <2>2. Answer(c) = "ok" => report[e] = "ok" /\ input[e] = "whole"
    BY DEF Answer
  <2> HIDE DEF e
  <2>3. \A x \in Exec : answer'[x] = "ok" => report[x] = "ok" /\ input[x] = "whole"
    BY <2>1, <2>2 DEF HandedKept, HandedInv, TypeOK
  <2> QED
    BY <2>1, <2>3 DEF HandedKept, HandedInv
<1>6. ASSUME NEW x \in Exec, Mail(x)
      PROVE  HandedKept'
  <2>1. UNCHANGED <<input, answer, wanted, accepted, owed>>
    BY <1>6 DEF Mail, Mailer!Work, Mailer!Settle, Mailer!ReportOk, Mailer!ReportFailed
  <2>2. /\ \A y \in Exec \ {x} : report'[y] = report[y] /\ settled'[y] = settled[y]
        /\ report[x] = "running"
        /\ report'[x] = "ok" => \A a \in owed[x] : settled'[x][a] = "delivered"
    BY <1>6 DEF Mail, Mailer!Work, Mailer!Settle, Mailer!ReportOk, Mailer!ReportFailed,
         TypeOK, Mailer!TypeOK
  <2>3. ASSUME NEW y \in Exec PROVE HandedInv(y)'
    <3>1. CASE y = x
      BY <2>1, <2>2, <3>1 DEF HandedKept, HandedInv
    <3>2. CASE y # x
      BY <2>1, <2>2, <3>2 DEF HandedKept, HandedInv
    <3> QED
      BY <3>1, <3>2
  <2> QED
    BY <2>3 DEF HandedKept
<1> QED
  BY <1>1, <1>3, <1>4, <1>5, <1>6 DEF Next

(***************************************************************************)
(* Results                                                                 *)
(***************************************************************************)

\* The sessions and the hand-over are kept, whatever the clients send and
\* however the mailer fares.
LEMMA Invariance == Spec => [](TypeOK /\ SessionsKept /\ HandedKept)
<1>1. Init => TypeOK /\ SessionsKept /\ HandedKept
  BY TypeInit, SessionsInit, HandedInit
<1>2. TypeOK /\ SessionsKept /\ HandedKept /\ [Next]_vars
        => (TypeOK /\ SessionsKept /\ HandedKept)'
  BY TypeStep, SessionsStep, HandedStep
<1> QED
  BY <1>1, <1>2, PTL DEF Spec

\* A client told 250 need not send again: apsend read its message whole and
\* delivered it to each recipient accepted in the transaction.
THEOREM AnswerIsTrue == Spec => []AnsweredMeansDelivered
<1>1. HandedKept => AnsweredMeansDelivered
  BY DEF HandedKept, HandedInv, AnsweredMeansDelivered
<1> QED
  BY <1>1, Invariance, PTL

\* apsend is given nobody whom Session.Rcpt did not accept on that connection.
THEOREM NobodyElse == Spec => []OnlyAcceptedRecipients
<1>1. HandedKept => OnlyAcceptedRecipients
  BY DEF HandedKept, HandedInv, OnlyAcceptedRecipients
<1> QED
  BY <1>1, Invariance, PTL

\* The recipients of the transaction are the last ones of the Session.
THEOREM NoneDropped == Spec => []AskedIsSuffix
<1>1. SessionsKept => AskedIsSuffix
  BY DEF SessionsKept, SessionInv, Suffix, AskedIsSuffix
<1> QED
  BY <1>1, Invariance, PTL

\* To the mailer, the sessions are a caller as Dispatch allows it: each apsend
\* is started once, for a set of addresses, and otherwise left to itself.
THEOREM MailerIsRespected == Spec => Mailer!SafeSpec
<1>1. Init => Mailer!Init
  BY DEF Init
<1>2. TypeOK /\ SessionsKept /\ [Next]_vars => [Mailer!Next]_(Mailer!vars)
  <2> SUFFICES ASSUME TypeOK, SessionsKept, [Next]_vars
               PROVE  Mailer!Next \/ UNCHANGED Mailer!vars
    OBVIOUS
  <2>1. CASE UNCHANGED vars
    BY <2>1 DEF vars, mailer, Mailer!vars
  <2>2. ASSUME NEW c \in Conn, Command(c) \/ DataReturns(c), ~Data(c)
        PROVE  UNCHANGED Mailer!vars
    BY <2>2 DEF Command, Hello, MailFrom, Rcpt, Abort, Close, DataReturns, mailer,
         Mailer!vars
  <2>3. ASSUME NEW c \in Conn, Data(c)
        PROVE  Mailer!Next
    <3>1. Current(c) \in Exec
      BY <2>3, ExecType DEF Data, SessionsKept, SessionInv, Current
    <3>2. Elems(Args(c)) \in SUBSET Addr
      BY ElemsType DEF TypeOK, Args
    <3> QED
      BY <2>3, <3>1, <3>2 DEF Data, Mailer!Start, Mailer!Next
  <2>4. ASSUME NEW x \in Exec, Mail(x)
        PROVE  Mailer!Next
    BY <2>4 DEF Mail, Mailer!Next
  <2> QED
    BY <2>1, <2>2, <2>3, <2>4 DEF Next
<1> QED
  BY <1>1, <1>2, Invariance, PTL DEF Spec, Mailer!SafeSpec
=============================================================================
