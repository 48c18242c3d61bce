------------------------------- MODULE Stream -------------------------------
(***************************************************************************)
(* package mastodon, stream.go: posts from a server's event stream, read as *)
(* a bufio.Scanner is read: Next, then Post, and Err at the end.           *)
(*                                                                         *)
(* A line is an empty one, a comment, an event, a field of some other name, *)
(* or data that holds a post or does not.  The scanner is external: it      *)
(* gives the last line even if the connection broke in the middle of it,   *)
(* and it gives up at a line longer than its buffer, which it then gives    *)
(* the beginning of if it is asked again.                                  *)
(***************************************************************************)
EXTENDS Sequences, Integers

CONSTANTS
  Post,      \* posts the server may send
  NoPost,    \* the zero Post
  MaxLines   \* bound: lines the server sends

\* Lines that are read over.
Kept  == {"blank", "comment", "update"}
\* Another event, a field of another name or none, data that is no JSON.
Wrong == {"other", "field", "garbled"}
Line  == [kind : Kept \cup Wrong \cup {"long"}, post : {NoPost}]
         \cup [kind : {"data"}, post : Post]

\* What a line may be read as when its end is missing.
Cut(l) == [kind : CASE l.kind = "blank"             -> {"blank"}
                    [] l.kind = "comment"           -> {"comment"}
                    [] l.kind \in {"update", "other"} -> {"other", "field"}
                    [] l.kind = "field"             -> {"field"}
                    [] OTHER                        -> {"garbled", "field"},
           post : {NoPost}]

VARIABLES
  lines,     \* lines sent and not yet scanned
  conn,      \* "open", "over" once the server has ended the stream or the scanner
             \* has given up, "broken", "closed" by Next
  calling,   \* Next is running
  result,    \* what it returned: "post" is true, the others false
  err,       \* st.err is not nil
  post,      \* st.post
  sent,      \* history: the lines the server sent
  seen,      \* history: the lines scanned
  announced  \* history: posts that Next announced, as Post gave them

streamVars == <<lines, conn, calling, result, err, post, sent, seen, announced>>

StreamTypeOK ==
  /\ lines \in Seq(Line) /\ sent \in Seq(Line) /\ seen \in Seq(Line)
  /\ conn \in {"open", "over", "broken", "closed"}
  /\ calling \in BOOLEAN /\ err \in BOOLEAN
  /\ result \in {"none", "post", "end", "stop"}
  /\ post \in Post \cup {NoPost}
  /\ announced \in Seq(Post)

\* Watch; a status of 400 or above makes no Stream.
StreamInit ==
  /\ lines = <<>> /\ sent = <<>> /\ seen = <<>> /\ announced = <<>>
  /\ conn = "open"
  /\ calling = FALSE /\ err = FALSE
  /\ result = "none"
  /\ post = NoPost

(***************************************************************************)
(* The server and the connection                                           *)
(***************************************************************************)
Send ==
  /\ conn = "open"
  /\ Len(sent) < MaxLines
  /\ \E l \in Line : lines' = Append(lines, l) /\ sent' = Append(sent, l)
  /\ UNCHANGED <<conn, calling, result, err, post, seen, announced>>

\* The server ends the stream: what it sent arrives.
Finish ==
  /\ conn = "open"
  /\ conn' = "over"
  /\ UNCHANGED <<lines, calling, result, err, post, sent, seen, announced>>

\* What may be left of lines on their way, or unread, when there is no more to be
\* read: the first of them, perhaps none, and the last of these perhaps cut.
Remains(ls) ==
  {SubSeq(ls, 1, k) : k \in 0..Len(ls)}
  \cup UNION {{Append(SubSeq(ls, 1, k - 1), l) : l \in Cut(ls[k])} : k \in 1..Len(ls)}

\* The connection breaks.  Scan returns false as it does at an end, and Next does
\* not ask the scanner for its error.
Break ==
  /\ conn = "open"
  /\ conn' = "broken"
  /\ lines' \in Remains(lines)
  /\ UNCHANGED <<calling, result, err, post, sent, seen, announced>>

(***************************************************************************)
(* Next                                                                    *)
(***************************************************************************)
\* The caller asks again after the end, too: nothing forbids it.
Call ==
  /\ ~calling
  /\ calling' = TRUE
  /\ result' = "none"
  /\ UNCHANGED <<lines, conn, err, post, sent, seen, announced>>

Return(what) == calling' = FALSE /\ result' = what

\* Scan gives a line; Next calls itself for another if that means nothing.
Skips(l) == l.kind \in Kept
Skip ==
  /\ calling /\ lines # <<>>
  /\ Skips(Head(lines))
  /\ lines' = Tail(lines)
  /\ seen'  = Append(seen, Head(lines))
  /\ UNCHANGED <<conn, calling, result, err, post, sent, announced>>

\* A post.
Decoded(l) == l.kind = "data"
\* Mutant of Announces: Next returns for the event line, too.
AnnouncesEvent(l) == l.kind \in {"data", "update"}
Announces(l) == Decoded(l)
Take ==
  /\ calling /\ lines # <<>>
  /\ Announces(Head(lines))
  /\ lines' = Tail(lines)
  /\ seen'  = Append(seen, Head(lines))
  /\ post'  = Head(lines).post
  /\ announced' = Append(announced, post')
  /\ Return("post")
  /\ UNCHANGED <<conn, err, sent>>

\* Mutant of Errs: a line without a field Next knows ends it without an error.
ErrsIfKnown(l) == l.kind \in {"other", "garbled"}
Errs(l) == l.kind \in Wrong
\* Anything else sets err and closes the body: what the scanner has buffered of
\* it can be scanned still.
Refuse ==
  /\ calling /\ lines # <<>>
  /\ Head(lines).kind \in Wrong
  /\ seen' = Append(seen, Head(lines))
  /\ err'  = (err \/ Errs(Head(lines)))
  /\ conn' = "closed"
  /\ lines' \in Remains(Tail(lines))
  /\ Return("stop")
  /\ UNCHANGED <<post, sent, announced>>

\* Mutant of Over: the end of the stream is waited out.
OverIfClosed == lines = <<>> /\ conn = "closed"
\* Scan returns false: nothing is left, or the line is too long.
Over == lines = <<>> /\ conn # "open"
End ==
  /\ calling
  /\ \/ Over /\ UNCHANGED <<lines, conn>>
     \/ /\ lines # <<>> /\ Head(lines).kind = "long"
        /\ conn' = IF conn = "open" THEN "over" ELSE conn
        /\ \E l \in Cut(Head(lines)) : lines' = <<l>>
  /\ Return("end")
  /\ UNCHANGED <<err, post, sent, seen, announced>>

Run  == Skip \/ Take \/ Refuse \/ End
StreamNext == Send \/ Finish \/ Break \/ Call \/ Run

\* Whoever called Next is running it; the server and the caller may stop.
StreamFairness == WF_streamVars(Run)
StreamSpec == StreamInit /\ [][StreamNext]_streamVars /\ StreamFairness

(***************************************************************************)
(* Properties                                                              *)
(***************************************************************************)

\* The posts of the lines of s that hold one, in their order.
Posts(s) ==
  LET posts[i \in 0..Len(s)] ==
        IF i = 0 THEN <<>>
        ELSE IF Decoded(s[i]) THEN Append(posts[i - 1], s[i].post) ELSE posts[i - 1]
  IN  posts[Len(s)]

\* Whatever comes between posts, and however the caller goes on after a refusal
\* or the end, each post scanned is announced once and in order; Post is the last
\* one announced, and not one that Next has refused.
PostsInOrder ==
  /\ announced = Posts(seen)
  /\ post = IF announced = <<>> THEN NoPost ELSE announced[Len(announced)]

\* When Next returns false and Err is nil, what was announced are the posts of the
\* first lines the server sent: of all of them if it ended the stream itself.  Only
\* a broken connection, or a line too long for the scanner, hides the rest, and
\* nothing hides a post in the middle.
SilentEnd ==
  result = "end" /\ ~err =>
    \E i \in 0..Len(sent) :
      /\ announced = Posts(SubSeq(sent, 1, i))
      /\ \/ i = Len(sent)
         \/ conn = "broken"
         \/ i > 0 /\ sent[i].kind = "long"

\* Next returns once there is something to tell, however many lines say nothing:
\* a post, an error or the end.
NextReturns ==
  calling /\ (conn # "open" \/ \E i \in DOMAIN lines : ~Skips(lines[i])) ~> ~calling
=============================================================================
