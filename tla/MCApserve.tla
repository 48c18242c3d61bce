----------------------------- MODULE MCApserve -----------------------------
(***************************************************************************)
(* An instance of Apserve for TLC.  otl is served, root is not.  The        *)
(* activities are those the servers of the fediverse send: a Note, a Page   *)
(* without its name, both in a Create, an edit by itself and in an Announce *)
(* as Lemmy sends it, a boost by reference as Mastodon sends it, answers to *)
(* a Follow, and what is ignored.                                          *)
(***************************************************************************)
EXTENDS Apserve, TLC

CONSTANTS q1, q2, otl, root,
          note, undated, page, fullpage, gone, like, accept, article,
          created, edited, announced, boost, nested, hollow, pushed

MCActivity == {note, undated, page, fullpage, gone, like, accept, article,
               created, edited, announced, boost, nested, hollow, pushed}

MCType == (note :> "Note") @@ (undated :> "Note") @@ (page :> "Page")
  @@ (fullpage :> "Page") @@ (gone :> "Note") @@ (like :> "Like")
  @@ (accept :> "Accept") @@ (article :> "Article")
  @@ (created :> "Create") @@ (edited :> "Update")
  @@ (announced :> "Announce") @@ (boost :> "Announce")
  @@ (nested :> "Create") @@ (hollow :> "Create")
  @@ (pushed :> "Announce")

\* nested holds the edit of a page, announced the creation of a note.
MCObject == [a \in MCActivity |->
  CASE a = created   -> note
    [] a = edited    -> page
    [] a = nested    -> edited
    [] a = announced -> created
    [] a = pushed    -> edited
    [] OTHER         -> Nothing]
MCFetched == [a \in MCActivity |-> IF a = page THEN fullpage ELSE Nothing]

\* Everything to a served user; what fails the checks, with a note in it.
MCPost ==
  [isPost : {TRUE}, isActivity : {TRUE}, user : {otl}, body : MCActivity \cup {Nothing}]
  \cup {p \in [isPost : BOOLEAN, isActivity : BOOLEAN, user : {otl, root},
               body : {note}] : ~p.isPost \/ ~p.isActivity \/ p.user = root}
=============================================================================
