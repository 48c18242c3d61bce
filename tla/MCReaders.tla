----------------------------- MODULE MCReaders -----------------------------
(***************************************************************************)
(* An instance for TLC of the three parts that people read with: the files  *)
(* of lemmy/fs (LemmyFS), a stream of posts (Stream) and acme windows       *)
(* (Windows).  They share nothing, so that a behaviour is one of either.    *)
(* Open files share nothing either, so that one is enough.                 *)
(***************************************************************************)
EXTENDS LemmyFS, Stream, Windows

CONSTANTS h1, p1, p2

VARIABLE reader

\* Under a post: nothing, roots, answers whose parents are listed or not, newest
\* first, as the instance is asked to list them, and in other orders.
MCListings ==
  LET c(id, path) == [id |-> id, path |-> path]
      c1 == c(1, <<0, 1>>)
      c2 == c(2, <<0, 1, 2>>)
      c3 == c(3, <<0, 1, 2, 3>>)
      c4 == c(4, <<0, 1, 4>>)
      c5 == c(5, <<0, 5>>)
  IN  {<<>>, <<c5, c4, c3, c2, c1>>, <<c4, c1, c3, c2>>, <<c5, c3, c2>>, <<c4, c3, c1>>}

ReadersInit == /\ reader \in {"files", "stream", "windows"}
               /\ FSInit /\ StreamInit /\ Init

Files   == FSNext     /\ UNCHANGED <<streamVars, vars>>
Posted  == StreamNext /\ UNCHANGED <<fsVars, vars>>
Acme    == Next       /\ UNCHANGED <<fsVars, streamVars>>
ReadersNext == \/ reader = "files"   /\ Files  /\ UNCHANGED reader
               \/ reader = "stream"  /\ Posted /\ UNCHANGED reader
               \/ reader = "windows" /\ Acme   /\ UNCHANGED reader

Readers == /\ ReadersInit /\ [][ReadersNext]_<<reader, fsVars, streamVars, vars>>
           /\ StreamFairness
           /\ reader = "windows" => Fairness
=============================================================================
