------------------------------ MODULE LemmyFS ------------------------------
(***************************************************************************)
(* package fs of lemmy: communities, their posts and the comments on those  *)
(* as the files of an io/fs.FS.  The root is a dummy, which is given its    *)
(* listing when it is opened; every other file is an lFile, which asks the  *)
(* instance for its own at the first ReadDir.  Each open file has an offset *)
(* into its listing.  What the instance answers is not constrained: the     *)
(* module LemmyClient says which part of it comes from the cache.           *)
(***************************************************************************)
EXTENDS Integers, Sequences

CONSTANTS
  Handle,   \* files a program may hold open at a time
  MaxList,  \* bound: entries of a directory
  MaxCount  \* bound: counts that ReadDir is called with

ASSUME BoundAssumption == MaxList \in Nat /\ MaxCount \in Nat

\* Depth of a name: the root, a community, a post, a post's text or a comment.
Depth == 0..3
Kind  == {"none", "dummy", "directory", "plain"}
KindAt(d) == CASE d = 0 -> "dummy" [] d \in {1, 2} -> "directory" [] d = 3 -> "plain"

VARIABLES
  fsUp,    \* no ReadDir has panicked
  kind,    \* kind[h]: what was opened, if anything
  buf,     \* buf[h]: buf is not nil
  listed,  \* listed[h]: dirinfo is not nil
  length,  \* length[h]: entries in dirinfo; entry i is the number i
  entryp,  \* entryp[h]: dirinfo.entryp
  said,    \* said[h]: what the last call returned
  given,   \* history: given[h], the entries ReadDir returned from this listing
  sized    \* history: sized[h], whether it was called with a count for it

file == <<kind, buf, listed, length, entryp>>
fsVars == <<fsUp, file, said, given, sized>>

Said == {"ok", "eof", "invalid", "absent", "failed", "closed"}

FSTypeOK ==
  /\ fsUp   \in BOOLEAN
  /\ kind   \in [Handle -> Kind]
  /\ buf    \in [Handle -> BOOLEAN]
  /\ listed \in [Handle -> BOOLEAN]
  /\ length \in [Handle -> 0..MaxList]
  /\ entryp \in [Handle -> 0..MaxList + MaxCount]
  /\ said   \in [Handle -> Said]
  /\ given  \in [Handle -> Seq(1..MaxList)]
  /\ sized  \in [Handle -> BOOLEAN]

FSInit ==
  /\ fsUp   = TRUE
  /\ kind   = [h \in Handle |-> "none"]
  /\ buf    = [h \in Handle |-> FALSE]
  /\ listed = [h \in Handle |-> FALSE]
  /\ length = [h \in Handle |-> 0]
  /\ entryp = [h \in Handle |-> 0]
  /\ said   = [h \in Handle |-> "ok"]
  /\ given  = [h \in Handle |-> <<>>]
  /\ sized  = [h \in Handle |-> FALSE]

Say(h, what) == said' = [said EXCEPT ![h] = what]

\* new(dirInfo), filled with n entries.
NewList(h, n) == /\ listed' = [listed EXCEPT ![h] = TRUE]
                 /\ length' = [length EXCEPT ![h] = n]
                 /\ entryp' = [entryp EXCEPT ![h] = 0]
                 /\ given'  = [given EXCEPT ![h] = <<>>]
                 /\ sized'  = [sized EXCEPT ![h] = FALSE]
\* The dirInfo is dropped, or the file never had one.
NoList(h) == /\ listed' = [listed EXCEPT ![h] = FALSE]
             /\ length' = [length EXCEPT ![h] = 0]
             /\ entryp' = [entryp EXCEPT ![h] = 0]
             /\ given'  = [given EXCEPT ![h] = <<>>]
             /\ sized'  = [sized EXCEPT ![h] = FALSE]
SameList  == UNCHANGED <<listed, length, entryp, given, sized>>

(***************************************************************************)
(* FS.Open                                                                 *)
(***************************************************************************)
\* A bad path, a name too deep, or a lookup on the way to it that finds nothing
\* or fails: no file.
OpenFails(h) ==
  /\ fsUp /\ kind[h] = "none"
  /\ \E why \in {"invalid", "absent", "failed"} : Say(h, why)
  /\ UNCHANGED <<fsUp, kind, buf>> /\ SameList

\* openRoot lists the communities; below it, each element of the name has been
\* looked up by itself.
Open(h) ==
  /\ fsUp /\ kind[h] = "none"
  /\ \E d \in Depth :
       /\ kind' = [kind EXCEPT ![h] = KindAt(d)]
       /\ buf'  = [buf EXCEPT ![h] = d > 0]
       /\ \/ d = 0 /\ \E n \in 0..MaxList : NewList(h, n)
          \/ d > 0 /\ NoList(h)
  /\ Say(h, "ok")
  /\ UNCHANGED fsUp

(***************************************************************************)
(* ReadDir                                                                 *)
(***************************************************************************)
\* Entries there may be: those listed already or, at the first ReadDir of a
\* directory that is an lFile, those the instance now answers with.
Lengths(h) == IF listed[h] THEN {length[h]}
              ELSE IF kind[h] = "directory" THEN 0..MaxList ELSE {}

\* dirInfo.ReadDir(n) with rest entries left: d.entries[d.entryp:] is beyond the
\* end, or entries[:n-1] is with n = 0.
Panics(rest, n) == rest < 0 \/ (n = 0 /\ rest > 0)

\* Mutant of Batch: a negative count is taken for a count.
BatchOfAny(rest, n) == IF n >= rest THEN rest ELSE n - 1
\* How many of the rest it returns: one too few when the count cuts them short.
Batch(rest, n) == IF n < 0 \/ n >= rest THEN rest ELSE n - 1

\* Mutant of Advance: only a count moves the offset.
AdvanceByCount(p, m, n) == IF n < 0 THEN p ELSE p + n
\* The offset afterwards: it goes by the count, past the end too.
Advance(p, m, n) == IF n < 0 THEN m ELSE p + n

Numbers(first, k) == [i \in 1..k |-> first + i]

ReadDir(h, n) ==
  /\ fsUp
  /\ \E m \in Lengths(h) :
       LET rest == m - entryp[h]
       IN /\ ~Panics(rest, n)
          /\ given'  = [given EXCEPT ![h] = @ \o Numbers(entryp[h], Batch(rest, n))]
          /\ entryp' = [entryp EXCEPT ![h] = Advance(@, m, n)]
          /\ length' = [length EXCEPT ![h] = m]
          /\ Say(h, IF n >= 0 /\ n >= rest THEN "eof" ELSE "ok")
  /\ listed' = [listed EXCEPT ![h] = TRUE]
  /\ sized'  = [sized EXCEPT ![h] = @ \/ n >= 0]
  /\ UNCHANGED <<fsUp, kind, buf>>

Panic(h, n) ==
  /\ fsUp
  /\ \E m \in Lengths(h) : Panics(m - entryp[h], n)
  /\ fsUp' = FALSE
  /\ sized' = [sized EXCEPT ![h] = @ \/ n >= 0]
  /\ UNCHANGED <<file, said, given>>

\* Posts or Comments fails, or the file is no directory.  The new dirInfo stays,
\* so that the next ReadDir finds an empty directory.
ReadDirFails(h) ==
  /\ fsUp /\ kind[h] \in {"directory", "plain"} /\ ~listed[h]
  /\ NewList(h, 0)
  /\ Say(h, "failed")
  /\ UNCHANGED <<fsUp, kind, buf>>

(***************************************************************************)
(* Read and Close                                                          *)
(***************************************************************************)
\* After a Close too.
Read(h) ==
  /\ fsUp /\ kind[h] # "none"
  /\ buf' = [buf EXCEPT ![h] = TRUE]
  /\ Say(h, "ok")
  /\ UNCHANGED <<fsUp, kind>> /\ SameList

\* A dummy keeps its listing and its place in it.
CloseDummy(h) ==
  /\ fsUp /\ kind[h] = "dummy"
  /\ buf' = [buf EXCEPT ![h] = FALSE]
  /\ Say(h, "ok")
  /\ UNCHANGED <<fsUp, kind>> /\ SameList

\* An lFile that has not been listed cannot be closed.
CloseRefused(h) ==
  /\ fsUp /\ kind[h] \in {"directory", "plain"}
  /\ ~buf[h] \/ ~listed[h]
  /\ Say(h, "closed")
  /\ UNCHANGED <<fsUp, kind, buf>> /\ SameList

Close(h) ==
  /\ fsUp /\ kind[h] \in {"directory", "plain"}
  /\ buf[h] /\ listed[h]
  /\ buf' = [buf EXCEPT ![h] = FALSE]
  /\ NoList(h)
  /\ Say(h, "ok")
  /\ UNCHANGED <<fsUp, kind>>

FSNext == \E h \in Handle :
            \/ OpenFails(h) \/ Open(h) \/ ReadDirFails(h) \/ Read(h)
            \/ CloseDummy(h) \/ CloseRefused(h) \/ Close(h)
            \/ \E n \in -1..MaxCount : ReadDir(h, n) \/ Panic(h, n)

FSSpec == FSInit /\ [][FSNext]_fsVars

(***************************************************************************)
(* Properties                                                              *)
(***************************************************************************)

\* However counted calls, whole calls and calls after the end follow each other,
\* the entries come in the order of one listing, none twice, and only those
\* before the offset.
InOrder ==
  \A h \in Handle :
    /\ \A i, j \in DOMAIN given[h] : i < j => given[h][i] < given[h][j]
    /\ \A i \in DOMAIN given[h] : given[h][i] <= length[h] /\ given[h][i] <= entryp[h]

\* Who asks for whole directories (fs.WalkDir and fs.ReadDir do) is given every
\* entry of a listing, once, and never meets the panic: that takes a count.
WalkSeesAll ==
  /\ \A h \in Handle : (listed[h] /\ ~sized[h]) =>
       /\ given[h] = Numbers(0, entryp[h])
       /\ entryp[h] \in {0, length[h]}
  /\ ~fsUp => \E h \in Handle : sized[h]

\* lemmy/fs/doc.go: "FS satisfies io/fs.FS", and TestFS checks that reading a
\* directory some entries at a time gives them all: at io.EOF none is missing.
CountedSeesAll ==
  \A h \in Handle : (listed[h] /\ said[h] = "eof") => Len(given[h]) = length[h]
=============================================================================
