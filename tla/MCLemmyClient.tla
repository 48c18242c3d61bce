---------------------------- MODULE MCLemmyClient ----------------------------
(***************************************************************************)
(* Instances of LemmyClient for TLC: one community, known by two names, and *)
(* one post.                                                               *)
(***************************************************************************)
EXTENDS LemmyClient, TLC

CONSTANTS w1, w2, p1, golang, golangHere

MCCanon == (golang :> golang) @@ (golangHere :> golang)
Callers == Permutations({w1, w2})
=============================================================================
