----------------------------- MODULE MCLemmyFS -----------------------------
(***************************************************************************)
(* An instance of LemmyFS for TLC, with one open file.                     *)
(***************************************************************************)
EXTENDS LemmyFS

CONSTANT h1
=============================================================================
