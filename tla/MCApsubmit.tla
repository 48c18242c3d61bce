----------------------------- MODULE MCApsubmit -----------------------------
(***************************************************************************)
(* An instance of Apsubmit for TLC: WebFinger knows ann and dan, not nil.  *)
(***************************************************************************)
EXTENDS Apsubmit, TLC

CONSTANTS c1, c2, ann, dan, nil

\* c1 is used for a second transaction, beside the only one of c2.
MCMaxTxn  == (c1 :> 2) @@ (c2 :> 1)
MCMaxRcpt == (c1 :> 2) @@ (c2 :> 1)
=============================================================================
