-------------------------- MODULE MCCorrespondence --------------------------
(***************************************************************************)
(* An instance of Correspondence for TLC.  otl and bowie are users of this *)
(* system, bowie with followers.  ann is elsewhere and has followers; the  *)
(* group tech shares its address with the person techie, as happens on     *)
(* Lemmy, and WebFinger finds techie; bot's address does not resolve.      *)
(***************************************************************************)
EXTENDS Correspondence, TLC

CONSTANTS otl, bowie, ann, tech, techie, bot, annF, bowieF, techF,
          otlAddr, bowieAddr, annAddr, techAddr, botAddr

MCActor == {otl, bowie, ann, tech, techie, bot}
MCFollowers == [a \in MCActor |-> CASE a = ann   -> annF
                                    [] a = bowie -> bowieF
                                    [] a = tech  -> techF
                                    [] OTHER     -> NoID]
MCAddress == {otlAddr, bowieAddr, annAddr, techAddr, botAddr}
MCAddressOf == (otl :> otlAddr) @@ (bowie :> bowieAddr) @@ (ann :> annAddr)
  @@ (tech :> techAddr) @@ (techie :> techAddr) @@ (bot :> botAddr)
MCResolves == (otlAddr :> otl) @@ (bowieAddr :> bowie) @@ (annAddr :> ann)
  @@ (techAddr :> techie) @@ (botAddr :> NoID)

\* A mention with copies to followers; one to a group's followers, which its
\* mail does not show, and to a person and hers; a post to the group; and one
\* with a copy to a bot.
MCNotes ==
  {[author |-> ann, to |-> <<Public, otl>>, cc |-> <<annF>>],
   [author |-> ann, to |-> <<techF, otl>>,  cc |-> <<bowie, bowieF>>],
   [author |-> ann, to |-> <<tech, techF>>, cc |-> <<Public, otl>>],
   [author |-> ann, to |-> <<otl>>,         cc |-> <<bot>>]}

MCDrafts ==
  {[to |-> <<PersonBox(ann)>>, cc |-> <<FollowersBox(bowie), PersonBox(bowie)>>],
   [to |-> <<PersonBox(bowie), PersonBox(otl)>>, cc |-> <<FollowersBox(ann)>>],
   [to |-> <<PersonBox(techie)>>, cc |-> <<>>]}
=============================================================================
