------------------------------- MODULE MCWeb --------------------------------
(***************************************************************************)
(* Parts of the web process that share no state, checked in one run: a     *)
(* behaviour is a behaviour of one of them, and the others rest.           *)
(***************************************************************************)
EXTENDS Accounts, RateLimits, Settings, PosterCache, Outbound, TLC

VARIABLE part

MCVars == <<part, accountVars, actorVars, bucketVars, settingVars, posterVars, outboundVars>>

MCInit ==
    /\ part \in {"accounts", "admin limits", "network limits", "settings", "posters", "calls"}
    /\ AccountsInit /\ ActorInit /\ BucketInit /\ SettingsInit /\ PosterInit /\ OutboundInit

MCNext ==
    /\ UNCHANGED part
    /\ \/ /\ part = "accounts" /\ AccountsNext
          /\ UNCHANGED <<actorVars, bucketVars, settingVars, posterVars, outboundVars>>
       \/ /\ part = "admin limits" /\ ActorNext
          /\ UNCHANGED <<accountVars, bucketVars, settingVars, posterVars, outboundVars>>
       \/ /\ part = "network limits" /\ BucketNext
          /\ UNCHANGED <<accountVars, actorVars, settingVars, posterVars, outboundVars>>
       \/ /\ part = "settings" /\ SettingsNext
          /\ UNCHANGED <<accountVars, actorVars, bucketVars, posterVars, outboundVars>>
       \/ /\ part = "posters" /\ PosterNext
          /\ UNCHANGED <<accountVars, actorVars, bucketVars, settingVars, outboundVars>>
       \/ /\ part = "calls" /\ OutboundNext
          /\ UNCHANGED <<accountVars, actorVars, bucketVars, settingVars, posterVars>>

MCSpec == MCInit /\ [][MCNext]_MCVars

\* Requests are interchangeable: no definition tells one from another.
WebSymmetry == Permutations(Workers \union Writers \union Viewers)

\* The first two clients share a network.
BucketOfDef == [a \in Addresses |-> IF a \in {"c1", "c2"} THEN "n1" ELSE a]
=============================================================================
