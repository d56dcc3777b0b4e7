------------------------- MODULE GameServerAuthority -------------------------
(***************************************************************************)
(* GameServer implements Authority: sessions are members, the host leads,  *)
(* and the entities created since the process started are claimed by their *)
(* owner.  Entities loaded from a save are nobody's: their owner field is  *)
(* an id of an earlier run.                                                *)
(***************************************************************************)
EXTENDS GameServer

Claimed == {e \in DOMAIN entities : ~entities[e].restored}

Auth == INSTANCE Authority WITH
    Members <- PlayerId, Entities <- EntityId, None <- 0,
    members <- DOMAIN players, leader <- host,
    holder <- [e \in Claimed |-> entities[e].owner]

\* Every behaviour of the server is one of Authority: however slots, packets,
\* kicks, crashes and restarts interleave, an outside observer sees members that
\* join and leave with all they own, one leader, and entities that never change
\* hands (HandleHandshake, HandleDisconnect, the spawn and build handlers).
ImplementsAuthority == Auth!Spec
=============================================================================
