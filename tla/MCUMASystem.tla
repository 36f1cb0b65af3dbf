---------------------------- MODULE MCUMASystem ----------------------------
(* Two routes of one resource, of which one needs more scopes.             *)
EXTENDS UMASystem, TLC

CONSTANTS alice, bob, h1, h2

MCParties  == {alice, bob}
MCHandlers == {h1, h2}

View == [resource |-> "album", scopes |-> {"view"}]
Edit == [resource |-> "album", scopes |-> {"view", "edit"}]

MCRoutes == {View, Edit}
MCPerms == {View, Edit}

MCVisits == (alice :> 2) @@ (bob :> 1)
=============================================================================
