----------------------- MODULE MCAuthorizationServer -----------------------
(* Two requests that are valid, on two resources, and one without scopes.  *)
EXTENDS AuthorizationServer

CONSTANTS h1, h2

MCTwo == {h1, h2}

Album  == [resource |-> "album",  scopes |-> {"view"}]
Diary  == [resource |-> "diary",  scopes |-> {"view", "edit"}]
Hollow == [resource |-> "album",  scopes |-> {}]

MCPerms == {Album, Diary, Hollow}
=============================================================================
