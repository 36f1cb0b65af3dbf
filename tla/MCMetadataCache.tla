-------------------------- MODULE MCMetadataCache --------------------------
(* Small instances of MetadataCache for TLC.                               *)
EXTENDS MetadataCache, TLC

CONSTANTS c1, c2

MCCallers == {c1, c2}

AS    == <<"as", 0>>
ASDir == <<"as", 1>>
Rogue == <<"rogue", 0>>

MCIssuers == {ASDir, Rogue}

(* No max-age; one second, after another directive; zero.                  *)
MCHeaders == {<<>>, <<Other, MaxAge(1)>>, <<MaxAge(0)>>}

Symm == Permutations(MCCallers)
=============================================================================
