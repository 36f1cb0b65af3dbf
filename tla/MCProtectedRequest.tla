------------------------ MODULE MCProtectedRequest ------------------------
(***************************************************************************)
(* Routes of one resource that require one scope, two, none, or one whose  *)
(* name the challenge cannot carry; values with and without a quote, and   *)
(* values that end like a parameter.                                       *)
(***************************************************************************)
EXTENDS ProtectedRequest

MCRoutes == {[rsid |-> "album", scopes |-> s] :
               s \in {<<>>, <<"view">>, <<"view", "edit">>, <<"view", "ticket">>,
                      <<"quote">>}}

MCHeaders == {<<>>, <<"Bearer">>, <<"Bearer", "space">>, <<"Bearer", "space", "rpt">>,
              <<"bearer", "space", "rpt">>, <<"Bearer", "space", "rpt", "space">>,
              <<"Bearer", "rpt", "space", "rpt">>, <<"Basic", "space", "rpt">>,
              <<"Bearer", "space", "space", "rpt">>}

Perm(rsid, scopes) == [rsid |-> rsid, scopes |-> scopes]

MCGranted == {{}, {Perm("album", {"view"})}, {Perm("album", {"view", "edit"})},
              {Perm("album", {"view"}), Perm("album", {"edit"})},
              {Perm("diary", {"view", "edit", "ticket", "quote"})}}

MCTickets == {<<"text">>, <<"quote">>, <<"text", "scope">>, <<"ticket">>}

MCURLs == {<<"text">>, <<"text", "ticket">>, <<"text", "scope">>, <<"quote">>}

MCRealms == {<<>>, <<"text">>, <<"as_uri">>, <<"text", "ticket">>, <<"text", "scope">>,
             <<"ticket", "quote", "text">>}
=============================================================================
