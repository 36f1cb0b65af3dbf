---------------------------- MODULE MCDiscovery ----------------------------
(***************************************************************************)
(* Small instances of Discovery.  With HalfRange = 8 and Second = 4 a      *)
(* max-age of 2 already overflows, 5 wraps to a positive lifetime, and 8   *)
(* does not parse.                                                         *)
(***************************************************************************)
EXTENDS Discovery

MCValues == {-1, 0, 1, 2, 5, 8}

(* A host with and without a path, and up to two trailing slashes; and     *)
(* another host.                                                           *)
MCURLs == {<<<<"other", "">>, 0>>,
           <<<<"as", "">>, 0>>, <<<<"as", "">>, 1>>, <<<<"as", "">>, 2>>,
           <<<<"as", "/uma">>, 0>>, <<<<"as", "/uma">>, 1>>}

OneURL == {<<<<"as", "">>, 0>>}

Strict == [m \in Methods |-> Behaviour("refused", OpsOf(m))]
Lax    == [m \in Methods |-> Behaviour("accepted", OpsOf(m))]
Absent == [m \in Methods |-> Behaviour("not implemented", {})]

(* examples/as-rs-demo/main.go: create only, and 501 for OpUnknown.        *)
Demo == [Strict EXCEPT !["resource_set"] = Behaviour("not implemented", {"create"})]

(* conformance/scenario_test.go: OpUnknown is refused; here, create only.  *)
Partial == [Absent EXCEPT !["resource_set"] = Behaviour("refused", {"create"})]

(* server/partial_impl_e2e_test.go: two methods overridden.                *)
TokenIntrospect ==
  [Absent EXCEPT !["token"] = Lax["token"], !["introspect"] = Lax["introspect"]]

MCImplementations == {Strict, Lax, Absent, Demo, Partial, TokenIntrospect}

OneImplementation == {Strict}
=============================================================================
