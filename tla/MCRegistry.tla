----------------------------- MODULE MCRegistry -----------------------------
(***************************************************************************)
(* The registry with nine registrations under three ids: prefixes of both  *)
(* policies, an exact key and predicates, one id written with a space.     *)
(***************************************************************************)
EXTENDS Registry

MCNormalizeRouteID == "x" :> "x" @@ "x_" :> "x" @@ "y" :> "y" @@ "z" :> "z" @@ "_" :> ""

\* A registration.
S(raw, priority, kind, key, policy) ==
    [raw |-> raw, priority |-> priority, kind |-> kind, key |-> key, policy |-> policy]

MCSpecs ==
    {S("x", 1, "prefix", <<"a">>, "longest"),
     S("x_", 1, "prefix", <<"a">>, "priority"),
     S("x", 1, "predicate", <<"b">>, "none"),
     S("y", 0, "prefix", <<"a", "b">>, "longest"),
     S("y", 0, "prefix", <<"a", "b">>, "priority"),
     S("z", 1, "exact", <<"a", "b">>, "none"),
     S("z", 1, "exact", <<"a">>, "none"),
     S("z", 1, "prefix", <<"a">>, "longest"),
     S("_", 0, "predicate", <<>>, "none")}

MCKeys == {<<"a">>, <<"b">>, <<"a", "b">>}
=============================================================================
