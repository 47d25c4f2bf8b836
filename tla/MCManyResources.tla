---------------------------- MODULE MCManyResources ----------------------------
(***************************************************************************)
(* Resources for TLC: a and b share their app id across two namespaces, d  *)
(* shares it with a in one, c is alone with its own, and m has no app id.  *)
(***************************************************************************)
EXTENDS ManyResources, TLC

CONSTANTS a, b, c, d, m

MCName == (a :> <<"brg", "frontend">>) @@ (b :> <<"skd", "frontend", "v2">>)
            @@ (c :> <<"brg", "backend">>) @@ (d :> <<"brg", "frontend", "v2">>)
            @@ (m :> <<"backend">>)

MCNamespace == (a :> "n1") @@ (b :> "n2") @@ (c :> "n1") @@ (d :> "n1") @@ (m :> "n1")

=============================================================================
