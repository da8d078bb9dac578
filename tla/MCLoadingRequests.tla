------------------------- MODULE MCLoadingRequests -------------------------
(* Instances of LoadingRequests for TLC: r1 loads two sources, r2 only wants *)
(* the database, and one of two addresses is public.                        *)
EXTENDS LoadingRequests, TLC

CONSTANTS f1, f2, r1, r2, a1, a2, h1, h2

Owners == (f1 :> r1) @@ (f2 :> r1)
Sites == (f1 :> h1) @@ (f2 :> h2)
Internet == {a1}
Zone == {{a1}, {a1, a2}}
=============================================================================
