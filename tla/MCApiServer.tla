----------------------------- MODULE MCApiServer -----------------------------
(***************************************************************************)
(* Two requests of one tenant, one more than its limit, and one of another *)
(* tenant, over two gin.Contexts: a request may or may not take another    *)
(* one's gin.Context over, and may or may not be let through.              *)
(***************************************************************************)
EXTENDS ApiServer, TLC

CONSTANTS r1, r2, s1, c1, c2, t, u

MCTenantOf == r1 :> t @@ r2 :> t @@ s1 :> u

\* The requests of one tenant are interchangeable, and so are the gin.Contexts.
MCSymmetry == Permutations({r1, r2}) \union Permutations({c1, c2})
=============================================================================
