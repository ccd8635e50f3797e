----------------------------- MODULE MCRateWindow -----------------------------
(***************************************************************************)
(* Two requests of one tenant, one more than its limit.                    *)
(***************************************************************************)
EXTENDS RateWindow

CONSTANTS r1, r2, t

MCTenantOf == [r \in {r1, r2} |-> t]
=============================================================================
