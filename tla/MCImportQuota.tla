--------------------------- MODULE MCImportQuota ---------------------------
(***************************************************************************)
(* Small instances of ImportQuota for TLC.                                 *)
(***************************************************************************)
EXTENDS ImportQuota, TLC

CONSTANTS t1, t2, u1, u2, u3, s1, s2, s3, s4, d1, d2, r1, r2, r3

\* Two users of one tenant, one of them with a second session, and one of another tenant.
TwoTenants  == (u1 :> t1) @@ (u2 :> t1) @@ (u3 :> t2)
ThreeOwners == (s1 :> u1) @@ (s2 :> u2) @@ (s3 :> u3) @@ (s4 :> u1)
Sizes       == (d1 :> 2) @@ (d2 :> 3)
=============================================================================
