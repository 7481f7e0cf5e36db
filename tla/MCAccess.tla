------------------------------ MODULE MCAccess ------------------------------
(* Access for TLC.                                                          *)
EXTENDS Access, TLC

CONSTANTS e1, e2, i1, i2, idp, key, t1, t2, a1, a2, a3, g1, g2, u1

(* One request of one organisation and two of another.                     *)
TwoOrgs == a1 :> g1 @@ a2 :> g2 @@ a3 :> g2

(* Editors, issuers and the two requests of one organisation are           *)
(* interchangeable; the nonce of a login is its tab, and tabs are          *)
(* interchangeable with it.                                                *)
AccessSymmetry ==
    Permutations(Editors) \cup Permutations(Issuers)
        \cup Permutations({a2, a3}) \cup Permutations(Tabs)
=============================================================================
