------------------------------ MODULE MCMeshViews -----------------------------
(***************************************************************************)
(* A small instance of MeshKML, Lookups, SiteStats and AdminMap: two nodes *)
(* of different types in one place, a third elsewhere, links of different  *)
(* types and lines of sight in both directions, a member with both         *)
(* installs, and an admin's page.                                          *)
(***************************************************************************)
EXTENDS MeshKML, Lookups, SiteStats, AdminMap, TLC

CONSTANTS n1, n2, n3, b1, b2, p, q, a1, a2, s1, m1, k1, k2

MCBuildingOf == [i \in Installs |-> IF i = 2 THEN b1 ELSE b2]
MCBeside == [b \in Building |-> IF b = b1 THEN {n3} ELSE {n1, n2}]
MCFrom == [l \in Link |-> IF l = 2 THEN n2 ELSE n1]
MCTo == [l \in Link |-> IF l = 2 THEN n1 ELSE n2]
MCLosFrom == [l \in Los |-> IF l = 1 THEN b1 ELSE b2]
MCLosTo == [l \in Los |-> IF l = 1 THEN b2 ELSE b1]
MCApId == [a \in Ap |-> IF a = a1 THEN 3 ELSE 2000003]
MCApFrom == [l \in Link |-> IF l = 1 THEN a1 ELSE Null]
MCApTo == [l \in Link |-> IF l = 2 THEN a2 ELSE Null]
MCSectorNode == [s \in LiveSector |-> n3]
MCPlaceOf == [n \in Node |-> IF n = n2 THEN q ELSE p]
MCHeightOf == [n \in Node |-> IF n = n1 THEN 5 ELSE 9]
MCSiteOf == [b \in Building |-> IF b = b1 THEN p ELSE q]
MCNodeType == [n \in Node |-> IF n = n1 THEN "Hub" ELSE "AP"]
MCLinkType == [l \in Link |-> IF l = 1 THEN "5 GHz WDS" ELSE "Fiber"]
MCRequestedAt == [i \in Installs |-> IF i = 2 THEN 9 ELSE 18]
MCInstalledOn == [i \in Installs |-> IF i = 2 THEN 3 ELSE 4]

MCNows == {13, 14, 16, 19, 22}

MCInstallsOf == [m \in Member |-> Installs]

(* Nothing, a number, two of them, or the access point that is up.         *)
MCSelections == {{}, {2}, {4}, {2, 3}, {FirstFake + 3}}

(* Look-ups are alike. *)
MCSymmetry == Permutations(Ids)

(* Two nodes stand in the first place.  The first is on both buildings,    *)
(* has one install, and the number of the other install, which lost it.    *)
MCStart ==
  {[nodes    |-> [n \in Node |-> [nn |-> IF n = n1 THEN 3 ELSE Null,
                                 status |-> IF n = n2 THEN "absent" ELSE "PLANNED"]],
    installs |-> [i \in Installs |-> IF i = 2 THEN [status |-> "REQUEST_RECEIVED", node |-> n1]
                                     ELSE [status |-> "NN_REASSIGNED", node |-> Null]],
    primary  |-> [b \in Building |-> n1]]}
=============================================================================
