---------------------------- MODULE MCUISPImport ----------------------------
(***************************************************************************)
(* Small instances of UISPImport: two devices of two nodes, joined by one  *)
(* or two links, which may have any of three ids and run in either         *)
(* direction.                                                              *)
(***************************************************************************)
EXTENDS UISPImport, TLC

CONSTANTS h1, o1, x1, x2, d1, d2, l1, l2, l3, b1, b2

MCTarget == [p \in Importer |-> IF p = o1 THEN x1 ELSE Null]

MCEnds == [l \in ULink |-> IF l = l2 THEN <<d2, d1>> ELSE <<d1, d2>>]

MCBuildingOf == [nn \in NN |-> IF nn = x1 THEN b1 ELSE b2]

Sight(source) == [pair |-> {b1, b2}, source |-> source, date |-> 0]

Online(nn)       == [nn |-> nn, active |-> TRUE, seen |-> Null]
Offline(nn, day) == [nn |-> nn, active |-> FALSE, seen |-> day]

Known(d, nn, status) == [uisp |-> d, nn |-> nn, status |-> status, abandon |-> Null]
Linked(l, status)    == [uisp |-> l, ends |-> <<1, 2>>, status |-> status, abandon |-> Null]

(* UISP's devices, and what MeshDB has of them and of the link.            *)
From(u1, u2, up, rows, linkRows, sights) ==
  [udev |-> [d \in UDev |-> IF d = d1 THEN u1 ELSE u2],
   ulink |-> [l \in ULink |-> IF l \in up THEN "active" ELSE "absent"],
   devices |-> rows, links |-> linkRows, los |-> sights]

Both(s1, s2) == <<Known(d1, x1, s1), Known(d2, x2, s2)>>

(* Nothing is known yet; a device has been away for long; another link has *)
(* taken the place of one that people had planned; of two redundant links  *)
(* both are there, or UISP has given up both ids for a new one.            *)
MCStart ==
  {From(Online(x1), Online(x2), {l1}, <<>>, <<>>, <<>>),
   From(Online(x1), Offline(x2, 0), {l1}, Both("Inactive", "Active"), <<Linked(l1, "Active")>>,
        <<Sight("Existing Link")>>),
   From(Offline(x1, Null), Online(x2), {l1}, Both("Potential", "Active"), <<Linked(l2, "Planned")>>,
        <<Sight("Human Annotated")>>),
   From(Online(x1), Online(x2), {l1, l2}, Both("Active", "Active"),
        <<Linked(l1, "Active"), Linked(l2, "Active")>>, <<>>),
   From(Online(x1), Online(x2), {l3}, Both("Active", "Active"),
        <<Linked(l1, "Active"), Linked(l2, "Inactive")>>, <<>>)}
=============================================================================
