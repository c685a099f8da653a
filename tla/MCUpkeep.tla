------------------------------- MODULE MCUpkeep -------------------------------
(***************************************************************************)
(* A small instance of Upkeep: a building that pictures are published for  *)
(* under an install's and under a node's number, and which has a range for *)
(* a street number; a device; and a bill, which nothing scrambles.         *)
(***************************************************************************)
EXTENDS Upkeep, TLC

CONSTANTS b1, d1, h1, f1, f2

MCTables == <<{b1}, {d1}>>
MCKeys == <<"632", "nn632">>
MCFilesOf == [k \in {"632", "nn632"} |-> IF k = "632" THEN {f1} ELSE {f2}]
MCBuildingOf == [k \in {"632", "nn632"} |-> b1]

Holds == (b1 :> {"text", "range"}) @@ (d1 :> {"text"}) @@ (h1 :> {"text"})

Db(private, flagged, panos) ==
  [rows |-> [r \in Row |-> [private |-> IF private THEN Holds[r] ELSE {}, panos |-> IF r = b1 THEN panos ELSE {}]],
   flags |-> flagged]

(* Panoramas that are null; the sync and a reset, to a backup that turns   *)
(* the maintenance mode on; the other tasks, with all pictures published.  *)
MCStart ==
  {[db |-> Db(FALSE, {"panoramas"}, Null), backup |-> Db(TRUE, {"panoramas"}, Null), files |-> {}],
   [db |-> Db(FALSE, {"panoramas", "reset"}, {}), backup |-> Db(TRUE, {"maintenance"}, {}), files |-> {}],
   [db |-> Db(FALSE, {"import", "backup", "reset"}, {}), backup |-> Db(TRUE, {"import"}, {}),
    files |-> {f1, f2}]}
=============================================================================
