------------------------------ MODULE MCJoinForm -----------------------------
(***************************************************************************)
(* Small instances of JoinForm: two addresses of one structure, whose node *)
(* n1 stands on the first or on none, two email addresses, of which the    *)
(* first may be a member's already.                                        *)
(***************************************************************************)
EXTENDS JoinForm, TLC

CONSTANTS f1, f2, r1, s1, s2, s3, n1, a1, a2, x1, e1, e2, u1

MCBinOf == [a \in {a1, a2} |-> x1]

Standing(a, n) == [address |-> a, primary |-> n, nodes |-> {n1}, live |-> TRUE]

(* The first submission is sound; the second is second.                    *)
From(e, a, f) == [email |-> e, address |-> a, unit |-> u1, flaw |-> f]

Database(known, standing, second) ==
  [members    |-> IF known THEN <<[email |-> e1, live |-> TRUE]>> ELSE <<>>,
   buildings  |-> standing,
   installs   |-> <<>>,
   submission |-> [s \in Sub |-> IF s = s1 THEN From(e1, a1, "none") ELSE second]]

NextHouse == <<Standing(a2, n1)>>
BothHouses == <<Standing(a1, Null), Standing(a2, n1)>>

(* The second submission is the first once more, or comes from the same    *)
(* person, or is for the same address or structure.                        *)
MCStart ==
  {Database(FALSE, <<>>, From(e1, a1, "none")), Database(TRUE, BothHouses, From(e1, a1, "none")),
   Database(TRUE, NextHouse, From(e1, a1, "null")), Database(FALSE, <<>>, From(e2, a1, "null")),
   Database(TRUE, NextHouse, From(e1, a2, "spelling")), Database(FALSE, NextHouse, From(e2, a2, "invalid"))}

(* The workers are alike, and so are the names of submissions. *)
MCSymmetry == Permutations(Form) \cup Permutations(Sub)
=============================================================================
