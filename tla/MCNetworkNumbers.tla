-------------------------- MODULE MCNetworkNumbers --------------------------
(***************************************************************************)
(* Small instances of NetworkNumbers.  NETWORK_NUMBER_ASSIGN_MIN is 2 and  *)
(* NETWORK_NUMBER_MAX 3 or 4, so install 1 is too low and 5 too high to    *)
(* pass its number on to a node.                                           *)
(***************************************************************************)
EXTENDS NetworkNumbers, TLC

CONSTANTS f1, f2, a1, a2, e1, n1, n2, n3, b1, b2, Statuses

MCBuildingOf == [i \in Installs |-> IF i % 2 = 0 THEN b1 ELSE b2]

Row(k, s)  == [nn |-> k, status |-> s]
Bare(s)    == [status |-> s, node |-> Null]
OnNode1(s) == [status |-> s, node |-> n1]

(* The first node is absent, unnumbered, or numbered; the others absent.   *)
MCNodes == {[n \in Node |-> IF n = n1 THEN r ELSE NoNode] :
              r \in {NoNode, Row(Null, "PLANNED"), Row(Null, "INACTIVE"), Row(2, "ACTIVE")}}

MCInstalls == [Installs -> {Bare(s) : s \in Statuses} \cup {OnNode1("PENDING"), OnNode1("REQUEST_RECEIVED")}]

MCPrimary == [Building -> {n1, Null}]

MCStart ==
  {db \in [nodes : MCNodes, installs : MCInstalls, primary : MCPrimary] :
      Consistent(db.nodes, db.installs, db.primary)}

(* Nodes that start absent are alike.                                      *)
MCSymmetry == Permutations(Node \ {n1})
=============================================================================
