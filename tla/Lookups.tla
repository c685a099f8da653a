------------------------------- MODULE Lookups -------------------------------
(***************************************************************************)
(* The lookup endpoints, the legacy query form and the helper that tells   *)
(* what a number stands for, over MapData's rows.  Filters on names,       *)
(* addresses and other texts select rows one by one and are left out.      *)
(***************************************************************************)
EXTENDS MapData

Stored(l) == links[l] # "absent"

(* Of network number k: installs, buildings, links and lines of sight.     *)
LookupInstall(k) == {i \in Installs : installs[i].node # Null /\ nodes[installs[i].node].nn = k}

LookupBuilding(k) == {b \in Building : \E n \in NodesOf(b) : nodes[n].nn = k}

LookupPrimary(k) == {b \in Building : primary[b] # Null /\ nodes[primary[b]].nn = k}

LookupLink(k) == {l \in Link : Stored(l) /\ (nodes[From[l]].nn = k \/ nodes[To[l]].nn = k)}

LookupLOS(k) == {l \in Los : \E b \in {LosFrom[l], LosTo[l]} : b \in LookupBuilding(k)}

(* Of a node: its far ends are missed, the code compares a building there. *)
LookupLOSOfNode(n) == {l \in Los : n \in NodesOf(LosFrom[l])}

LookupNode(i) == {installs[i].node} \ {Null}

(* The legacy query form, by number. *)
QueryInstall(k) == {i \in Installs : \E n \in LookupNode(i) : nodes[n].nn = k}

(***************************************************************************)
(* DisambiguateInstallOrNetworkNumber.                                     *)
(***************************************************************************)
(* Variant: only nodes that are up are looked at. *)
ActiveWithNumber(k) == {n \in Node : nodes[n].nn = k /\ nodes[n].status = "ACTIVE"}

WithNumber(k) == {n \in Node : Present(n) /\ nodes[n].nn = k}

NodeObject(k) == IF WithNumber(k) # {} THEN CHOOSE n \in WithNumber(k) : TRUE ELSE Null

(* Variant: the install of the number comes first. *)
InstallsNodeFirst(k) ==
  IF k \in Installs /\ installs[k].node # Null THEN installs[k].node ELSE NodeObject(k)

ResolvedNode(k) ==
  IF NodeObject(k) # Null THEN NodeObject(k)
  ELSE IF k \in Installs THEN installs[k].node
  ELSE Null

Recycled(k) == k \in Installs /\ installs[k].status = "NN_REASSIGNED"

-----------------------------------------------------------------------------
(* A number means the same node everywhere: what a dot of the map shows is *)
(* what the helper resolves its number to, and whatever a lookup by        *)
(* network number finds belongs to that node                               *)
(* (helpers.py l.95-108, lookups.py l.102-379, map.py l.66).                    *)
OneMeaning ==
  /\ Claimed => \A e \in Entries : ResolvedNode(e.number) = e.node
  /\ \A n \in Node : nodes[n].nn # Null =>
       LET k == nodes[n].nn
       IN  /\ ResolvedNode(k) = n
           /\ \A i \in LookupInstall(k) \cup QueryInstall(k) : LookupNode(i) = {n}
           /\ LookupBuilding(k) \cup LookupPrimary(k) = BuildingsOf(n)
           /\ \A l \in LookupLink(k) : n \in {From[l], To[l]}
           /\ LookupLOSOfNode(n) \subseteq LookupLOS(k)

(* A node that is saved as active with its number cleared gets another.    *)
GivesWay(i) == \E n \in Node : nodes[n].nn = i /\ nodes'[n].status = "ACTIVE" /\ nodes'[n].nn # i

(* "When this field is non-null, exact_match_node will also be populated"  *)
(* (helpers.py l.59-62): a recycled install is answered along with the     *)
(* node that has its number.  That is so after every step but two: someone *)
(* sets the status by hand, or clears the number of an active node, whose  *)
(* save gives it another number and leaves the install marked (node.py     *)
(* l.104-141).                                                             *)
RecycledWithNode ==
  [][\A i \in Installs :
       /\ Recycled(i)' /\ ~Registry!Update(i, "NN_REASSIGNED") /\ ~GivesWay(i)
       /\ Recycled(i) => NodeObject(i) # Null
       => NodeObject(i)' # Null]_vars
=============================================================================
