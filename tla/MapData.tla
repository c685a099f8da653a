------------------------------- MODULE MapData -------------------------------
(***************************************************************************)
(* What the website's map is told.  Its first page lists installs, and     *)
(* makes up an install for every node that no install stands for; its      *)
(* second page lists links, cable runs within nodes and potential links,   *)
(* by the numbers of the first page; access points get numbers of their    *)
(* own, and a third page lists sectors.  The pages are computed apart,     *)
(* from the rows that the registry of network numbers, people and imports  *)
(* change.                                                                 *)
(*                                                                         *)
(* A device matters only by its node, so a link joins nodes; that is how   *)
(* two links can join the same ones.  Rows of links and of lines of sight  *)
(* are numbered as their ids are ordered.  Network numbers are positive:   *)
(* the pages take 0 for none in some places and for a number in others.    *)
(***************************************************************************)
EXTENDS Integers, FiniteSets

CONSTANTS
  Node, Building, Installs, BuildingOf, NNMin, NNAssignMin, NNMax, Vanity, Start, Null,
  Beside,       \* nodes on a building besides its primary node
  Link, From, To, \* links, and the nodes they join
  Los, LosFrom, LosTo, \* lines of sight, and the buildings they join
  Ap, ActiveAp, ApId,   \* access points, those that are up, and their ids
  ApFrom, ApTo,         \* the access points at the ends of links
  LiveSector, SectorNode \* sectors that are not down, and their nodes

(* Numbers from here on are made up for access points (map.py l.37).       *)
FirstFake == 1000000

ASSUME MapAssumption ==
  /\ Link \subseteq Nat /\ From \in [Link -> Node] /\ To \in [Link -> Node]
  /\ Los \subseteq Nat /\ LosFrom \in [Los -> Building] /\ LosTo \in [Los -> Building]
  /\ Beside \in [Building -> SUBSET Node]
  /\ Installs \subseteq Nat \ {0} /\ IsFiniteSet(Installs) /\ BuildingOf \in [Installs -> Building]
  /\ Null \notin Nat /\ Null \notin Node /\ Null \notin Ap
  /\ ActiveAp \subseteq Ap /\ ApId \in [Ap -> Nat]
  /\ ApFrom \in [Link -> Ap \cup {Null}] /\ ApTo \in [Link -> Ap \cup {Null}]
  /\ SectorNode \in [LiveSector -> Node]
  /\ \A i \in Installs : i < FirstFake

Unique(ns) == \A m, n \in Node : m # n /\ ns[m].nn # Null => ns[m].nn # ns[n].nn

NodeRow    == [nn : Nat \cup {Null}, status : {"absent", "PLANNED", "ACTIVE", "INACTIVE"}]
InstallRow == [status : {"REQUEST_RECEIVED", "PENDING", "ACTIVE", "CLOSED", "NN_REASSIGNED"},
               node : Node \cup {Null}]

ASSUME StartAssumption ==
  /\ NNMin \in Nat /\ NNMax \in Nat /\ NNMax < FirstFake /\ 0 \notin Vanity
  /\ \A db \in Start :
       /\ db.nodes \in [Node -> NodeRow] /\ Unique(db.nodes)
       /\ \A n \in Node : db.nodes[n].nn # Null =>
            db.nodes[n].status # "absent" /\ 0 < db.nodes[n].nn /\ db.nodes[n].nn < FirstFake
       /\ db.installs \in [Installs -> InstallRow]
       /\ db.primary \in [Building -> Node \cup {Null}]

VARIABLES
  nodes, installs, primary, \* rows, as in NNRegistry
  links                     \* the status of each link, or "absent"

vars == <<nodes, installs, primary, links>>

Registry == INSTANCE NNRegistry WITH nodes <- nodes, installs <- installs, primary <- primary

LinkStatus == {"PLANNED", "ACTIVE", "INACTIVE"}

Init == Registry!Init /\ links = [l \in Link |-> "absent"]

Present(n) == nodes[n].status # "absent"

(* Somebody, or the UISP import, makes or updates a link of two devices.   *)
SetLink(l, s) ==
  /\ Present(From[l]) /\ Present(To[l])
  /\ links' = [links EXCEPT ![l] = s]
  /\ UNCHANGED <<nodes, installs, primary>>

Next ==
  \/ Registry!Next /\ UNCHANGED links
  \/ \E l \in Link, s \in LinkStatus : SetLink(l, s)

Spec == Init /\ [][Next]_vars

-----------------------------------------------------------------------------
Least(S) == CHOOSE i \in S : \A j \in S : i =< j

Greatest(S) == CHOOSE i \in S : \A j \in S : j =< i

Shown(n) == nodes[n].status \in {"PLANNED", "ACTIVE"}

NodesOf(b) == Beside[b] \cup ({primary[b]} \ {Null})

AttachedTo(n) == {i \in Installs : installs[i].node = n}

(***************************************************************************)
(* MapDataNodeList.                                                        *)
(***************************************************************************)
ListedInstalls == {i \in Installs : installs[i].status \notin {"CLOSED", "NN_REASSIGNED"}}

(* Variant: only numbers that no install has at all get an entry. *)
UncoveredByAny == {n \in Node : Shown(n) /\ nodes[n].nn \notin Installs \cup {Null}}

(* Variant: every node gets an entry. *)
UncoveredOrNot == {n \in Node : Shown(n) /\ nodes[n].nn # Null}

Uncovered == {n \in Node : Shown(n) /\ nodes[n].nn \notin ListedInstalls \cup {Null}}

Entries ==
  {[number |-> i, node |-> installs[i].node, fake |-> FALSE] : i \in ListedInstalls}
    \cup {[number |-> nodes[n].nn, node |-> n, fake |-> TRUE] : n \in Uncovered}

(* The entry that stands for its node, with the node's name and place.     *)
IsNodeDot(e) ==
  /\ e.node # Null
  /\ IF nodes[e.node].nn # Null THEN e.number = nodes[e.node].nn
                                ELSE e.number = Least(AttachedTo(e.node))

(***************************************************************************)
(* MapDataLinkList.                                                        *)
(***************************************************************************)
NodeNumber(n) ==
  IF nodes[n].nn # Null THEN nodes[n].nn
  ELSE IF AttachedTo(n) = {} THEN Null
  ELSE Least(AttachedTo(n))

Live(l) ==
  /\ links[l] \in {"PLANNED", "ACTIVE"}
  /\ nodes[From[l]].status # "INACTIVE" /\ nodes[To[l]].status # "INACTIVE"

Pair(l) == <<nodes[From[l]].nn, nodes[To[l]].nn>>

FirstOfPair(l) == l = Least({k \in Link : Live(k) /\ Pair(k) = Pair(l)})

MapLinks ==
  {l \in Link :
     /\ Live(l)
     /\ \/ Null \in {Pair(l)[1], Pair(l)[2]}
        \/ Pair(l)[1] # Pair(l)[2] /\ FirstOfPair(l)}

Ends(l) == <<NodeNumber(From[l]), NodeNumber(To[l])>>

(* COUNT of the buildings, over the rows of a join that has one for each   *)
(* building and each numbered node on a building of the node.              *)
BuildingsOf(n) == {b \in Building : n \in NodesOf(b)}

JoinedBuildings(n) ==
  Cardinality(BuildingsOf(n)) *
  Cardinality({bm \in BuildingsOf(n) \X Node : bm[2] \in NodesOf(bm[1]) /\ nodes[bm[2]].nn # Null})

ActiveIn(b) == {i \in Installs : BuildingOf[i] = b /\ installs[i].status = "ACTIVE"}

(* Variant: cables of inactive nodes, too. *)
CableNodesAny == {n \in Node : Present(n) /\ JoinedBuildings(n) > 1}

CableNodes == {n \in Node : Shown(n) /\ JoinedBuildings(n) > 1}

CableRuns ==
  {c \in {<<Least(ActiveIn(nb[2])), nodes[nb[1]].nn>> :
             nb \in {x \in CableNodes \X Building : x[1] \in NodesOf(x[2]) /\ ActiveIn(x[2]) # {}}} :
     c[1] # c[2] /\ \A l \in MapLinks : c # Ends(l)}

(* Lines of sight between buildings with installs, that no link follows.   *)
InstallsIn(b) == {i \in Installs : BuildingOf[i] = b}

(* Variant: links are looked at in their own direction only. *)
LinkedForward(b, c) ==
  \E l \in Link : links[l] # "absent" /\ From[l] \in NodesOf(b) /\ To[l] \in NodesOf(c)

Linked(b, c) ==
  \E l \in Link :
     /\ links[l] # "absent"
     /\ \/ From[l] \in NodesOf(b) /\ To[l] \in NodesOf(c)
        \/ From[l] \in NodesOf(c) /\ To[l] \in NodesOf(b)

MapLos ==
  {l \in Los :
     /\ InstallsIn(LosFrom[l]) # {} /\ InstallsIn(LosTo[l]) # {}
     /\ LosFrom[l] # LosTo[l]
     /\ ~Linked(LosFrom[l], LosTo[l])
     /\ l = Least({k \in Los : LosFrom[k] = LosFrom[l] /\ LosTo[k] = LosTo[l]})}

NumbersIn(b) == InstallsIn(b) \cup ({nodes[n].nn : n \in NodesOf(b)} \ {Null})

PotentialLinks == UNION {NumbersIn(LosFrom[l]) \X NumbersIn(LosTo[l]) : l \in MapLos}

(***************************************************************************)
(* Access points: entries on the first page for those that are up, and     *)
(* every stored link of one, whatever its state, on the second.  Sectors.  *)
(***************************************************************************)
ApNumber(a) == FirstFake + (ApId[a] % FirstFake)

ApEntries == {ApNumber(a) : a \in ActiveAp}

ApLinks == {l \in Link : links[l] # "absent" /\ (ApFrom[l] # Null \/ ApTo[l] # Null)}

ApEnd(ap, n) == IF ap # Null THEN ApNumber(ap) ELSE nodes[n].nn

SectorNumber(s) == nodes[SectorNode[s]].nn

MapSectors == {s \in LiveSector : SectorNumber(s) # Null}

-----------------------------------------------------------------------------
(* Every variable keeps its type, and a link's nodes are there. *)
TypeOK ==
  /\ nodes \in [Node -> NodeRow]
  /\ installs \in [Installs -> InstallRow]
  /\ primary \in [Building -> Node \cup {Null}]
  /\ links \in [Link -> LinkStatus \cup {"absent"}]
  /\ \A l \in Link : links[l] # "absent" => Present(From[l]) /\ Present(To[l])

(* Whose number is an install's is its node, or the install is marked;     *)
(* NetworkNumbers keeps it so (DonorClaimed), people may break it.         *)
Claimed ==
  \A n \in Node : nodes[n].nn \in Installs =>
     installs[nodes[n].nn].status = "NN_REASSIGNED" \/ installs[nodes[n].nn].node = n

(* "We need to make sure there is an entry on the map for every NN"        *)
(* (map.py l.66): it is there, and it shows the node's name and place.     *)
EveryNumberShown ==
  Claimed => \A n \in Node : Shown(n) /\ nodes[n].nn # Null =>
     \E e \in Entries : e.number = nodes[n].nn /\ e.node = n /\ IsNodeDot(e)

(* No number is on the map twice, no node has two dots (map.py l.90,       *)
(* serializers/map.py l.49-51), and no access point has the number of an   *)
(* install or a node (map.py l.34-36).                                     *)
EntriesApart ==
  /\ \A e, f \in Entries :
       e.number = f.number \/ (e.node = f.node /\ IsNodeDot(e) /\ IsNodeDot(f)) => e = f
  /\ \A e \in Entries : e.number \notin ApEntries

(* The install of a recycled number still counts for its building.         *)
NothingRecycled ==
  \A n \in Node : nodes[n].nn \in Installs => installs[nodes[n].nn].node = n

(* An install is on a node of its building; the form and the registry keep *)
(* it so, people may attach it elsewhere.                                  *)
AtHome == \A i \in Installs : installs[i].node # Null => installs[i].node \in NodesOf(BuildingOf[i])

(* Of the live links between two numbered nodes in one direction exactly   *)
(* one is shown (map.py l.202-222; test_map_endpoints.py l.1209, l.1714),  *)
(* and a potential link never goes where one is, in either direction, as   *)
(* long as every node's number is its own install's or no install's, and   *)
(* that install is on a node of its building (map.py l.287-302, l.329-337).*)
OneLinkPerPair ==
  /\ \A l \in Link :
       Live(l) /\ Null \notin {Pair(l)[1], Pair(l)[2]} /\ From[l] # To[l] =>
          Cardinality({k \in MapLinks : Pair(k) = Pair(l)}) = 1
  /\ NothingRecycled /\ AtHome => \A p \in PotentialLinks : \A l \in MapLinks :
       Ends(l) # p /\ Ends(l) # <<p[2], p[1]>>

OnTheMap(k) == \E e \in Entries : e.number = k

(* The ends of links and cable runs are numbers of the first page, unless  *)
(* the end is a node without a number whose lowest install is not listed   *)
(* (map.py l.194-272, serializers/map.py l.172-187); those of an access    *)
(* point's links and the places of sectors are, too, unless the end is an  *)
(* access point that is down or a node that is not shown (l.352-416).      *)
EndsOnTheMap ==
  /\ \A l \in MapLinks : \A n \in {From[l], To[l]} :
        nodes[n].nn # Null \/ NodeNumber(n) \in ListedInstalls => OnTheMap(NodeNumber(n))
  /\ \A c \in CableRuns : OnTheMap(c[1]) /\ (c[2] # Null => OnTheMap(c[2]))
  /\ \A l \in ApLinks : \A end \in {<<ApFrom[l], From[l]>>, <<ApTo[l], To[l]>>} :
        LET k == ApEnd(end[1], end[2])
        IN  \/ k \in ApEntries \cup {Null} \/ OnTheMap(k)
            \/ end[1] \in Ap \ ActiveAp
            \/ end[1] = Null /\ ~Shown(end[2])
  /\ \A s \in MapSectors : OnTheMap(SectorNumber(s)) \/ ~Shown(SectorNode[s])
=============================================================================
