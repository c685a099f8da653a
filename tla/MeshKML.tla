------------------------------- MODULE MeshKML -------------------------------
(***************************************************************************)
(* The two KML files that are made of MapData's rows.  ActiveMeshKML puts  *)
(* one dot on every place with something active or planned, and one line   *)
(* between any two of their nodes; WholeMeshKML lists every open install,  *)
(* every number once, all links, and the lines of sight no link follows.   *)
(*                                                                         *)
(* Places, heights and types do not change.  Rows that the database sorts  *)
(* by nothing but an altitude, the same for all of a pair, come by id.     *)
(***************************************************************************)
EXTENDS MapData

CONSTANTS
  PlaceOf, HeightOf, SiteOf, \* where nodes are, how high, and where buildings are
  NodeType, LinkType         \* the type of each node, and of each link or Null

NodeTypes == {"Standard", "Hub", "Supernode", "POP", "AP", "Remote"}

RawLinkTypes == {"5 GHz", "5 GHz Airmax", "5 GHz WDS", "5 GHz Wlan4", "6 GHz", "24 GHz",
                 "60 GHz", "70-80 GHz", "VPN", "Fiber", "Ethernet"}

ASSUME KMLAssumption ==
  /\ NodeType \in [Node -> NodeTypes]
  /\ LinkType \in [Link -> RawLinkTypes \cup {Null}]

-----------------------------------------------------------------------------
(***************************************************************************)
(* ActiveMeshKML: the dots.                                                *)
(***************************************************************************)
KmlInstalls == {i \in Installs : installs[i].status \in {"ACTIVE", "PENDING"}}

(* Variant: an install stands where its building does. *)
BuildingPlace(i) == SiteOf[BuildingOf[i]]

InstallPlace(i) ==
  IF installs[i].node # Null THEN PlaceOf[installs[i].node] ELSE SiteOf[BuildingOf[i]]

InstallsAt(p) == {i \in KmlInstalls : InstallPlace(i) = p}

NodesAt(p) == {n \in Node : Shown(n) /\ PlaceOf[n] = p}

Places == {p \in {PlaceOf[n] : n \in Node} \cup {SiteOf[b] : b \in Building} :
             InstallsAt(p) \cup NodesAt(p) # {}}

NumberedAt(p) == {i \in InstallsAt(p) : installs[i].node # Null /\ nodes[installs[i].node].nn # Null}

(* Nodes come by number, those without one last.                           *)
FirstNode(S) ==
  CHOOSE n \in S : \A m \in S :
     nodes[m].nn # Null => nodes[n].nn # Null /\ nodes[n].nn =< nodes[m].nn

DotNode(p) ==
  IF NumberedAt(p) # {} THEN installs[Greatest(NumberedAt(p))].node
  ELSE IF NodesAt(p) # {} THEN FirstNode(NodesAt(p))
  ELSE Null

ActiveAt(p) ==
  \/ \E i \in InstallsAt(p) : installs[i].status = "ACTIVE"
  \/ \E n \in NodesAt(p) : nodes[n].status = "ACTIVE"

DotType(p) ==
  LET first == installs[Least(InstallsAt(p))].node
  IN  IF DotNode(p) # Null THEN NodeType[DotNode(p)]
      ELSE IF first # Null THEN NodeType[first] ELSE "Standard"

StyleMap == [Hub |-> "hub_dot", Supernode |-> "blue_dot", POP |-> "yellow_dot", AP |-> "green_dot",
             Remote |-> "purple_dot", Standard |-> "red_dot"]

Dot(p) ==
  [place  |-> p,
   node   |-> DotNode(p),
   number |-> IF DotNode(p) # Null THEN nodes[DotNode(p)].nn ELSE Least(InstallsAt(p)),
   folder |-> IF ActiveAt(p) THEN DotType(p) ELSE "Planned Nodes",
   style  |-> IF ActiveAt(p) THEN StyleMap[DotType(p)] ELSE "white_dot"]

Dots == {Dot(p) : p \in Places}

(***************************************************************************)
(* ActiveMeshKML: the lines.                                               *)
(***************************************************************************)
PriorityOrder == <<"Fiber", "Ethernet", "70-80 GHz", "60 GHz", "24 GHz", "6 GHz", "5 GHz",
                   "WDS (5 GHz)", "Other", "VPN">>

LinkTypeColors == {"Other", "VPN", "WDS (5 GHz)", "5 GHz", "6 GHz", "24 GHz", "60 GHz", "70-80 GHz",
                   "Fiber", "Ethernet"}

KmlLinkType(l) ==
  IF LinkType[l] = "5 GHz WDS" THEN "WDS (5 GHz)"
  ELSE IF LinkType[l] \in {"5 GHz Wlan4", "5 GHz Airmax"} THEN "5 GHz"
  ELSE IF LinkType[l] = Null THEN "Other"
  ELSE LinkType[l]

(* A type that the tables do not know counts, and is drawn, as "Other".    *)
FolderType(l) == IF KmlLinkType(l) \in LinkTypeColors THEN KmlLinkType(l) ELSE "Other"

Rank(l) ==
  IF \E r \in DOMAIN PriorityOrder : PriorityOrder[r] = KmlLinkType(l)
  THEN CHOOSE r \in DOMAIN PriorityOrder : PriorityOrder[r] = KmlLinkType(l)
  ELSE 9

KmlLinks ==
  {l \in Link : /\ links[l] \in {"ACTIVE", "PLANNED"}
                /\ Null \notin {Pair(l)[1], Pair(l)[2]}
                /\ Pair(l)[1] # Pair(l)[2]
                /\ LinkType[l] # "VPN"}

Coord(n) == <<PlaceOf[n], HeightOf[n]>>

(* Variant: the ends are kept in the link's order. *)
DirectedSpan(l) == <<Coord(From[l]), Coord(To[l])>>

Span(l) == {Coord(From[l]), Coord(To[l])}

IsBest(l, group) == \A k \in group : Rank(l) < Rank(k) \/ (Rank(l) = Rank(k) /\ l =< k)

Lines ==
  LET drawn == KmlLinks
  IN  {l \in drawn : IsBest(l, {k \in drawn : Span(k) = Span(l)})}

LineStyle(l) == IF links[l] = "PLANNED" THEN "white_line" ELSE FolderType(l)

LineFolder(l) == IF links[l] = "PLANNED" THEN "Planned Links" ELSE FolderType(l)

DocumentStyles ==
  {"red_dot", "blue_dot", "hub_dot", "green_dot", "yellow_dot", "purple_dot", "white_dot", "white_line"}
    \cup LinkTypeColors

DocumentFolders == NodeTypes \cup {"Planned Nodes", "Planned Links"} \cup LinkTypeColors

(***************************************************************************)
(* WholeMeshKML.                                                           *)
(***************************************************************************)
(* Variant: installs whose number is another's by now are listed, too. *)
WholeUnlessClosed == {i \in Installs : installs[i].status # "CLOSED"}

WholeInstalls == {i \in Installs : installs[i].status \notin {"CLOSED", "NN_REASSIGNED"}}

NumberOf(i) == IF installs[i].node = Null THEN Null ELSE nodes[installs[i].node].nn

FirstOfNumber(i) ==
  NumberOf(i) # Null /\ i = Least({j \in WholeInstalls : NumberOf(j) = NumberOf(i)})

(* A node's mark is in the folder of the install it is made for, and never *)
(* drawn as active.                                                        *)
Folder(i) == IF installs[i].status = "ACTIVE" THEN "Active" ELSE "Inactive"

InstallMark(i) ==
  [number |-> i, node |-> Null, folder |-> Folder(i), active |-> installs[i].status = "ACTIVE"]

NodeMark(i) ==
  [number |-> NumberOf(i), node |-> installs[i].node, folder |-> Folder(i), active |-> FALSE]

Marks == {InstallMark(i) : i \in WholeInstalls} \cup {NodeMark(i) : i \in {j \in WholeInstalls : FirstOfNumber(j)}}

WholeLinks ==
  {l \in Link : /\ links[l] \in {"ACTIVE", "PLANNED"}
                /\ Null \notin {Pair(l)[1], Pair(l)[2]}
                /\ LinkType[l] # "VPN"}

Representative(b) == Least(InstallsIn(b))

LinkTuple(l) == {Representative(LosFrom[l]), Representative(LosTo[l])}

LosListed ==
  {l \in Los : /\ InstallsIn(LosFrom[l]) # {} /\ InstallsIn(LosTo[l]) # {}
               /\ LosFrom[l] # LosTo[l]
               /\ ~Linked(LosFrom[l], LosTo[l])}

LosLines ==
  LET listed == LosListed
      joined == {{Pair(k)[1], Pair(k)[2]} : k \in WholeLinks}
  IN  {l \in listed : /\ LinkTuple(l) \notin joined
                      /\ l = Least({k \in listed : LinkTuple(k) = LinkTuple(l)})}

-----------------------------------------------------------------------------
(* Everything active or planned is at one dot, the dot's node is there,    *)
(* and a number alone in its place is on the dot: looked up by number, an  *)
(* active node is found, and not among the planned ones.  The document has *)
(* the dot's folder and style (active_mesh_kml.py l.375-535).              *)
AloneAt(n) == \A m \in Node \ {n} : PlaceOf[m] = PlaceOf[n] => nodes[m].nn = Null

EveryPlaceMarked ==
  LET dots == Dots IN
  /\ \A d \in dots : /\ d.node # Null => PlaceOf[d.node] = d.place
                     /\ d.folder \in DocumentFolders /\ d.style \in DocumentStyles
  /\ \A i \in KmlInstalls : Cardinality({d \in dots : d.place = InstallPlace(i)}) = 1
  /\ \A n \in Node : Shown(n) /\ nodes[n].nn # Null /\ AloneAt(n) =>
       \E d \in dots : /\ d.place = PlaceOf[n] /\ d.number = nodes[n].nn
                       /\ nodes[n].status = "ACTIVE" => d.folder = NodeType[n]

(* A line's folder and style are in the document, and an active link is    *)
(* among the others only if it has no type.                                *)
Drawable(l) ==
  /\ LineFolder(l) \in DocumentFolders /\ LineStyle(l) \in DocumentStyles
  /\ LineFolder(l) = "Other" => LinkType[l] = Null

LinksOf(l, drawn) == {k \in drawn : {From[k], To[k]} = {From[l], To[l]}}

SightsOf(l, drawn) == {k \in drawn : {LosFrom[k], LosTo[k]} = {LosFrom[l], LosTo[l]}}

(* Whatever the directions and the heights, two nodes have one line, and   *)
(* it is no slower a link than any other of the two                        *)
(* (active_mesh_kml.py l.221: "consistent ordering regardless of from/to   *)
(* direction"); buildings in sight of each other have one, too, unless a   *)
(* link joins them, a number is another install's, or an install is on     *)
(* another building's node (geography.py l.290-351, where installs'        *)
(* numbers are compared with nodes' numbers).                              *)
OneLinePerPair ==
  LET lines  == Lines
      sights == LosLines
  IN
  /\ \A l \in lines : Drawable(l)
  /\ \A l \in KmlLinks :
       /\ Cardinality(LinksOf(l, lines)) =< 1
       /\ \E k \in lines : Span(k) = Span(l) /\ Rank(k) =< Rank(l)
  /\ \A l \in Los :
       /\ Cardinality(SightsOf(l, sights)) =< 1
       /\ l \in LosListed /\ NothingRecycled /\ AtHome => SightsOf(l, sights) # {}

(* A number searched in the whole file is in it at most twice, and leads   *)
(* to one node: the install of that number is the node's, or not listed    *)
(* (geography.py l.223-238: "once for each NN, this makes searching much   *)
(* easier").                                                               *)
SearchLeadsHome ==
  /\ Claimed => \A x, y \in Marks :
       x.number = y.number /\ x.node # Null /\ y.node = Null => installs[x.number].node = x.node
  /\ \A i \in WholeInstalls : NumberOf(i) # Null =>
       Cardinality({x \in Marks : x.number = NumberOf(i) /\ x.node # Null}) = 1
=============================================================================
