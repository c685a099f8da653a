-------------------------- MODULE MeshViews_proofs --------------------------
(***************************************************************************)
(* The lookups, the two KML files and the growth graph, for every          *)
(* registry: a number means one node everywhere, every place has one dot,  *)
(* every pair one line, and the graph counts no install twice.             *)
(* All of it follows from the invariant of MapData_proofs: files, lookups  *)
(* and graphs are computed, nothing of them is kept.                       *)
(***************************************************************************)
EXTENDS MapData_proofs, MeshKML, Lookups, AdminMap, SiteStats

(* A set in which any two members are the same has at most one. *)
LEMMA NoTwoMembers ==
  ASSUME NEW S, \A x, y \in S : x = y
  PROVE  IsFiniteSet(S) /\ Cardinality(S) =< 1
<1>1. CASE S = {}
  BY <1>1, FS_EmptySet
<1>2. CASE S # {}
  <2> PICK x \in S : TRUE
    BY <1>2
  <2>1. S = {x}
    <3>1. \A y \in S : y = x
      OBVIOUS
    <3> QED
      BY <3>1
  <2>2. IsFiniteSet(S) /\ Cardinality(S) = 1
    BY <2>1, FS_Singleton
  <2> QED
    BY <2>2
<1> QED
  BY <1>1, <1>2

-----------------------------------------------------------------------------
(***************************************************************************)
(* Lookups.                                                                *)
(***************************************************************************)
(* The node with a number, and no other, is found by it. *)
LEMMA Resolves ==
  ASSUME Inv, NEW n \in Node, nodes[n].nn # Null
  PROVE  ResolvedNode(nodes[n].nn) = n
<1>1. WithNumber(nodes[n].nn) = {n}
  BY DEF Inv, NumbersOfNodes, Unique, WithNumber
<1>2. NodeObject(nodes[n].nn) = n
  BY <1>1 DEF NodeObject
<1> QED
  BY <1>2, MapAssumption DEF ResolvedNode

(* A number that no node has is its install's. *)
LEMMA ResolvesInstall ==
  ASSUME NEW i \in Installs, \A n \in Node : nodes[n].nn # i
  PROVE  ResolvedNode(i) = installs[i].node
BY DEF ResolvedNode, NodeObject, WithNumber

(* A number means the same node everywhere (helpers.py l.95-108,           *)
(* lookups.py l.102-379, map.py l.66): on the map, to the helper and in    *)
(* the lookups, because the numbers of nodes are looked at first.          *)
THEOREM NumbersMeanOneNode == Spec => []OneMeaning
<1>1. ASSUME Inv, Claimed, NEW e \in Entries PROVE ResolvedNode(e.number) = e.node
  <2>1. CASE \E i \in ListedInstalls : e = [number |-> i, node |-> installs[i].node, fake |-> FALSE]
    <3> PICK i \in ListedInstalls : e = [number |-> i, node |-> installs[i].node, fake |-> FALSE]
      BY <2>1
    <3>1. i \in Installs /\ installs[i].status # "NN_REASSIGNED"
      BY DEF ListedInstalls
    <3>2. CASE \A n \in Node : nodes[n].nn # i
      BY <3>1, <3>2, ResolvesInstall
    <3>3. ASSUME NEW n \in Node, nodes[n].nn = i PROVE ResolvedNode(i) = installs[i].node
      <4>1. installs[i].node = n
        BY <1>1, <3>1, <3>3 DEF Claimed
      <4>2. i # Null
        BY <3>1, MapAssumption
      <4> QED
        BY <1>1, <3>3, <4>1, <4>2, Resolves
    <3> QED
      BY <3>2, <3>3
  <2>2. CASE \E n \in Uncovered : e = [number |-> nodes[n].nn, node |-> n, fake |-> TRUE]
    BY <1>1, <2>2, Resolves DEF Uncovered
  <2> QED
    BY <2>1, <2>2 DEF Entries
<1>2. ASSUME Inv, NEW n \in Node, nodes[n].nn # Null
      PROVE  LET k == nodes[n].nn
             IN  /\ ResolvedNode(k) = n
                 /\ \A i \in LookupInstall(k) \cup QueryInstall(k) : LookupNode(i) = {n}
                 /\ LookupBuilding(k) \cup LookupPrimary(k) = BuildingsOf(n)
                 /\ \A l \in LookupLink(k) : n \in {From[l], To[l]}
                 /\ LookupLOSOfNode(n) \subseteq LookupLOS(k)
  <2> DEFINE k == nodes[n].nn
  <2>1. \A m \in Node : nodes[m].nn = k => m = n
    BY <1>2 DEF Inv, Unique
  <2>2. \A i \in Installs : installs[i].node \in Node \cup {Null}
    BY <1>2 DEF Inv, TypeOK, InstallRow
  <2>3. \A b \in Building : NodesOf(b) \subseteq Node /\ (primary[b] # Null => primary[b] \in NodesOf(b))
    BY <1>2, MapAssumption DEF Inv, TypeOK, NodesOf
  <2>4. \A i \in LookupInstall(k) \cup QueryInstall(k) : LookupNode(i) = {n}
    BY <2>1, <2>2 DEF LookupInstall, QueryInstall, LookupNode
  <2>5. LookupBuilding(k) = BuildingsOf(n)
    BY <2>1, <2>3 DEF LookupBuilding, BuildingsOf
  <2>6. LookupPrimary(k) \subseteq BuildingsOf(n)
    BY <2>1, <2>3 DEF LookupPrimary, BuildingsOf
  <2>7. \A l \in LookupLink(k) : n \in {From[l], To[l]}
    BY <2>1, MapAssumption DEF LookupLink
  <2>8. LookupLOSOfNode(n) \subseteq LookupLOS(k)
    BY <2>5, MapAssumption DEF LookupLOSOfNode, LookupLOS, BuildingsOf
  <2> QED
    BY <1>2, <2>4, <2>5, <2>6, <2>7, <2>8, Resolves
<1>3. Inv => OneMeaning
  BY <1>1, <1>2 DEF OneMeaning
<1> QED
  BY <1>3, Invariance, PTL

-----------------------------------------------------------------------------
(***************************************************************************)
(* The whole file.                                                         *)
(***************************************************************************)
(* A mark of a node is made for the first install of the node's number. *)
LEMMA MarkOfNode ==
  ASSUME TypeOK, NEW x \in Marks, x.node # Null
  PROVE  \E j \in WholeInstalls : FirstOfNumber(j) /\ x = NodeMark(j)
BY DEF Marks, InstallMark

(* A number searched in the whole file is in it at most twice, and leads   *)
(* to one node (geography.py l.223-238).                                   *)
THEOREM SearchesLeadHome == Spec => []SearchLeadsHome
<1>1. ASSUME Inv, Claimed, NEW x \in Marks, NEW y \in Marks,
             x.number = y.number, x.node # Null, y.node = Null
      PROVE  installs[x.number].node = x.node
  <2>1. PICK j \in WholeInstalls : FirstOfNumber(j) /\ x = NodeMark(j)
    BY <1>1, MarkOfNode DEF Inv
  <2>2. y.number \in WholeInstalls
    <3>1. \A i \in WholeInstalls : FirstOfNumber(i) => installs[i].node # Null
      BY DEF FirstOfNumber, NumberOf
    <3> QED
      BY <1>1, <3>1 DEF Marks, InstallMark, NodeMark
  <2>3. installs[j].node \in Node /\ x.number = nodes[installs[j].node].nn
    BY <1>1, <2>1 DEF Inv, TypeOK, InstallRow, WholeInstalls, FirstOfNumber, NumberOf, NodeMark
  <2> QED
    BY <1>1, <2>1, <2>2, <2>3 DEF Claimed, WholeInstalls, NodeMark
<1>2. ASSUME Inv, NEW i \in WholeInstalls, NumberOf(i) # Null
      PROVE  Cardinality({x \in Marks : x.number = NumberOf(i) /\ x.node # Null}) = 1
  <2> DEFINE alike == {j \in WholeInstalls : NumberOf(j) = NumberOf(i)}
             first == Least(alike)
             mark  == NodeMark(first)
  <2>1. first \in alike
    <3>1. alike \subseteq Nat /\ alike # {}
      BY MapAssumption DEF WholeInstalls
    <3> HIDE DEF alike
    <3> QED
      BY <3>1, LeastIs
  <2>2. FirstOfNumber(first)
    BY <1>2, <2>1 DEF FirstOfNumber
  <2>3. mark \in Marks /\ mark.number = NumberOf(i) /\ mark.node # Null
    <3>1. installs[first].node # Null
      BY <1>2, <2>1 DEF NumberOf
    <3> QED
      BY <2>1, <2>2, <3>1 DEF Marks, NodeMark
  <2>4. \A x \in Marks : x.number = NumberOf(i) /\ x.node # Null => x = mark
    <3> SUFFICES ASSUME NEW x \in Marks, x.number = NumberOf(i), x.node # Null PROVE x = mark
      OBVIOUS
    <3> PICK j \in WholeInstalls : FirstOfNumber(j) /\ x = NodeMark(j)
      BY <1>2, MarkOfNode DEF Inv
    <3>1. j = first
      BY DEF FirstOfNumber, NodeMark
    <3> QED
      BY <3>1
  <2>5. {x \in Marks : x.number = NumberOf(i) /\ x.node # Null} = {mark}
    <3> HIDE DEF mark
    <3> QED
      BY <2>3, <2>4
  <2> QED
    BY <2>5, FS_Singleton
<1>3. Inv => SearchLeadsHome
  BY <1>1, <1>2 DEF SearchLeadsHome
<1> QED
  BY <1>3, Invariance, PTL

-----------------------------------------------------------------------------
(***************************************************************************)
(* The dots of the active file.                                            *)
(***************************************************************************)
(* Every finite set of numbers that is not empty has a greatest one: there *)
(* is no endless chain of smaller and smaller sets of the numbers above.   *)
LEMMA GreatestIs ==
  ASSUME NEW S, S \subseteq Nat, S # {}, IsFiniteSet(S)
  PROVE  Greatest(S) \in S
<1> DEFINE Above(i) == {j \in S : i < j}
           All == {Above(i) : i \in S}
<1>1. \E A \in All : \A B \in All : ~(B \subseteq A /\ B # A)
  <2>1. All \subseteq SUBSET S /\ All # {}
    OBVIOUS
  <2>2. IsWellFoundedOn(StrictSubsetOrdering(S), SUBSET S)
    BY FS_StrictSubsetOrderingWellFounded, FS_FiniteSubsetsOfFinite
  <2> HIDE DEF All
  <2>3. \E A \in All : \A B \in All : <<B, A>> \notin StrictSubsetOrdering(S)
    BY <2>1, <2>2, WFMin
  <2> QED
    BY <2>1, <2>3 DEF StrictSubsetOrdering
<1>2. PICK i \in S : \A j \in S : ~(Above(j) \subseteq Above(i) /\ Above(j) # Above(i))
  <2> PICK A \in All : \A B \in All : ~(B \subseteq A /\ B # A)
    BY <1>1
  <2>1. PICK i \in S : A = Above(i)
    OBVIOUS
  <2>2. \A j \in S : Above(j) \in All
    OBVIOUS
  <2> HIDE DEF Above, All
  <2> QED
    BY <2>1, <2>2
<1>3. \A j \in S : j =< i
  <2> SUFFICES ASSUME NEW j \in S, ~(j =< i) PROVE FALSE
    OBVIOUS
  <2>1. \A k \in S : j < k => i < k
    OBVIOUS
  <2>2. Above(j) \subseteq Above(i)
    BY <2>1
  <2>3. j \in Above(i) /\ j \notin Above(j)
    OBVIOUS
  <2> QED
    BY <1>2, <2>2, <2>3
<1> HIDE DEF Above
<1> QED
  BY <1>3 DEF Greatest

(* Of several nodes one comes first. *)
LEMMA FirstNodeIs ==
  ASSUME TypeOK, NEW S \in SUBSET Node, S # {}
  PROVE  /\ FirstNode(S) \in S
         /\ \A m \in S : nodes[m].nn # Null =>
               nodes[FirstNode(S)].nn # Null /\ nodes[FirstNode(S)].nn =< nodes[m].nn
<1> DEFINE numbers == {nodes[m].nn : m \in {n \in S : nodes[n].nn # Null}}
<1>1. \A m \in Node : nodes[m].nn \in Nat \cup {Null}
  BY DEF TypeOK, NodeRow
<1>2. \E n \in S : \A m \in S : nodes[m].nn # Null => nodes[n].nn # Null /\ nodes[n].nn =< nodes[m].nn
  <2>1. CASE numbers = {}
    BY <2>1
  <2>2. CASE numbers # {}
    <3>1. numbers \subseteq Nat
      BY <1>1
    <3>2. Least(numbers) \in numbers /\ \A k \in numbers : Least(numbers) =< k
      <4> HIDE DEF numbers
      <4> QED
        BY <2>2, <3>1, LeastIs
    <3>3. PICK n \in S : nodes[n].nn # Null /\ nodes[n].nn = Least(numbers)
      BY <3>2
    <3>4. \A m \in S : nodes[m].nn # Null => nodes[m].nn \in numbers
      OBVIOUS
    <3> HIDE DEF numbers
    <3> QED
      BY <3>2, <3>3, <3>4
  <2> QED
    BY <2>1, <2>2
<1> QED
  BY <1>2 DEF FirstNode

(* The install that names a dot stands on a numbered node of the place. *)
LEMMA NumberedIs ==
  ASSUME TypeOK, NEW p, NumberedAt(p) # {}
  PROVE  LET n == installs[Greatest(NumberedAt(p))].node
         IN  n \in Node /\ PlaceOf[n] = p /\ nodes[n].nn # Null
<1>1. NumberedAt(p) \subseteq Nat /\ IsFiniteSet(NumberedAt(p))
  <2>1. NumberedAt(p) \subseteq Installs
    BY DEF NumberedAt, InstallsAt, KmlInstalls
  <2> QED
    BY <2>1, MapAssumption, FS_Subset
<1>2. Greatest(NumberedAt(p)) \in NumberedAt(p)
  BY <1>1, GreatestIs
<1> QED
  BY <1>2 DEF NumberedAt, InstallsAt, KmlInstalls, InstallPlace, TypeOK, InstallRow

(* The node of a dot is in its place. *)
LEMMA DotNodeIs ==
  ASSUME TypeOK, NEW p, DotNode(p) # Null
  PROVE  DotNode(p) \in Node /\ PlaceOf[DotNode(p)] = p
<1>1. CASE NumberedAt(p) # {}
  BY <1>1, NumberedIs DEF DotNode
<1>2. CASE NumberedAt(p) = {}
  <2>1. NodesAt(p) # {} /\ DotNode(p) = FirstNode(NodesAt(p))
    BY <1>2 DEF DotNode
  <2>2. NodesAt(p) \in SUBSET Node
    BY DEF NodesAt
  <2> QED
    BY <2>1, <2>2, FirstNodeIs DEF NodesAt
<1> QED
  BY <1>1, <1>2

(* The type of a dot is one of the document's. *)
LEMMA DotTypeIs ==
  ASSUME TypeOK, NEW p \in Places
  PROVE  DotType(p) \in NodeTypes
<1> DEFINE first == installs[Least(InstallsAt(p))].node
<1>1. CASE DotNode(p) # Null
  BY <1>1, DotNodeIs, KMLAssumption DEF DotType
<1>2. CASE DotNode(p) = Null
  <2>1. NumberedAt(p) = {} /\ NodesAt(p) = {}
    <3>1. NumberedAt(p) = {}
      BY <1>2, NumberedIs, MapAssumption DEF DotNode
    <3>2. NodesAt(p) # {} => FirstNode(NodesAt(p)) \in Node
      BY FirstNodeIs DEF NodesAt
    <3> QED
      BY <1>2, <3>1, <3>2, MapAssumption DEF DotNode
  <2>2. Least(InstallsAt(p)) \in InstallsAt(p)
    <3>1. InstallsAt(p) # {}
      BY <2>1 DEF Places
    <3>2. InstallsAt(p) \subseteq Nat
      BY MapAssumption DEF InstallsAt, KmlInstalls
    <3> QED
      BY <3>1, <3>2, LeastIs
  <2>3. first \in Node \cup {Null}
    BY <2>2 DEF InstallsAt, KmlInstalls, TypeOK, InstallRow
  <2>4. first \in Node => NodeType[first] \in NodeTypes
    BY KMLAssumption
  <2> QED
    BY <1>2, <2>3, <2>4 DEF DotType, NodeTypes
<1> QED
  BY <1>1, <1>2

(* Everything active or planned is at one dot, the dot's node is there,    *)
(* and a number alone in its place is on the dot (active_mesh_kml.py       *)
(* l.375-535).                                                             *)
THEOREM PlacesAreMarked == Spec => []EveryPlaceMarked
<1>1. ASSUME Inv, NEW d \in Dots
      PROVE  /\ d.node # Null => PlaceOf[d.node] = d.place
             /\ d.folder \in DocumentFolders /\ d.style \in DocumentStyles
  <2> PICK p \in Places : d = Dot(p)
    BY DEF Dots
  <2>1. DotType(p) \in NodeTypes
    BY <1>1, DotTypeIs DEF Inv
  <2>2. d.node # Null => PlaceOf[d.node] = d.place
    BY <1>1, DotNodeIs DEF Dot, Inv
  <2>3. d.folder \in DocumentFolders
    BY <2>1 DEF Dot, DocumentFolders
  <2>4. d.style \in DocumentStyles
    <3>1. StyleMap[DotType(p)] \in DocumentStyles
      BY <2>1 DEF StyleMap, NodeTypes, DocumentStyles
    <3> QED
      BY <3>1 DEF Dot, DocumentStyles
  <2> QED
    BY <2>2, <2>3, <2>4
<1>2. ASSUME Inv, NEW i \in KmlInstalls
      PROVE  Cardinality({d \in Dots : d.place = InstallPlace(i)}) = 1
  <2> DEFINE p == InstallPlace(i)
  <2>1. p \in {PlaceOf[n] : n \in Node} \cup {SiteOf[b] : b \in Building}
    BY <1>2, MapAssumption DEF InstallPlace, KmlInstalls, Inv, TypeOK, InstallRow
  <2>2. p \in Places
    BY <2>1 DEF Places, InstallsAt
  <2>3. {d \in Dots : d.place = p} = {Dot(p)}
    <3>1. Dot(p) \in Dots /\ Dot(p).place = p
      BY <2>2 DEF Dots, Dot
    <3>2. \A d \in Dots : d.place = p => d = Dot(p)
      <4>1. \A q : Dot(q).place = q
        BY DEF Dot
      <4> QED
        BY <4>1 DEF Dots
    <3> QED
      BY <3>1, <3>2
  <2> QED
    BY <2>3, FS_Singleton
<1>3. ASSUME Inv, NEW n \in Node, Shown(n), nodes[n].nn # Null, AloneAt(n)
      PROVE  \E d \in Dots : /\ d.place = PlaceOf[n] /\ d.number = nodes[n].nn
                             /\ nodes[n].status = "ACTIVE" => d.folder = NodeType[n]
  <2> DEFINE p == PlaceOf[n]
  <2>1. n \in NodesAt(p)
    BY <1>3 DEF NodesAt
  <2>2. p \in Places
    BY <2>1 DEF Places
  <2>3. DotNode(p) = n
    <3>1. \A m \in Node : PlaceOf[m] = p /\ nodes[m].nn # Null => m = n
      BY <1>3 DEF AloneAt
    <3>2. CASE NumberedAt(p) # {}
      BY <1>3, <3>1, <3>2, NumberedIs DEF DotNode, Inv
    <3>3. CASE NumberedAt(p) = {}
      <4>1. NodesAt(p) \in SUBSET Node /\ NodesAt(p) # {}
        BY <2>1 DEF NodesAt
      <4>2. FirstNode(NodesAt(p)) \in NodesAt(p) /\ nodes[FirstNode(NodesAt(p))].nn # Null
        BY <1>3, <2>1, <4>1, FirstNodeIs DEF Inv
      <4> QED
        BY <3>1, <3>3, <4>1, <4>2 DEF DotNode, NodesAt
    <3> QED
      BY <3>2, <3>3
  <2>4. n # Null
    BY MapAssumption
  <2>5. Dot(p) \in Dots /\ Dot(p).place = p /\ Dot(p).number = nodes[n].nn
    BY <2>2, <2>3, <2>4 DEF Dots, Dot
  <2>6. nodes[n].status = "ACTIVE" => Dot(p).folder = NodeType[n]
    BY <2>1, <2>3, <2>4 DEF Dot, ActiveAt, DotType
  <2> QED
    BY <2>5, <2>6
<1>4. Inv => EveryPlaceMarked
  BY <1>1, <1>2, <1>3 DEF EveryPlaceMarked
<1> QED
  BY <1>4, Invariance, PTL

-----------------------------------------------------------------------------
(***************************************************************************)
(* The lines of both files.                                                *)
(***************************************************************************)
(* A type that has no place in the order has that of "Other". *)
LEMMA RankIs == \A l : Rank(l) \in Nat
<1> SUFFICES ASSUME NEW l PROVE Rank(l) \in Nat
  OBVIOUS
<1>1. DOMAIN PriorityOrder \subseteq Nat
  BY DEF PriorityOrder
<1>2. CASE \E r \in DOMAIN PriorityOrder : PriorityOrder[r] = KmlLinkType(l)
  <2> PICK r \in DOMAIN PriorityOrder : PriorityOrder[r] = KmlLinkType(l)
    BY <1>2
  <2>1. (CHOOSE s \in DOMAIN PriorityOrder : PriorityOrder[s] = KmlLinkType(l)) \in DOMAIN PriorityOrder
    OBVIOUS
  <2> QED
    BY <1>1, <1>2, <2>1 DEF Rank
<1>3. CASE ~ \E r \in DOMAIN PriorityOrder : PriorityOrder[r] = KmlLinkType(l)
  BY <1>3 DEF Rank
<1> QED
  BY <1>2, <1>3

(* Of several links one is best, and only one. *)
LEMMA BestIs ==
  ASSUME NEW G \in SUBSET Link, G # {}
  PROVE  \E l \in G : IsBest(l, G)
<1> DEFINE ranks == {Rank(k) : k \in G}
           best == {k \in G : Rank(k) = Least(ranks)}
<1>1. Least(ranks) \in ranks /\ \A r \in ranks : Least(ranks) =< r
  <2>1. ranks \subseteq Nat /\ ranks # {}
    BY RankIs
  <2> HIDE DEF ranks
  <2> QED
    BY <2>1, LeastIs
<1>2. Least(best) \in best /\ \A k \in best : Least(best) =< k
  <2>1. best \subseteq Nat
    BY MapAssumption
  <2>2. best # {}
    BY <1>1
  <2> HIDE DEF best
  <2> QED
    BY <2>1, <2>2, LeastIs
<1>3. ASSUME NEW k \in G
      PROVE  Rank(Least(best)) < Rank(k) \/ (Rank(Least(best)) = Rank(k) /\ Least(best) =< k)
  <2>1. Rank(Least(best)) = Least(ranks) /\ Least(ranks) =< Rank(k)
    BY <1>1, <1>2
  <2>2. Rank(k) = Least(ranks) => Least(best) =< k
    BY <1>2
  <2>3. Rank(k) \in Nat /\ Rank(Least(best)) \in Nat
    BY RankIs
  <2> HIDE DEF best, ranks
  <2> QED
    BY <2>1, <2>2, <2>3
<1> QED
  BY <1>2, <1>3 DEF IsBest

LEMMA OneIsBest ==
  ASSUME NEW G \in SUBSET Link, NEW k \in G, NEW l \in G, IsBest(k, G), IsBest(l, G)
  PROVE  k = l
<1>1. Rank(k) \in Nat /\ Rank(l) \in Nat /\ k \in Nat /\ l \in Nat
  BY RankIs, MapAssumption
<1>2. Rank(k) < Rank(l) \/ (Rank(k) = Rank(l) /\ k =< l)
  BY DEF IsBest
<1>3. Rank(l) < Rank(k) \/ (Rank(l) = Rank(k) /\ l =< k)
  BY DEF IsBest
<1> QED
  BY <1>1, <1>2, <1>3

(* The links drawn beside a link. *)
GroupOf(l) == {k \in KmlLinks : Span(k) = Span(l)}

LEMMA LinesAre == Lines = {l \in KmlLinks : IsBest(l, GroupOf(l))}
BY DEF Lines, GroupOf

(* The types of links have a name, a folder and a style. *)
LEMMA TypesAreDrawn ==
  ASSUME NEW l \in Link
  PROVE  Drawable(l)
<1>1. LinkType[l] \in RawLinkTypes \cup {Null}
  BY KMLAssumption
<1>2. KmlLinkType(l) \in LinkTypeColors /\ (KmlLinkType(l) = "Other" => LinkType[l] = Null)
  BY <1>1 DEF RawLinkTypes, KmlLinkType, LinkTypeColors
<1>3. LineFolder(l) \in DocumentFolders /\ (LineFolder(l) = "Other" => LinkType[l] = Null)
  BY <1>2 DEF LineFolder, FolderType, DocumentFolders
<1>4. LineStyle(l) \in DocumentStyles
  BY <1>2 DEF LineStyle, FolderType, DocumentStyles
<1> QED
  BY <1>3, <1>4 DEF Drawable

(* The install that stands for a building with installs is one of them, so *)
(* that buildings are told apart by it.                                    *)
LEMMA RepresentativeIs ==
  ASSUME NEW b \in Building, InstallsIn(b) # {}
  PROVE  Representative(b) \in Installs /\ BuildingOf[Representative(b)] = b
<1>1. InstallsIn(b) \subseteq Nat
  BY MapAssumption DEF InstallsIn
<1>2. Least(InstallsIn(b)) \in InstallsIn(b)
  BY <1>1, LeastIs
<1> QED
  BY <1>2 DEF Representative, InstallsIn

(* Lines of sight with the same installs are between the same buildings. *)
LEMMA TuplesTell ==
  ASSUME NEW k \in LosListed, NEW l \in LosListed
  PROVE  LinkTuple(k) = LinkTuple(l) <=> {LosFrom[k], LosTo[k]} = {LosFrom[l], LosTo[l]}
<1>1. \A m \in LosListed : /\ LosFrom[m] \in Building /\ InstallsIn(LosFrom[m]) # {}
                           /\ LosTo[m] \in Building /\ InstallsIn(LosTo[m]) # {}
  BY MapAssumption DEF LosListed
<1>2. \A m \in LosListed : /\ BuildingOf[Representative(LosFrom[m])] = LosFrom[m]
                           /\ BuildingOf[Representative(LosTo[m])] = LosTo[m]
  BY <1>1, RepresentativeIs
<1> DEFINE a(m) == Representative(LosFrom[m])
           b(m) == Representative(LosTo[m])
<1>3. ASSUME {a(k), b(k)} = {a(l), b(l)} PROVE {LosFrom[k], LosTo[k]} = {LosFrom[l], LosTo[l]}
  <2>1. \/ a(k) = a(l) /\ b(k) = b(l)
        \/ a(k) = b(l) /\ b(k) = a(l)
    BY <1>3
  <2> HIDE DEF a, b
  <2> QED
    BY <1>2, <2>1 DEF a, b
<1>4. ASSUME {LosFrom[k], LosTo[k]} = {LosFrom[l], LosTo[l]} PROVE {a(k), b(k)} = {a(l), b(l)}
  <2>1. \/ LosFrom[k] = LosFrom[l] /\ LosTo[k] = LosTo[l]
        \/ LosFrom[k] = LosTo[l] /\ LosTo[k] = LosFrom[l]
    BY <1>4
  <2> QED
    BY <2>1
<1> QED
  BY <1>3, <1>4 DEF LinkTuple

(* No link that is drawn has the numbers of two installs whose buildings   *)
(* are not linked, as long as these numbers are their installs' nodes'.    *)
LEMMA NotJoined ==
  ASSUME TypeOK, NothingRecycled, AtHome, NEW l \in LosListed, NEW k \in WholeLinks
  PROVE  LinkTuple(l) # {Pair(k)[1], Pair(k)[2]}
<1> SUFFICES ASSUME LinkTuple(l) = {Pair(k)[1], Pair(k)[2]} PROVE FALSE
  OBVIOUS
<1> DEFINE A == LosFrom[l]
           B == LosTo[l]
<1>1. /\ A \in Building /\ InstallsIn(A) # {} /\ B \in Building /\ InstallsIn(B) # {}
      /\ ~Linked(A, B)
  BY MapAssumption DEF LosListed
<1>2. k \in Link /\ links[k] # "absent" /\ From[k] \in Node /\ To[k] \in Node
  BY MapAssumption DEF WholeLinks
<1>3. ASSUME NEW b \in Building, InstallsIn(b) # {}, NEW n \in Node, nodes[n].nn = Representative(b)
      PROVE  n \in NodesOf(b)
  <2>1. Representative(b) \in Installs /\ BuildingOf[Representative(b)] = b
    BY <1>3, RepresentativeIs
  <2>2. installs[Representative(b)].node = n
    BY <1>3, <2>1 DEF NothingRecycled
  <2>3. n # Null
    BY MapAssumption
  <2> QED
    BY <2>1, <2>2, <2>3 DEF AtHome
<1>4. \/ Representative(A) = nodes[From[k]].nn /\ Representative(B) = nodes[To[k]].nn
      \/ Representative(A) = nodes[To[k]].nn /\ Representative(B) = nodes[From[k]].nn
  BY DEF LinkTuple, Pair
<1> HIDE DEF A, B
<1> QED
  BY <1>1, <1>2, <1>3, <1>4 DEF Linked

(* Whatever the directions and the heights, two nodes have one line, no    *)
(* slower than any other of theirs (active_mesh_kml.py l.221), and two     *)
(* buildings in sight of each other have one, unless they are linked       *)
(* (geography.py l.290-351).                                               *)
THEOREM PairsHaveOneLine == Spec => []OneLinePerPair
<1>1. KmlLinks \subseteq Link /\ \A l : GroupOf(l) \in SUBSET Link
  BY DEF KmlLinks, GroupOf
<1>2. ASSUME NEW l \in KmlLinks PROVE Cardinality(LinksOf(l, Lines)) =< 1
  <2>1. ASSUME NEW j \in LinksOf(l, Lines), NEW k \in LinksOf(l, Lines) PROVE j = k
    <3>1. Span(j) = Span(k)
      <4>1. {From[j], To[j]} = {From[k], To[k]}
        BY DEF LinksOf
      <4>2. \/ From[j] = From[k] /\ To[j] = To[k]
            \/ From[j] = To[k] /\ To[j] = From[k]
        BY <4>1
      <4> QED
        BY <4>2 DEF Span
    <3>2. /\ j \in KmlLinks /\ IsBest(j, GroupOf(j))
          /\ k \in KmlLinks /\ IsBest(k, GroupOf(k))
      BY LinesAre DEF LinksOf
    <3>3. GroupOf(j) = GroupOf(k) /\ j \in GroupOf(j) /\ k \in GroupOf(k)
      BY <3>1, <3>2 DEF GroupOf
    <3> QED
      BY <1>1, <3>2, <3>3, OneIsBest
  <2> QED
    BY <2>1, NoTwoMembers
<1>3. ASSUME NEW l \in KmlLinks PROVE \E k \in Lines : Span(k) = Span(l) /\ Rank(k) =< Rank(l)
  <2>1. l \in GroupOf(l)
    BY DEF GroupOf
  <2>2. PICK k \in GroupOf(l) : IsBest(k, GroupOf(l))
    BY <1>1, <2>1, BestIs
  <2>3. k \in KmlLinks /\ Span(k) = Span(l) /\ GroupOf(k) = GroupOf(l)
    BY DEF GroupOf
  <2>4. k \in Lines
    BY <2>2, <2>3, LinesAre
  <2>5. Rank(k) =< Rank(l)
    BY <2>1, <2>2, RankIs DEF IsBest
  <2> QED
    BY <2>3, <2>4, <2>5
<1>4. \A l \in LosLines : l \in LosListed /\ l = Least({k \in LosListed : LinkTuple(k) = LinkTuple(l)})
  BY DEF LosLines
<1>5. ASSUME NEW l \in Los PROVE Cardinality(SightsOf(l, LosLines)) =< 1
  <2>1. ASSUME NEW j \in SightsOf(l, LosLines), NEW k \in SightsOf(l, LosLines) PROVE j = k
    <3>1. j \in LosLines /\ k \in LosLines /\ {LosFrom[j], LosTo[j]} = {LosFrom[k], LosTo[k]}
      BY DEF SightsOf
    <3>2. LinkTuple(j) = LinkTuple(k)
      BY <1>4, <3>1, TuplesTell
    <3> QED
      BY <1>4, <3>1, <3>2
  <2> QED
    BY <2>1, NoTwoMembers
<1>6. ASSUME TypeOK, NothingRecycled, AtHome, NEW l \in LosListed PROVE SightsOf(l, LosLines) # {}
  <2> DEFINE alike == {k \in LosListed : LinkTuple(k) = LinkTuple(l)}
             first == Least(alike)
  <2>1. first \in alike
    <3>1. alike \subseteq Nat /\ alike # {}
      BY MapAssumption DEF LosListed
    <3> HIDE DEF alike
    <3> QED
      BY <3>1, LeastIs
  <2>2. first \in LosLines
    <3>1. \A k \in WholeLinks : LinkTuple(first) # {Pair(k)[1], Pair(k)[2]}
      BY <1>6, <2>1, NotJoined
    <3>2. first \in LosListed /\ alike = {k \in LosListed : LinkTuple(k) = LinkTuple(first)}
      BY <2>1
    <3>3. first = Least({k \in LosListed : LinkTuple(k) = LinkTuple(first)})
      BY <3>2
    <3> HIDE DEF first
    <3> QED
      BY <3>1, <3>2, <3>3 DEF LosLines
  <2>3. {LosFrom[first], LosTo[first]} = {LosFrom[l], LosTo[l]}
    BY <2>1, TuplesTell
  <2> HIDE DEF first
  <2> QED
    BY <2>2, <2>3 DEF SightsOf
<1>7. \A l \in Lines : Drawable(l)
  BY <1>1, LinesAre, TypesAreDrawn
<1>8. Inv => OneLinePerPair
  BY <1>2, <1>3, <1>5, <1>6, <1>7 DEF Inv, OneLinePerPair
<1> QED
  BY <1>8, Invariance, PTL

-----------------------------------------------------------------------------
(* An install's number and a node's are recycled together: whatever marks  *)
(* an install as reassigned, but for somebody who sets its status, finds   *)
(* or leaves a node with its number, and whatever leaves it so keeps that  *)
(* number, but for somebody who clears it (helpers.py l.59-62).            *)
LEMMA ObjectIsThere ==
  ASSUME NEW i \in Installs
  PROVE  /\ NodeObject(i) # Null <=> \E n \in Node : Present(n) /\ nodes[n].nn = i
         /\ NodeObject(i)' # Null <=> \E n \in Node : Present(n)' /\ nodes'[n].nn = i
<1>1. Null \notin Node
  BY MapAssumption
<1> QED
  BY <1>1 DEF NodeObject, WithNumber

LEMMA StepRecycles ==
  ASSUME Inv, [Next]_vars, NEW i \in Installs, Recycled(i)', ~Registry!Update(i, "NN_REASSIGNED"),
         ~GivesWay(i), Recycled(i) => NodeObject(i) # Null
  PROVE  NodeObject(i)' # Null
<1>1. i # Null /\ i # 0
  BY MapAssumption
<1>2. ASSUME UNCHANGED <<nodes, installs>> PROVE NodeObject(i)' # Null
  BY <1>2, ObjectIsThere DEF Recycled, Present
<1>3. ASSUME NEW n \in Node, NEW row, row.nn \in Nat \cup {Null}, row.status # "absent",
             nodes' = [nodes EXCEPT ![n] = row],
             nodes[n].nn \in {Null, 0, row.nn} \/ row.status = "ACTIVE", ~Recycled(i) => row.nn = i
      PROVE  NodeObject(i)' # Null
  <2>1. \A m \in Node : nodes'[m] = IF m = n THEN row ELSE nodes[m]
    BY <1>3 DEF Inv, TypeOK
  <2>2. CASE ~Recycled(i)
    BY <1>3, <2>1, <2>2, ObjectIsThere DEF Present
  <2>3. CASE Recycled(i)
    <3>1. PICK m \in Node : Present(m) /\ nodes[m].nn = i
      BY <2>3, ObjectIsThere
    <3>2. Present(m)' /\ nodes'[m].nn = i
      BY <1>1, <1>3, <2>1, <3>1 DEF Present, GivesWay
    <3> QED
      BY <3>2, ObjectIsThere
  <2> QED
    BY <2>2, <2>3
<1>4. ASSUME NEW j \in Installs, Registry!Assign(j) PROVE NodeObject(i)' # Null
  <2> PICK n \in Node, k \in {0} \cup (NNMin .. NNMax) :
        /\ Registry!GivenNumber(j, n, k)
        /\ nodes' = [nodes EXCEPT ![n] =
             [nn |-> k, status |-> IF @.status \in {"absent", "INACTIVE"} THEN "PLANNED" ELSE @.status]]
        /\ installs' = [h \in Installs |->
             IF h = j
             THEN [node |-> n, status |-> IF installs[j].status = "REQUEST_RECEIVED"
                                          THEN "PENDING" ELSE installs[j].status]
             ELSE [installs[h] EXCEPT !.status = IF Registry!Retired(n, k, h) THEN "NN_REASSIGNED" ELSE @]]
    BY <1>4 DEF Registry!Assign
  <2>1. PICK row : row = [nn |-> k, status |-> IF nodes[n].status \in {"absent", "INACTIVE"}
                                               THEN "PLANNED" ELSE nodes[n].status]
    OBVIOUS
  <2>2. nodes' = [nodes EXCEPT ![n] = row]
    BY <2>1
  <2>3. row.nn = k /\ row.status # "absent" /\ k \in Nat
    BY <2>1, StartAssumption
  <2>4. nodes[n].nn \in {Null, k}
    BY DEF Registry!GivenNumber
  <2>5. ~Recycled(i) => k = i
    BY DEF Recycled, Registry!Retired, Inv, TypeOK, InstallRow
  <2> QED
    BY <1>3, <2>2, <2>3, <2>4, <2>5
<1>5. ASSUME NEW n \in Node, NEW s \in {"PLANNED", "ACTIVE", "INACTIVE"},
             NEW typed \in Vanity \cup {nodes[n].nn}, Registry!Save(n, s, typed)
      PROVE  NodeObject(i)' # Null
  <2> PICK k \in {Null, 0} \cup (NNMin .. NNMax) :
        /\ IF Registry!Unset(typed) /\ s = "ACTIVE"
           THEN Registry!LowestFree(k)
           ELSE k = typed /\ nodes[n].nn \in {Null, k}
        /\ nodes' = [nodes EXCEPT ![n] = [nn |-> k, status |-> s]]
        /\ installs' = [h \in Installs |->
             [installs[h] EXCEPT !.status = IF Registry!Retired(n, k, h) THEN "NN_REASSIGNED" ELSE @]]
    BY <1>5 DEF Registry!Save
  <2>1. PICK row : row = [nn |-> k, status |-> s]
    OBVIOUS
  <2>2. nodes' = [nodes EXCEPT ![n] = row] /\ row.nn = k /\ row.status # "absent"
    BY <2>1
  <2>3. k \in Nat \cup {Null}
    BY StartAssumption
  <2>4. nodes[n].nn \in {Null, k} \/ row.status = "ACTIVE"
    BY <2>1
  <2>5. ~Recycled(i) => k = i
    BY DEF Recycled, Registry!Retired, Inv, TypeOK, InstallRow
  <2> QED
    BY <1>3, <2>2, <2>3, <2>4, <2>5
<1>6. ASSUME NEW j \in Installs, NEW s \in Registry!InstallStatus, Registry!Update(j, s)
      PROVE  NodeObject(i)' # Null
  <2>1. Recycled(i)
    BY <1>6 DEF Recycled, Registry!Update, Inv, TypeOK
  <2>2. nodes' = nodes
    BY <1>6 DEF Registry!Update
  <2> QED
    BY <2>1, <2>2, ObjectIsThere DEF Present
<1> QED
  BY <1>2, <1>4, <1>5, <1>6 DEF Next, Registry!Next, SetLink, vars

THEOREM RecycledTogether == Spec => RecycledWithNode
<1>1. Inv /\ [Next]_vars =>
        [\A i \in Installs :
           /\ Recycled(i)' /\ ~Registry!Update(i, "NN_REASSIGNED") /\ ~GivesWay(i)
           /\ Recycled(i) => NodeObject(i) # Null
           => NodeObject(i)' # Null]_vars
  BY StepRecycles
<1> QED
  BY <1>1, Invariance, PTL DEF Spec, RecycledWithNode

-----------------------------------------------------------------------------
(***************************************************************************)
(* The admin's page.  Rows change as they do for the map, so what holds of *)
(* entries holds here, and until somebody acts nothing is under way.       *)
(***************************************************************************)
LEMMA AdminInvariance == AdminSpec => []Inv
<1>1. AdminInit => Inv
  BY InitInv DEF AdminInit
<1>2. Inv /\ [AdminNext]_adminVars => Inv'
  <2>1. AdminNext \/ UNCHANGED adminVars => [Next]_vars
    BY DEF AdminNext, RowsChange, Visit, ClickMap, ToggleMap, Load, MoveMap, Answered, OpenPage, GiveUp, Act, adminVars
  <2> QED
    BY <2>1, StepInv
<1> QED
  BY <1>1, <1>2, PTL DEF AdminSpec

(* An entry that is clicked opens a page about it, from which the map is   *)
(* moved to a number that is on the map (map.js l.61-76, l.199-217).       *)
THEOREM ClicksStay == AdminSpec => []ClickStaysOnMap
<1>1. ASSUME NEW n \in Node, nodes[n].nn # Null
      PROVE  Focus(NodePage(n)) = {nodes[n].nn} /\ (Shown(n) => OnTheMap(nodes[n].nn))
  <2>1. Focus(NodePage(n)) = {nodes[n].nn}
    BY <1>1 DEF Focus, NodePage, Numbered
  <2> QED
    BY <1>1, <2>1, ShownOnMap
<1>2. ASSUME NEW i \in ListedInstalls PROVE Focus(InstallPage(i)) = {i} /\ OnTheMap(i)
  <2>1. Focus(InstallPage(i)) = {i}
    BY DEF Focus, InstallPage
  <2> QED
    BY <2>1, ListedOnMap
<1>3. ASSUME Inv, NEW e \in Entries, e.number \in ListedInstalls \/ e.number \notin Installs
      PROVE  \E p \in Opened(e.number) :
               /\ p \in {InstallPage(e.number), NodePage(e.node)}
               /\ e.node = Null \/ nodes[e.node].nn = Null \/ Shown(e.node) =>
                    Focus(p) # {} /\ \A k \in Focus(p) : OnTheMap(k) /\ k \in NumbersOf(e)
  <2>1. CASE e.number \in ListedInstalls
    <3>1. e.number \in Installs /\ e.node = installs[e.number].node /\ e.node \in Node \cup {Null}
      <4>1. \/ \E i \in ListedInstalls : e = [number |-> i, node |-> installs[i].node, fake |-> FALSE]
            \/ \E n \in Uncovered : e = [number |-> nodes[n].nn, node |-> n, fake |-> TRUE]
        BY DEF Entries
      <4>2. e.number \in Installs /\ e.node = installs[e.number].node
        BY <2>1, <4>1 DEF ListedInstalls, Uncovered
      <4> QED
        BY <4>2, <1>3 DEF Inv, TypeOK, InstallRow
    <3>2. CASE e.node # Null /\ nodes[e.node].nn # Null
      <4>1. NodePage(e.node) \in Opened(e.number)
        BY <3>1, <3>2 DEF Opened
      <4>2. Focus(NodePage(e.node)) = {nodes[e.node].nn} /\ nodes[e.node].nn \in NumbersOf(e)
        BY <1>1, <3>1, <3>2 DEF NumbersOf, Numbered
      <4>3. Shown(e.node) => OnTheMap(nodes[e.node].nn)
        BY <1>1, <3>1, <3>2
      <4> QED
        BY <3>2, <4>1, <4>2, <4>3
    <3>3. CASE e.node = Null \/ nodes[e.node].nn = Null
      <4>1. InstallPage(e.number) \in Opened(e.number)
        BY <3>1, <3>3 DEF Opened
      <4> QED
        BY <1>2, <2>1, <4>1 DEF NumbersOf
    <3> QED
      BY <3>2, <3>3
  <2>2. CASE e.number \notin Installs
    <3>1. e.node \in Node /\ nodes[e.node].nn = e.number /\ e.number # Null
      BY <2>2 DEF Entries, ListedInstalls, Uncovered
    <3>2. NodePage(e.node) \in Opened(e.number)
      BY <2>2, <3>1 DEF Opened, NodePages
    <3>3. Focus(NodePage(e.node)) = {e.number} /\ (Shown(e.node) => OnTheMap(e.number))
      BY <1>1, <3>1
    <3>4. e.number \in NumbersOf(e) /\ e.node # Null /\ nodes[e.node].nn # Null
      BY <3>1, MapAssumption DEF NumbersOf
    <3> QED
      BY <3>2, <3>3, <3>4
  <2> QED
    BY <1>3, <2>1, <2>2
<1>4. Inv => ClickStaysOnMap
  BY <1>3 DEF ClickStaysOnMap
<1> QED
  BY <1>4, AdminInvariance, PTL

(***************************************************************************)
(* Panel and map.  From an act while nothing is under way on, one thing at *)
(* most is: a page that is loading, a look-up of the page in the panel, or *)
(* one of a number that was clicked.  Nothing is to be known of the last   *)
(* two, since whatever page is opened is loaded and then looked up.        *)
(***************************************************************************)
Alone ==
  \/ \A i \in Ids : lookups[i] = Null
  \/ /\ opening = Null
     /\ \A i, j \in Ids : lookups[i] # Null /\ lookups[j] # Null => i = j
     /\ \A i \in Ids : LookingFor(i, "page") => lookups[i] = [page |-> panel]

Looked == [page : Page \cup {Home}] \cup [number : Nat] \cup [answer : SUBSET Page]

UiInv ==
  /\ lookups \in [Ids -> Looked \cup {Null}]
  /\ panel \in Page \cup {Home} /\ opening \in Page \cup {Home, Null}
  /\ ~apart =>
       /\ Alone
       /\ Quiet /\ ~hidden => Focus(panel) \in {{}, focus}

(* No page of the admin site that selects nothing moves the map. *)
LEMMA HomeSelects == Focus(Home) = {}
BY DEF Focus, Home

LEMMA FoundArePages ==
  ASSUME Inv, NEW k PROVE Opened(k) \subseteq Page /\ NodePages(k) \subseteq Page
<1>1. NodePages(k) \subseteq Page
  BY DEF NodePages, NodePage, Page
<1>2. CASE k \in Installs
  <2>1. installs[k].node \in Node \cup {Null}
    BY <1>2 DEF Inv, TypeOK, InstallRow
  <2>2. Opened(k) \in {{NodePage(installs[k].node)}, {InstallPage(k)}}
        /\ (NodePage(installs[k].node) \in Opened(k) => NodePage(installs[k].node) \in Page)
    BY <1>2, <2>1 DEF Opened, NodePage, InstallPage, Page
  <2> QED
    BY <1>1, <1>2, <2>2 DEF InstallPage, Page
<1>3. CASE k \notin Installs
  BY <1>1, <1>3 DEF Opened
<1> QED
  BY <1>1, <1>2, <1>3

(* Rows that stay leave every page's numbers as they are.                  *)
LEMMA FocusStays == ASSUME UNCHANGED vars, NEW p PROVE Focus(p)' = Focus(p)
BY DEF vars, Focus, Numbered, BuildingFocus, ListedInstalls, AtMostOne, AttachedTo, Both

-----------------------------------------------------------------------------
LEMMA InitUi == AdminInit => UiInv
<1> SUFFICES ASSUME AdminInit PROVE UiInv
  OBVIOUS
<1>1. panel = Home /\ lookups = [i \in Ids |-> Null] /\ opening = Null
  BY DEF AdminInit
<1> QED
  BY <1>1, HomeSelects DEF UiInv, Alone

LEMMA RowsUi == ASSUME UiInv, RowsChange PROVE UiInv'
BY DEF UiInv, RowsChange, ui

(* Nothing but a page is under way.                                        *)
LEMMA OpenUi ==
  ASSUME UiInv, opening' \in Page \cup {Home}, panel' \in Page \cup {Home},
         lookups' \in [Ids -> Looked \cup {Null}],
         ~apart' => \A i \in Ids : lookups'[i] = Null
  PROVE  UiInv'
<1>1. ~Quiet'
  BY AdminMapAssumption DEF Quiet
<1> QED
  BY <1>1 DEF UiInv, Alone

LEMMA VisitUi == ASSUME UiInv, NEW p \in Page, Visit(p) PROVE UiInv'
<1>1. opening' = p /\ panel' = panel /\ lookups' = lookups /\ apart' = ~Quiet
  BY DEF Visit, Act
<1> QED
  BY <1>1, OpenUi DEF UiInv, Quiet

LEMMA ToggleUi == ASSUME UiInv, ToggleMap PROVE UiInv'
<1>1. panel' = Home /\ opening' = panel /\ lookups' = [i \in Ids |-> Null]
  BY DEF ToggleMap
<1> QED
  BY <1>1, OpenUi DEF UiInv

(* One look-up begins.                                                     *)
LEMMA Asked ==
  ASSUME UiInv, NEW what \in Looked, Ask(what), \A i \in Ids : lookups[i] = Null
  PROVE  \E i \in Ids : \A j \in Ids : lookups'[j] = IF j = i THEN what ELSE Null
<1>1. PICK i \in Ids : lookups' = [lookups EXCEPT ![i] = what]
  BY DEF Ask
<1> QED
  BY <1>1 DEF UiInv

LEMMA AskedType ==
  ASSUME UiInv, NEW what \in Looked, Ask(what)
  PROVE  lookups' \in [Ids -> Looked \cup {Null}]
BY DEF UiInv, Ask

(* An act that has nothing beside it, and is not ignored, asks one thing.  *)
LEMMA ClickUi == ASSUME UiInv, NEW S \in Selections, ClickMap(S) PROVE UiInv'
<1>1. /\ apart' = (~Quiet \/ Ignored(S))
      /\ UNCHANGED <<panel, opening, hidden>>
  BY DEF ClickMap, Act
<1>2. CASE Ignored(S)
  <2>1. apart' /\ lookups' = lookups
    BY <1>1, <1>2 DEF ClickMap
  <2> QED
    BY <1>1, <2>1 DEF UiInv
<1>3. CASE ~Ignored(S)
  <2>1. PICK k \in S : Ask([number |-> k])
    BY <1>3 DEF ClickMap
  <2>2. PICK x : x = [number |-> k]
    OBVIOUS
  <2>3. x \in Looked /\ x # Null /\ DOMAIN x = {"number"}
    <3>1. k \in Nat
      BY AdminMapAssumption
    <3>2. x \in [number : Nat] /\ DOMAIN x = {"number"}
      BY <2>2, <3>1
    <3> QED
      BY <3>2, AdminMapAssumption DEF Looked
  <2>4. lookups' \in [Ids -> Looked \cup {Null}]
    BY <2>1, <2>2, <2>3, AskedType
  <2>5. CASE apart'
    BY <1>1, <2>4, <2>5 DEF UiInv
  <2>6. CASE ~apart'
    <3>1. opening = Null /\ \A i \in Ids : lookups[i] = Null
      BY <1>1, <2>6 DEF Quiet
    <3>2. PICK i \in Ids : \A j \in Ids : lookups'[j] = IF j = i THEN x ELSE Null
      BY <2>1, <2>2, <2>3, <3>1, Asked
    <3>3. \A j \in Ids : ~LookingFor(j, "page")'
      BY <2>3, <3>2 DEF LookingFor
    <3> QED
      BY <1>1, <2>3, <2>4, <3>1, <3>2, <3>3 DEF UiInv, Alone, Quiet
  <2> QED
    BY <2>5, <2>6
<1> QED
  BY <1>2, <1>3

(* A page that is loaded is looked up, unless the map is hidden, or nobody *)
(* listens.                                                                *)
LEMMA LoadUi == ASSUME UiInv, Load PROVE UiInv'
<1>1. PICK x : x = [page |-> opening]
  OBVIOUS
<1>2. /\ opening # Null /\ panel' = opening /\ opening' = Null /\ hidden' = hidden
  BY DEF Load
<1>3. panel' \in Page \cup {Home} /\ x \in Looked /\ x # Null
  <2>1. opening \in Page \cup {Home}
    BY <1>2 DEF UiInv
  <2>2. x \in [page : Page \cup {Home}]
    BY <1>1, <2>1
  <2> QED
    BY <1>2, <2>1, <2>2, AdminMapAssumption DEF Looked
<1>4. CASE hidden /\ UNCHANGED <<lookups, apart>>
  <2>1. ~apart' => \A i \in Ids : lookups'[i] = Null
    BY <1>2, <1>4 DEF UiInv, Alone
  <2> QED
    BY <1>2, <1>3, <1>4, <2>1 DEF UiInv, Alone
<1>5. CASE Ask(x) /\ UNCHANGED apart
  <2>1. lookups' \in [Ids -> Looked \cup {Null}]
    BY <1>3, <1>5, AskedType
  <2>2. CASE apart
    BY <1>2, <1>3, <1>5, <2>1, <2>2 DEF UiInv
  <2>3. CASE ~apart
    <3>1. \A i \in Ids : lookups[i] = Null
      BY <1>2, <2>3 DEF UiInv, Alone
    <3>2. PICK i \in Ids : \A j \in Ids : lookups'[j] = IF j = i THEN x ELSE Null
      BY <1>3, <1>5, <3>1, Asked
    <3>3. Alone' /\ ~Quiet'
      BY <1>1, <1>2, <1>3, <3>2 DEF Alone, Quiet, LookingFor
    <3> QED
      BY <1>2, <1>3, <2>1, <3>3 DEF UiInv
  <2> QED
    BY <2>2, <2>3
<1>6. CASE lookups' = lookups /\ apart' = TRUE
  BY <1>2, <1>3, <1>6 DEF UiInv
<1> QED
  BY <1>1, <1>4, <1>5, <1>6 DEF Load

(* A look-up ends, and nothing else was under way.                         *)
LEMMA Ended ==
  ASSUME UiInv, NEW i \in Ids, lookups[i] # Null, lookups' = [lookups EXCEPT ![i] = Null]
  PROVE  /\ lookups' \in [Ids -> Looked \cup {Null}]
         /\ ~apart => opening = Null /\ \A j \in Ids : lookups'[j] = Null
<1>1. \A j \in Ids : lookups'[j] = IF j = i THEN Null ELSE lookups[j]
  BY DEF UiInv
<1>2. lookups' \in [Ids -> Looked \cup {Null}]
  BY DEF UiInv
<1> QED
  BY <1>1, <1>2 DEF UiInv, Alone

LEMMA MoveUi == ASSUME UiInv, NEW i \in Ids, MoveMap(i) PROVE UiInv'
<1>1. /\ LookingFor(i, "page") /\ lookups[i] # Null
      /\ lookups' = [lookups EXCEPT ![i] = Null]
      /\ focus' = IF Focus(lookups[i].page) = {} THEN focus ELSE Focus(lookups[i].page)
      /\ UNCHANGED <<panel, opening, hidden, apart>> /\ UNCHANGED vars
  BY DEF MoveMap, LookingFor, vars
<1>2. Focus(panel)' = Focus(panel)
  BY <1>1 DEF vars, Focus, Numbered, BuildingFocus, ListedInstalls, AtMostOne, AttachedTo, Both
<1>3. ASSUME ~apart PROVE Focus(panel)' \in {{}, focus'}
  <2>1. lookups[i] = [page |-> panel]
    BY <1>1, <1>3 DEF UiInv, Alone
  <2>2. lookups[i].page = panel
    BY <2>1
  <2> QED
    BY <1>1, <1>2, <2>2
<1>4. /\ lookups' \in [Ids -> Looked \cup {Null}]
      /\ ~apart => opening = Null /\ \A j \in Ids : lookups'[j] = Null
  BY <1>1, Ended
<1> QED
  BY <1>1, <1>3, <1>4 DEF UiInv, Alone

LEMMA AnsweredUi == ASSUME Inv, UiInv, NEW i \in Ids, Answered(i) PROVE UiInv'
<1>1. PICK found \in {Opened(lookups[i].number), NodePages(lookups[i].number), {}} :
        /\ lookups' = [lookups EXCEPT ![i] = IF found = {} THEN Null ELSE [answer |-> found]]
        /\ apart' = (apart \/ found = {})
  BY DEF Answered
<1>2. LookingFor(i, "number") /\ lookups[i] # Null /\ UNCHANGED <<panel, opening, hidden>>
  BY DEF Answered, LookingFor
<1>3. CASE found = {}
  <2>1. lookups' \in [Ids -> Looked \cup {Null}]
    BY <1>1, <1>3 DEF UiInv
  <2> QED
    BY <1>1, <1>2, <1>3, <2>1 DEF UiInv
<1>4. CASE found # {}
  <2>1. PICK x : x = [answer |-> found]
    OBVIOUS
  <2>2. x \in Looked /\ x # Null /\ DOMAIN x = {"answer"}
    <3>1. found \in SUBSET Page
      BY <1>1, FoundArePages
    <3>2. x \in [answer : SUBSET Page] /\ DOMAIN x = {"answer"}
      BY <2>1, <3>1
    <3> QED
      BY <3>2, AdminMapAssumption DEF Looked
  <2>3. \A j \in Ids : lookups'[j] = IF j = i THEN x ELSE lookups[j]
    BY <1>1, <1>4, <2>1 DEF UiInv
  <2>4. lookups' \in [Ids -> Looked \cup {Null}]
    BY <1>1, <1>4, <2>1, <2>2 DEF UiInv
  <2>5. ~apart => Alone' /\ ~Quiet'
    BY <1>2, <2>2, <2>3 DEF UiInv, Alone, Quiet, LookingFor
  <2> QED
    BY <1>1, <1>2, <1>4, <2>4, <2>5 DEF UiInv
<1> QED
  BY <1>3, <1>4

LEMMA OpenPageUi == ASSUME UiInv, NEW i \in Ids, OpenPage(i) PROVE UiInv'
<1>1. /\ lookups[i] # Null /\ DOMAIN lookups[i] = {"answer"}
      /\ lookups' = [lookups EXCEPT ![i] = Null]
      /\ opening' \in lookups[i].answer
      /\ UNCHANGED <<panel, apart>>
  BY DEF OpenPage, LookingFor
<1>2. lookups[i] \in [answer : SUBSET Page]
  <2>1. lookups[i] \in Looked
    BY <1>1 DEF UiInv
  <2>2. ASSUME lookups[i] \in [page : Page \cup {Home}] PROVE DOMAIN lookups[i] = {"page"}
    BY <2>2
  <2>3. ASSUME lookups[i] \in [number : Nat] PROVE DOMAIN lookups[i] = {"number"}
    BY <2>3
  <2> QED
    BY <1>1, <2>1, <2>2, <2>3 DEF Looked
<1>3. opening' \in Page
  BY <1>1, <1>2
<1>4. /\ lookups' \in [Ids -> Looked \cup {Null}]
      /\ ~apart => \A j \in Ids : lookups'[j] = Null
  BY <1>1, Ended
<1>5. panel' \in Page \cup {Home}
  BY <1>1 DEF UiInv
<1> QED
  BY <1>1, <1>3, <1>4, <1>5, OpenUi

LEMMA GiveUpUi == ASSUME UiInv, NEW i \in Ids, GiveUp(i) PROVE UiInv'
<1>1. /\ lookups[i] # Null /\ lookups' = [lookups EXCEPT ![i] = Null]
      /\ apart' = TRUE /\ UNCHANGED <<panel, opening>>
  BY DEF GiveUp
<1> QED
  BY <1>1, Ended DEF UiInv

LEMMA StepUi == Inv /\ UiInv /\ [AdminNext]_adminVars => UiInv'
<1> SUFFICES ASSUME Inv, UiInv, [AdminNext]_adminVars PROVE UiInv'
  OBVIOUS
<1>1. CASE RowsChange
  BY <1>1, RowsUi
<1>2. CASE \E p \in Page : Visit(p)
  BY <1>2, VisitUi
<1>3. CASE \E S \in Selections : ClickMap(S)
  BY <1>3, ClickUi
<1>4. CASE ToggleMap \/ Load
  BY <1>4, ToggleUi, LoadUi
<1>5. CASE \E i \in Ids : MoveMap(i) \/ Answered(i) \/ OpenPage(i) \/ GiveUp(i)
  BY <1>5, MoveUi, AnsweredUi, OpenPageUi, GiveUpUi
<1>6. CASE UNCHANGED adminVars
  <2>1. UNCHANGED <<panel, opening, focus, lookups, hidden, apart>> /\ UNCHANGED vars
    BY <1>6 DEF adminVars, ui, vars
  <2>2. Focus(panel)' = Focus(panel)
    BY <2>1 DEF vars, Focus, Numbered, BuildingFocus, ListedInstalls, AtMostOne, AttachedTo, Both
  <2> QED
    BY <2>1, <2>2 DEF UiInv, Alone, Quiet, LookingFor
<1> QED
  BY <1>1, <1>2, <1>3, <1>4, <1>5, <1>6 DEF AdminNext

(* One thing after another: whatever the person opens, clicks or hides     *)
(* while nothing is under way, and whatever was wrong before, panel and    *)
(* map agree when it has run its course, unless the click is one that      *)
(* opens nothing, a request fails, rows change, or a page is loaded        *)
(* unheard (map.js l.190-275).                                             *)
THEOREM PanelsAgree == AdminSpec => []PanelAndMapAgree
<1>1. UiInv => PanelAndMapAgree
  BY DEF UiInv, PanelAndMapAgree
<1> QED
  BY <1>1, AdminInvariance, InitUi, StepUi, PTL DEF AdminSpec

-----------------------------------------------------------------------------
(***************************************************************************)
(* The growth graph.  Nothing of it depends on the rows: what is needed    *)
(* are the places of two moments and a date among the days of two zones.   *)
(***************************************************************************)
Modes == {"active_installs", "install_requests"}

LEMMA TimesUp ==
  ASSUME NEW a \in Int, NEW b \in Int, NEW k \in Nat, a =< b
  PROVE  a * k \in Int /\ b * k \in Int /\ a * k =< b * k
OBVIOUS

LEMMA TimesDown ==
  ASSUME NEW a \in Int, NEW b \in Int, NEW k \in Nat \ {0}, a * k < b * k
  PROVE  a < b
OBVIOUS

LEMMA Floor ==
  ASSUME NEW t \in Int, NEW d \in Nat \ {0}
  PROVE  /\ t \div d \in Int
         /\ (t \div d) * d =< t
         /\ t < (t \div d + 1) * d
OBVIOUS

LEMMA FloorIs ==
  ASSUME NEW t \in Int, NEW d \in Nat \ {0}, NEW q \in Int, q * d =< t, t < (q + 1) * d
  PROVE  t \div d = q
OBVIOUS

(* A quotient is below what the dividend is below so many times over. *)
LEMMA QuotientBelow ==
  ASSUME NEW t \in Int, NEW d \in Nat \ {0}, NEW k \in Int, t < k * d
  PROVE  t \div d \in Int /\ t \div d < k
<1>1. t \div d \in Int /\ (t \div d) * d \in Int /\ k * d \in Int /\ (t \div d) * d < k * d
  <2>1. t \div d \in Int /\ (t \div d) * d =< t
    BY Floor
  <2>2. (t \div d) * d \in Int /\ k * d \in Int
    BY <2>1
  <2> QED BY <2>1, <2>2
<1> QED BY <1>1, TimesDown

LEMMA DayIs == Day \in Nat \ {0} /\ Offset \in Nat /\ Offset < Day /\ Buckets \in Nat \ {0}
BY StatsAssumption

(* A moment is on the day that UtcDate says, and, in the server's zone, on *)
(* that day or the one before.                                             *)
LEMMA OnItsDay ==
  ASSUME NEW t \in Int
  PROVE  /\ UtcDate(t) \in Int
         /\ UtcDate(t) * Day =< t
         /\ t < (UtcDate(t) + 1) * Day
BY DayIs, Floor DEF UtcDate

LEMMA DaysInOrder ==
  ASSUME NEW s \in Int, NEW t \in Int, s =< t
  PROVE  UtcDate(s) =< UtcDate(t)
<1>1. /\ UtcDate(s) \in Int /\ UtcDate(s) * Day =< s
      /\ UtcDate(t) \in Int /\ t < (UtcDate(t) + 1) * Day
  BY OnItsDay
<1>2. UtcDate(s) * Day \in Int /\ (UtcDate(t) + 1) * Day \in Int
  BY <1>1, DayIs
<1>3. UtcDate(s) * Day < (UtcDate(t) + 1) * Day
  BY <1>1, <1>2
<1>4. UtcDate(s) < UtcDate(t) + 1
  BY <1>1, <1>3, DayIs, TimesDown
<1> QED BY <1>1, <1>4

LEMMA LocalDay ==
  ASSUME NEW t \in Int
  PROVE  LocalDate(t) \in {UtcDate(t) - 1, UtcDate(t)}
<1> DEFINE u == UtcDate(t)
<1>1. u \in Int /\ u * Day =< t /\ t < (u + 1) * Day
  BY OnItsDay
<1>2. u * Day \in Int /\ (u + 1) * Day = u * Day + Day /\ (u - 1) * Day = u * Day - Day
  BY <1>1, DayIs
<1>3. CASE u * Day =< t - Offset
  <2>1. t - Offset \in Int /\ t - Offset < (u + 1) * Day
    BY <1>1, <1>2, DayIs
  <2>2. (t - Offset) \div Day = u
    BY <1>1, <1>3, <2>1, DayIs, FloorIs
  <2> QED BY <2>2 DEF LocalDate
<1>4. CASE t - Offset < u * Day
  <2>1. t - Offset \in Int /\ (u - 1) * Day =< t - Offset /\ t - Offset < ((u - 1) + 1) * Day
    BY <1>1, <1>2, <1>4, DayIs
  <2>2. (t - Offset) \div Day = u - 1
    BY <1>1, <2>1, DayIs, FloorIs
  <2> QED BY <2>2 DEF LocalDate
<1> QED BY <1>1, <1>2, <1>3, <1>4, DayIs

(* How far a graph reaches back: the ticks of its days, Buckets times over,*)
(* fall into the Buckets and one more.                                     *)
Reach(start, now) ==
  /\ start \in Int /\ now \in Int /\ start < now
  /\ (UtcDate(now) - UtcDate(start)) * Day * Buckets =< (Buckets + 1) * (now - start)

LEMMA FirstIsTime == Installs # {} => First \in Nat
<1> SUFFICES ASSUME Installs # {} PROVE First \in Nat
  OBVIOUS
<1> DEFINE S == {RequestedAt[i] : i \in Installs}
<1>1. S \subseteq Nat /\ S # {}
  BY StatsAssumption
<1>2. Least(S) \in S /\ \A t \in S : Least(S) =< t
  BY <1>1, LeastIs
<1>3. \E t \in S : \A i \in Installs : t =< RequestedAt[i]
  BY <1>2
<1>4. First \in S
  BY <1>3 DEF First
<1> QED BY <1>1, <1>4

LEMMA GraphReaches ==
  ASSUME NEW now \in Nat, NEW days \in Nat, NEW start, start = StartOf(days, now), now > start,
         days > 0 \/ (Installs # {} /\ now - start >= Buckets * Offset)
  PROVE  Reach(start, now)
<1>1. CASE days > 0
  <2>1. start = now - days * Day /\ start \in Int /\ days * Day \in Int
    BY <1>1, DayIs DEF StartOf
  <2>2. UtcDate(now) \in Int /\ UtcDate(now) * Day =< now /\ now < (UtcDate(now) + 1) * Day
    BY OnItsDay
  <2>3. /\ (UtcDate(now) - days) * Day = UtcDate(now) * Day - days * Day
        /\ ((UtcDate(now) - days) + 1) * Day = (UtcDate(now) + 1) * Day - days * Day
        /\ UtcDate(now) * Day \in Int /\ (UtcDate(now) + 1) * Day \in Int
    BY <2>2, DayIs
  <2>4. (UtcDate(now) - days) * Day =< start /\ start < ((UtcDate(now) - days) + 1) * Day
    BY <2>1, <2>2, <2>3
  <2>5. UtcDate(start) = UtcDate(now) - days
    BY <2>1, <2>2, <2>4, DayIs, FloorIs DEF UtcDate
  <2>6. (UtcDate(now) - UtcDate(start)) * Day = now - start
    BY <2>1, <2>2, <2>5
  <2>7. (now - start) * Buckets =< (Buckets + 1) * (now - start)
    BY <2>1, DayIs
  <2> QED BY <2>1, <2>6, <2>7 DEF Reach
<1>2. CASE ~(days > 0)
  <2> DEFINE d == UtcDate(First)
             u == UtcDate(now)
  <2>1. d \in Int /\ u \in Int /\ u * Day =< now /\ u * Day \in Int /\ d * Day \in Int
    BY <1>2, FirstIsTime, OnItsDay, DayIs
  <2>2. start = d * Day + Offset /\ start \in Int
    BY <1>2, <2>1, DayIs DEF StartOf, Midnight
  <2>3. d * Day =< start /\ start < (d + 1) * Day
    BY <2>1, <2>2, DayIs
  <2>4. UtcDate(start) = d
    BY <2>1, <2>2, <2>3, DayIs, FloorIs DEF UtcDate
  <2>5. (u - d) * Day = u * Day - d * Day
    BY <2>1, DayIs
  <2>6. (u - d) * Day \in Int /\ (u - d) * Day =< (now - start) + Offset
    BY <2>1, <2>2, <2>5, DayIs
  <2>7. (u - d) * Day * Buckets =< ((now - start) + Offset) * Buckets
    BY <2>2, <2>6, DayIs, TimesUp
  <2>8. ((now - start) + Offset) * Buckets = (now - start) * Buckets + Buckets * Offset
    BY <2>2, DayIs
  <2>9. (Buckets + 1) * (now - start) = (now - start) * Buckets + (now - start)
    BY <2>2, DayIs
  <2>10. /\ (now - start) * Buckets \in Int /\ Buckets * Offset \in Int
         /\ (u - d) * Day * Buckets \in Int
    BY <2>2, <2>6, DayIs
  <2>11. (u - d) * Day * Buckets =< (Buckets + 1) * (now - start)
    BY <1>2, <2>2, <2>7, <2>8, <2>9, <2>10
  <2> QED BY <2>2, <2>4, <2>11 DEF Reach
<1> QED BY <1>1, <1>2

(* What is counted as of a day, and the moment or the date it has. *)
LEMMA CountedOn ==
  ASSUME NEW mode \in Modes, NEW i \in Dated(mode)
  PROVE  /\ i \in Installs /\ CountingDate(mode, i) \in Int
         /\ mode = "active_installs" => CountingDate(mode, i) = InstalledOn[i]
         /\ mode # "active_installs" => /\ RequestedAt[i] \in Int
                                        /\ CountingDate(mode, i) = UtcDate(RequestedAt[i])
<1>1. CASE mode = "active_installs"
  BY <1>1, StatsAssumption DEF Dated, Active, CountingDate
<1>2. CASE mode # "active_installs"
  <2>1. i \in Installs /\ RequestedAt[i] \in Int
    BY <1>2, StatsAssumption DEF Dated
  <2>2. UtcDate(RequestedAt[i]) \in Int
    BY <2>1, OnItsDay
  <2> QED BY <1>2, <2>1, <2>2 DEF CountingDate
<1> QED BY <1>1, <1>2

(* The rows that are put into buckets have a date of the graph's days, and *)
(* those of its inner days are put into buckets.                           *)
LEMMA RangedDays ==
  ASSUME NEW start, NEW now, Reach(start, now), NEW mode \in Modes,
         NEW i \in Ranged(mode, start, now)
  PROVE  i \in Dated(mode) /\ CountingDate(mode, i) \in UtcDate(start) .. UtcDate(now)
<1> DEFINE s == UtcDate(start)
           n == UtcDate(now)
<1>1. s \in Int /\ n \in Int /\ s * Day \in Int /\ (n + 1) * Day = n * Day + Day /\ n * Day \in Int
  BY OnItsDay, DayIs DEF Reach
<1>2. CASE mode = "active_installs"
  BY <1>1, <1>2, StatsAssumption DEF Ranged, Dated, CountingDate, Active
<1>3. CASE mode # "active_installs"
  <2>1. /\ i \in Installs /\ RequestedAt[i] \in Int
        /\ s * Day =< RequestedAt[i] /\ RequestedAt[i] < (n + 1) * Day
    BY <1>1, <1>3, DayIs, StatsAssumption DEF Ranged, Midnight
  <2> DEFINE u == UtcDate(RequestedAt[i])
  <2>2. u \in Int /\ u * Day =< RequestedAt[i] /\ RequestedAt[i] < (u + 1) * Day
        /\ u * Day \in Int /\ (u + 1) * Day \in Int
    BY <2>1, OnItsDay, DayIs
  <2>3. u * Day < (n + 1) * Day /\ s * Day < (u + 1) * Day
    <3>1. (n + 1) * Day \in Int
      BY <1>1, DayIs
    <3> HIDE DEF u, n, s
    <3> QED BY <1>1, <2>1, <2>2, <3>1
  <2>4. u < n + 1 /\ s < u + 1
    <3> HIDE DEF u, n, s
    <3>1. u < n + 1
      BY <1>1, <2>2, <2>3, DayIs, TimesDown
    <3>2. s < u + 1
      BY <1>1, <2>2, <2>3, DayIs, TimesDown
    <3> QED BY <3>1, <3>2
  <2>5. u \in s .. n
    <3> HIDE DEF u, n, s
    <3> QED BY <1>1, <2>2, <2>4
  <2> QED BY <1>3, <2>1, <2>5 DEF Dated, CountingDate
<1> QED BY <1>2, <1>3

LEMMA InnerDays ==
  ASSUME NEW start, NEW now, Reach(start, now), NEW mode \in Modes, NEW i \in Dated(mode),
         CountingDate(mode, i) \in UtcDate(start) + 1 .. UtcDate(now) - 1
  PROVE  i \in Ranged(mode, start, now)
<1> DEFINE s == UtcDate(start)
           n == UtcDate(now)
<1>1. s \in Int /\ n \in Int
  BY OnItsDay DEF Reach
<1>2. CASE mode = "active_installs"
  BY <1>1, <1>2, CountedOn DEF Ranged, Dated, CountingDate, Active
<1>3. CASE mode # "active_installs"
  <2> DEFINE u == UtcDate(RequestedAt[i])
  <2>1. i \in Installs /\ RequestedAt[i] \in Int /\ u \in s + 1 .. n - 1 /\ u \in Int
    BY <1>1, <1>3, CountedOn
  <2>2. u * Day =< RequestedAt[i] /\ RequestedAt[i] < (u + 1) * Day
    BY <2>1, OnItsDay
  <2>3. (s + 1) * Day =< u * Day /\ (u + 1) * Day =< n * Day
    <3> HIDE DEF u, n, s
    <3> QED BY <1>1, <2>1, DayIs, TimesUp
  <2>4. /\ (s + 1) * Day = s * Day + Day /\ s * Day \in Int /\ n * Day \in Int
        /\ u * Day \in Int /\ (u + 1) * Day \in Int
    BY <1>1, <2>1, DayIs
  <2>5. s * Day + Offset =< RequestedAt[i] /\ RequestedAt[i] =< n * Day + Offset - 1
    <3> HIDE DEF u, n, s
    <3> QED BY <2>1, <2>2, <2>3, <2>4, DayIs
  <2> QED BY <1>3, <2>1, <2>4, <2>5, DayIs DEF Ranged, Midnight
<1> QED BY <1>2, <1>3

(* Of a row on the graph's first day the bucket is the first, and of later *)
(* ones it is at most Buckets; before the last day, it is below.           *)
LEMMA InBuckets ==
  ASSUME NEW start, NEW now, Reach(start, now), NEW mode \in Modes, NEW i \in Dated(mode),
         CountingDate(mode, i) \in UtcDate(start) .. UtcDate(now)
  PROVE  /\ Index(mode, i, start, now) \in Int
         /\ Index(mode, i, start, now) =< Buckets
         /\ CountingDate(mode, i) = UtcDate(start) => Index(mode, i, start, now) = 0
         /\ CountingDate(mode, i) < UtcDate(now) => Index(mode, i, start, now) < Buckets
<1> DEFINE s == UtcDate(start)
           n == UtcDate(now)
           c == CountingDate(mode, i)
           ticks == (c - s) * Day * Buckets
           length == now - start
<1>1. s \in Int /\ n \in Int /\ c \in Int /\ s =< c /\ c =< n /\ length \in Nat \ {0}
  BY OnItsDay, CountedOn DEF Reach
<1>2. /\ (c - s) * Day \in Nat /\ (n - s) * Day \in Nat /\ (c - s) * Day =< (n - s) * Day
      /\ ticks \in Nat
  <2> HIDE DEF s, n, c
  <2>1. c - s \in Nat /\ n - s \in Nat /\ c - s =< n - s
    BY <1>1
  <2>2. (c - s) * Day \in Nat /\ (n - s) * Day \in Nat /\ (c - s) * Day =< (n - s) * Day
    BY <2>1, DayIs, TimesUp
  <2> QED BY <2>2, DayIs
<1>3. Index(mode, i, start, now) = IF ticks = 0 THEN 0 ELSE (ticks - 1) \div length
  BY DEF Index
<1>4. c = s => ticks = 0
  BY <1>1, DayIs
<1>5. ticks =< (Buckets + 1) * length
  <2>1. ticks =< (n - s) * Day * Buckets
    <3> HIDE DEF s, n, c
    <3> QED BY <1>2, DayIs, TimesUp
  <2>2. (n - s) * Day * Buckets =< (Buckets + 1) * length
    BY DEF Reach
  <2>3. (n - s) * Day * Buckets \in Int /\ (Buckets + 1) * length \in Int
    <3> HIDE DEF s, n, c, length
    <3> QED BY <1>1, <1>2, DayIs
  <2> HIDE DEF s, n, c, length
  <2> QED BY <1>2, <2>1, <2>2, <2>3
<1>6. c < n => ticks =< Buckets * length
  <2> SUFFICES ASSUME c < n PROVE ticks =< Buckets * length
    OBVIOUS
  <2>1. start < (s + 1) * Day /\ n * Day =< now
    BY OnItsDay DEF Reach
  <2>2. (c - s) * Day =< (n - s - 1) * Day /\ (n - s - 1) * Day \in Int
    <3> HIDE DEF s, n, c
    <3> QED BY <1>1, DayIs, TimesUp
  <2>3. (n - s - 1) * Day = n * Day - (s + 1) * Day /\ n * Day \in Int /\ (s + 1) * Day \in Int
    <3> HIDE DEF s, n, c
    <3> QED BY <1>1, DayIs
  <2>4. start \in Int /\ now \in Int
    BY DEF Reach
  <2>5. (c - s) * Day =< length
    <3> HIDE DEF s, n, c
    <3> QED BY <1>2, <2>1, <2>2, <2>3, <2>4
  <2>6. ticks =< length * Buckets
    <3> HIDE DEF s, n, c, length
    <3> QED BY <1>1, <1>2, <2>5, DayIs, TimesUp
  <2> HIDE DEF s, n, c, length
  <2> QED BY <1>1, <2>6, DayIs
<1> HIDE DEF s, n, c, ticks, length
<1>7. ticks # 0 => /\ (ticks - 1) \div length \in Int /\ (ticks - 1) \div length < Buckets + 1
                   /\ c < n => (ticks - 1) \div length < Buckets
  <2> SUFFICES ASSUME ticks # 0
               PROVE  /\ (ticks - 1) \div length \in Int /\ (ticks - 1) \div length < Buckets + 1
                      /\ c < n => (ticks - 1) \div length < Buckets
    OBVIOUS
  <2>1. ticks - 1 \in Int /\ (Buckets + 1) * length \in Int /\ Buckets * length \in Int
    BY <1>1, <1>2, DayIs
  <2>2. ticks - 1 < (Buckets + 1) * length
    BY <1>2, <1>5, <2>1
  <2>3. c < n => ticks - 1 < Buckets * length
    BY <1>2, <1>6, <2>1
  <2> QED BY <1>1, <2>1, <2>2, <2>3, DayIs, QuotientBelow
<1>8. CASE ticks = 0
  BY <1>3, <1>8, DayIs DEF c, s, n
<1>9. CASE ticks # 0
  <2>1. Index(mode, i, start, now) = (ticks - 1) \div length
    BY <1>3, <1>9
  <2>2. Index(mode, i, start, now) \in Int /\ Index(mode, i, start, now) =< Buckets
    BY <1>7, <1>9, <2>1, DayIs
  <2> QED BY <1>4, <1>7, <1>9, <2>1, <2>2 DEF c, s, n
<1> QED BY <1>8, <1>9

(* The base and the buckets share no row, and no row of them is dated      *)
(* later than now.                                                         *)
LEMMA BaseApart ==
  ASSUME NEW start, NEW now, Reach(start, now), NEW mode \in Modes, NEW b \in Int
  PROVE  /\ Base(mode, start) \subseteq {i \in Dated(mode) : CountingDate(mode, i) =< UtcDate(now)}
         /\ Base(mode, start) \cap Counted(mode, b, start, now) = {}
<1> DEFINE s == UtcDate(start)
           n == UtcDate(now)
<1>1. s \in Int /\ n \in Int /\ s =< n /\ start < (s + 1) * Day /\ start \in Int
  BY OnItsDay, DaysInOrder DEF Reach
<1>2. \A i \in Base(mode, start) : i \in Dated(mode) /\ CountingDate(mode, i) =< s
  <2>1. CASE mode = "active_installs"
    <3>1. LocalDate(start) \in Int /\ LocalDate(start) =< s
      BY <1>1, LocalDay
    <3> QED BY <1>1, <2>1, <3>1, StatsAssumption DEF Base, Dated, CountingDate, Active
  <2>2. CASE mode # "active_installs"
    <3> SUFFICES ASSUME NEW i \in Base(mode, start) PROVE i \in Dated(mode) /\ CountingDate(mode, i) =< s
      OBVIOUS
    <3>1. i \in Dated(mode) /\ RequestedAt[i] < start
      BY <2>2 DEF Base, Dated
    <3>2. RequestedAt[i] \in Int /\ CountingDate(mode, i) = UtcDate(RequestedAt[i])
      BY <2>2, <3>1, CountedOn
    <3> QED BY <1>1, <3>1, <3>2, DaysInOrder
  <2> QED BY <2>1, <2>2
<1>3. \A i \in Base(mode, start) : CountingDate(mode, i) =< n
  BY <1>1, <1>2, CountedOn
<1>4. ASSUME NEW i \in Base(mode, start), i \in Counted(mode, b, start, now) PROVE FALSE
  <2>1. i \in Ranged(mode, start, now) /\ Index(mode, i, start, now) # 0
    BY <1>4 DEF Counted
  <2>2. i \in Dated(mode) /\ CountingDate(mode, i) \in s .. n
    BY <2>1, RangedDays
  <2>3. CountingDate(mode, i) = s
    BY <1>1, <1>2, <2>2, CountedOn
  <2> QED BY <2>1, <2>2, <2>3, InBuckets
<1> QED BY <1>2, <1>3, <1>4

(* What is older than the day before the start is in the base, and what is *)
(* of the inner days is in a bucket, unless it is in the first.            *)
LEMMA NothingMissed ==
  ASSUME NEW start, NEW now, Reach(start, now), NEW mode \in Modes, NEW i \in Dated(mode)
  PROVE  /\ CountingDate(mode, i) < UtcDate(start) - 1 => i \in Base(mode, start)
         /\ CountingDate(mode, i) \in UtcDate(start) + 1 .. UtcDate(now) - 1
              /\ Index(mode, i, start, now) > 0
            => i \in Counted(mode, Buckets - 1, start, now)
<1> DEFINE s == UtcDate(start)
           n == UtcDate(now)
           c == CountingDate(mode, i)
<1>1. s \in Int /\ n \in Int /\ c \in Int /\ start \in Int /\ s * Day =< start /\ s * Day \in Int
  BY OnItsDay, CountedOn, DayIs DEF Reach
<1>2. ASSUME c < s - 1 PROVE i \in Base(mode, start)
  <2>1. CASE mode = "active_installs"
    <3>1. LocalDate(start) \in Int /\ LocalDate(start) >= s - 1
      BY <1>1, LocalDay
    <3>2. i \in Active /\ InstalledOn[i] = c
      BY <2>1, CountedOn DEF Dated
    <3> QED BY <1>1, <1>2, <2>1, <3>1, <3>2 DEF Base
  <2>2. CASE mode # "active_installs"
    <3>1. i \in Installs /\ RequestedAt[i] \in Int /\ c = UtcDate(RequestedAt[i])
      BY <2>2, CountedOn
    <3>2. RequestedAt[i] < (c + 1) * Day
      BY <3>1, OnItsDay
    <3>3. (c + 1) * Day =< s * Day /\ (c + 1) * Day \in Int
      <4> HIDE DEF c, s
      <4> QED BY <1>1, <1>2, DayIs, TimesUp
    <3>4. RequestedAt[i] < start
      BY <1>1, <3>1, <3>2, <3>3
    <3> QED BY <2>2, <3>1, <3>4 DEF Base
  <2> QED BY <2>1, <2>2
<1>3. ASSUME c \in s + 1 .. n - 1, Index(mode, i, start, now) > 0
      PROVE  i \in Counted(mode, Buckets - 1, start, now)
  <2>1. i \in Ranged(mode, start, now)
    BY <1>3, InnerDays
  <2>2. Index(mode, i, start, now) \in Int /\ Index(mode, i, start, now) < Buckets
    BY <1>1, <1>3, InBuckets
  <2> QED BY <1>3, <2>1, <2>2, DayIs DEF Counted
<1> QED BY <1>2, <1>3

(* The graph of the website is drawn and does not lie (website_stats.py    *)
(* l.62-140): for all zones, days, requests and numbers of buckets, the    *)
(* last point counts every install once that it counts, and leaves out     *)
(* only those of the first bucket and of the days about its ends.          *)
THEOREM GraphIsSound == Spec => []GraphSound
<1>1. GraphSound
  <2> SUFFICES ASSUME NEW now \in Nows, NEW days \in Spans, NEW mode \in Modes, NEW start,
                      start = StartOf(days, now), now > start,
                      days > 0 \/ (Installs # {} /\ now - start >= Buckets * Offset)
               PROVE  LET last == Data(mode, start, now)[Buckets - 1]
                          Date(i) == CountingDate(mode, i)
                      IN  /\ ~OutOfRange(mode, start, now)
                          /\ last =< Cardinality({i \in Dated(mode) : Date(i) =< UtcDate(now)})
                          /\ last >= Cardinality({i \in Dated(mode) :
                               \/ Date(i) < UtcDate(start) - 1
                               \/ Date(i) \in UtcDate(start) + 1 .. UtcDate(now) - 1
                                    /\ Index(mode, i, start, now) > 0})
    BY DEF GraphSound, Modes
  <2> DEFINE Before == Base(mode, start)
             After == Counted(mode, Buckets - 1, start, now)
             All == {i \in Dated(mode) : CountingDate(mode, i) =< UtcDate(now)}
             Sure == {i \in Dated(mode) :
                        \/ CountingDate(mode, i) < UtcDate(start) - 1
                        \/ CountingDate(mode, i) \in UtcDate(start) + 1 .. UtcDate(now) - 1
                             /\ Index(mode, i, start, now) > 0}
  <2>1. Reach(start, now)
    BY StatsAssumption, GraphReaches
  <2>2. \A i \in Ranged(mode, start, now) :
          /\ i \in All
          /\ Index(mode, i, start, now) \in Int /\ Index(mode, i, start, now) =< Buckets
    <3>1. UtcDate(start) \in Int /\ UtcDate(now) \in Int
      BY <2>1, OnItsDay DEF Reach
    <3> QED BY <2>1, <3>1, RangedDays, InBuckets
  <2>3. ~OutOfRange(mode, start, now)
    BY <2>2, DayIs DEF OutOfRange
  <2>4. Before \cup After \subseteq All /\ Before \cap After = {}
    <3>1. Buckets - 1 \in Int
      BY DayIs
    <3>2. After \subseteq Ranged(mode, start, now)
      BY DEF Counted
    <3> QED BY <2>1, <2>2, <3>1, <3>2, BaseApart
  <2>5. Sure \subseteq Before \cup After
    BY <2>1, NothingMissed
  <2>6. All \subseteq Installs
    BY DEF Dated, Active
  <2>7. /\ IsFiniteSet(Before) /\ IsFiniteSet(After) /\ IsFiniteSet(All)
        /\ IsFiniteSet(Before \cup After)
    <3> HIDE DEF Before, After, All
    <3> QED BY <2>4, <2>6, MapAssumption, FS_Subset
  <2>8. Cardinality(Before \cup After) = Cardinality(Before) + Cardinality(After)
    <3> HIDE DEF Before, After
    <3>1. Cardinality(Before \cap After) = 0
      BY <2>4, FS_EmptySet
    <3>2. Cardinality(Before) \in Nat /\ Cardinality(After) \in Nat
      BY <2>7, FS_CardinalityType
    <3>3. Cardinality(Before \cup After)
            = Cardinality(Before) + Cardinality(After) - Cardinality(Before \cap After)
      BY <2>7, FS_Union
    <3> QED BY <3>1, <3>2, <3>3
  <2>9. Cardinality(Before \cup After) =< Cardinality(All)
    <3> HIDE DEF Before, After, All
    <3> QED BY <2>4, <2>7, FS_Subset
  <2>10. Cardinality(Before \cup After) >= Cardinality(Sure)
    <3> HIDE DEF Before, After, Sure
    <3>1. Cardinality(Sure) =< Cardinality(Before \cup After) /\ IsFiniteSet(Sure)
      BY <2>5, <2>7, FS_Subset
    <3>2. Cardinality(Sure) \in Nat /\ Cardinality(Before \cup After) \in Nat
      BY <2>7, <3>1, FS_CardinalityType
    <3> QED BY <3>1, <3>2
  <2>11. Data(mode, start, now)[Buckets - 1] = Cardinality(Before) + Cardinality(After)
    BY DayIs DEF Data
  <2> HIDE DEF Before, After, Sure, All
  <2>12. /\ Data(mode, start, now)[Buckets - 1] =< Cardinality(All)
         /\ Data(mode, start, now)[Buckets - 1] >= Cardinality(Sure)
    BY <2>8, <2>9, <2>10, <2>11
  <2> QED BY <2>3, <2>12 DEF Sure, All
<1> QED BY <1>1, PTL
=============================================================================
