--------------------------- MODULE MapData_proofs ---------------------------
(***************************************************************************)
(* The pages of the map, for every registry: each number in use has one    *)
(* entry, which stands for its node; every line ends at entries; of each   *)
(* pair one link is shown.                                                 *)
(***************************************************************************)
EXTENDS MapData, FiniteSetTheorems, WellFoundedInduction, TLAPS

(* A number is a node's that is there, and not that of an access point. *)
NumbersOfNodes == \A n \in Node : nodes[n].nn # Null => Present(n) /\ nodes[n].nn < FirstFake

Inv == TypeOK /\ Unique(nodes) /\ NumbersOfNodes

(* The rows of every start database are of their types, with unique numbers. *)
LEMMA InitInv == Init => Inv
BY StartAssumption DEF Init, Inv, TypeOK, NumbersOfNodes, Present, Registry!Init, LinkStatus

(* A node gets a number only if no other node has it. *)
LEMMA StepInv == Inv /\ [Next]_vars => Inv'
<1> SUFFICES ASSUME Inv, [Next]_vars PROVE Inv'
  OBVIOUS
<1> USE DEF Inv
<1>1. ASSUME NEW i \in Installs, Registry!Assign(i), UNCHANGED links PROVE Inv'
  <2> PICK n \in Node, k \in {0} \cup (NNMin .. NNMax) :
        /\ Registry!MayCarry(n, k)
        /\ nodes' = [nodes EXCEPT ![n] =
             [nn |-> k, status |-> IF @.status \in {"absent", "INACTIVE"} THEN "PLANNED" ELSE @.status]]
        /\ primary' = [primary EXCEPT ![BuildingOf[i]] = IF @ = Null THEN n ELSE @]
        /\ installs' = [j \in Installs |->
             IF j = i
             THEN [node |-> n, status |-> IF installs[i].status = "REQUEST_RECEIVED"
                                          THEN "PENDING" ELSE installs[i].status]
             ELSE [installs[j] EXCEPT !.status = IF Registry!Retired(n, k, j) THEN "NN_REASSIGNED" ELSE @]]
    BY <1>1 DEF Registry!Assign
  <2>1. k \in Nat
    BY StartAssumption
  <2>2. nodes' \in [Node -> NodeRow]
    BY <2>1 DEF TypeOK, NodeRow
  <2>3. installs' \in [Installs -> InstallRow]
    BY DEF TypeOK, InstallRow
  <2>4. primary' \in [Building -> Node \cup {Null}]
    BY DEF TypeOK
  <2>5. \A l \in Link : links'[l] # "absent" => Present(From[l])' /\ Present(To[l])'
    BY <1>1, MapAssumption DEF TypeOK, Present, NodeRow
  <2>6. Unique(nodes)'
    BY DEF TypeOK, Unique, Registry!MayCarry
  <2>7. NumbersOfNodes'
    <3>1. k < FirstFake
      BY StartAssumption DEF FirstFake
    <3>2. \A m \in Node : nodes'[m].nn = IF m = n THEN k ELSE nodes[m].nn
      BY DEF TypeOK
    <3>3. \A m \in Node : Present(m) \/ m = n => Present(m)'
      BY DEF TypeOK, NodeRow, Present
    <3> QED
      BY <3>1, <3>2, <3>3 DEF NumbersOfNodes
  <2> QED
    BY <1>1, <2>2, <2>3, <2>4, <2>5, <2>6, <2>7 DEF TypeOK
<1>2. ASSUME NEW i \in Installs, NEW s \in Registry!InstallStatus, Registry!Update(i, s),
             UNCHANGED links
      PROVE  Inv'
  <2>1. installs' \in [Installs -> InstallRow]
    BY <1>2 DEF TypeOK, InstallRow, Registry!Update, Registry!InstallStatus
  <2> QED
    BY <1>2, <2>1 DEF TypeOK, Unique, NumbersOfNodes, Present, Registry!Update
<1>3. ASSUME NEW n \in Node, NEW s \in {"PLANNED", "ACTIVE", "INACTIVE"}, NEW typed,
             Registry!Save(n, s, typed), UNCHANGED links
      PROVE  Inv'
  <2> PICK k \in {Null, 0} \cup (NNMin .. NNMax) :
        /\ k # Null => Registry!MayCarry(n, k)
        /\ nodes' = [nodes EXCEPT ![n] = [nn |-> k, status |-> s]]
        /\ installs' = [j \in Installs |->
             [installs[j] EXCEPT !.status = IF Registry!Retired(n, k, j) THEN "NN_REASSIGNED" ELSE @]]
        /\ UNCHANGED primary
    BY <1>3 DEF Registry!Save
  <2>1. k \in Nat \cup {Null}
    BY StartAssumption
  <2>2. nodes' \in [Node -> NodeRow]
    BY <2>1 DEF TypeOK, NodeRow
  <2>3. installs' \in [Installs -> InstallRow]
    BY DEF TypeOK, InstallRow
  <2>4. \A l \in Link : links'[l] # "absent" => Present(From[l])' /\ Present(To[l])'
    BY <1>3, MapAssumption DEF TypeOK, Present, NodeRow
  <2>5. Unique(nodes)'
    BY DEF TypeOK, Unique, Registry!MayCarry
  <2>6. NumbersOfNodes'
    <3>1. k = Null \/ k < FirstFake
      BY StartAssumption DEF FirstFake
    <3>2. \A m \in Node : nodes'[m].nn = IF m = n THEN k ELSE nodes[m].nn
      BY DEF TypeOK
    <3>3. \A m \in Node : Present(m) \/ m = n => Present(m)'
      BY DEF TypeOK, NodeRow, Present
    <3> QED
      BY <3>1, <3>2, <3>3 DEF NumbersOfNodes
  <2> QED
    BY <1>3, <2>2, <2>3, <2>4, <2>5, <2>6 DEF TypeOK
<1>4. ASSUME NEW l \in Link, NEW s \in LinkStatus, SetLink(l, s) PROVE Inv'
  <2>1. /\ links' \in [Link -> LinkStatus \cup {"absent"}]
        /\ \A k \in Link : links'[k] # "absent" => Present(From[k]) /\ Present(To[k])
    BY <1>4 DEF TypeOK, SetLink
  <2> QED
    BY <1>4, <2>1 DEF TypeOK, Unique, NumbersOfNodes, Present, SetLink
<1>5. CASE UNCHANGED vars
  BY <1>5 DEF TypeOK, Unique, NumbersOfNodes, Present, vars
<1> QED
  BY <1>1, <1>2, <1>3, <1>4, <1>5 DEF Next, Registry!Next

(* Types and unique numbers are kept together: the numbers of a step are  *)
(* compared with those of well-typed rows.                                 *)
LEMMA Invariance == Spec => []Inv
BY InitInv, StepInv, PTL DEF Spec

(* Every variable keeps its type, and a link's nodes are there, whatever   *)
(* the registry, people and imports do.                                    *)
THEOREM MapTypes == Spec => []TypeOK
<1>1. Inv => TypeOK
  BY DEF Inv
<1> QED
  BY <1>1, Invariance, PTL

(* Every number in use has an entry that shows its node (map.py l.66).     *)
THEOREM NumbersShown == Spec => []EveryNumberShown
<1>1. Inv => EveryNumberShown
  <2> SUFFICES ASSUME Claimed, NEW n \in Node, Shown(n), nodes[n].nn # Null
               PROVE  \E e \in Entries : e.number = nodes[n].nn /\ e.node = n /\ IsNodeDot(e)
    BY DEF EveryNumberShown
  <2>1. n # Null
    BY MapAssumption
  <2>2. CASE nodes[n].nn \in ListedInstalls
    <3>1. installs[nodes[n].nn].node = n
      BY <2>2 DEF Claimed, ListedInstalls
    <3>2. [number |-> nodes[n].nn, node |-> n, fake |-> FALSE] \in Entries
      BY <2>2, <3>1 DEF Entries
    <3> QED
      BY <2>1, <3>2 DEF IsNodeDot
  <2>3. CASE nodes[n].nn \notin ListedInstalls
    <3>1. n \in Uncovered
      BY <2>3 DEF Uncovered
    <3>2. [number |-> nodes[n].nn, node |-> n, fake |-> TRUE] \in Entries
      BY <3>1 DEF Entries
    <3> QED
      BY <2>1, <3>2 DEF IsNodeDot
  <2> QED
    BY <2>2, <2>3
<1> QED
  BY <1>1, Invariance, PTL

(* No number is on the map twice, and no node has two dots (map.py l.90,   *)
(* serializers/map.py l.49-51): numbers are unique, and an entry is made   *)
(* up only for a number that no listed install has, and all of them are    *)
(* below the numbers of access points.                                     *)
THEOREM NoTwoDots == Spec => []EntriesApart
<1>1. ASSUME Unique(nodes), NEW e \in Entries, NEW f \in Entries, e.number = f.number
      PROVE  e = f
  <2>1. ASSUME NEW g \in Entries
        PROVE  \/ \E i \in ListedInstalls : g = [number |-> i, node |-> installs[i].node, fake |-> FALSE]
               \/ \E n \in Uncovered : g = [number |-> nodes[n].nn, node |-> n, fake |-> TRUE]
    BY DEF Entries
  <2>2. \A m, n \in Uncovered : nodes[m].nn = nodes[n].nn => m = n
    BY <1>1 DEF Unique, Uncovered
  <2>3. \A n \in Uncovered : nodes[n].nn \notin ListedInstalls
    BY DEF Uncovered
  <2>4. CASE \E i \in ListedInstalls : e = [number |-> i, node |-> installs[i].node, fake |-> FALSE]
    <3> PICK i \in ListedInstalls : e = [number |-> i, node |-> installs[i].node, fake |-> FALSE]
      BY <2>4
    <3>1. f.number = i
      BY <1>1
    <3>2. ~ \E n \in Uncovered : f = [number |-> nodes[n].nn, node |-> n, fake |-> TRUE]
      BY <3>1, <2>3
    <3> QED
      BY <3>1, <3>2, <2>1
  <2>5. CASE \E m \in Uncovered : e = [number |-> nodes[m].nn, node |-> m, fake |-> TRUE]
    <3> PICK m \in Uncovered : e = [number |-> nodes[m].nn, node |-> m, fake |-> TRUE]
      BY <2>5
    <3>1. f.number = nodes[m].nn
      BY <1>1
    <3>2. ~ \E i \in ListedInstalls : f = [number |-> i, node |-> installs[i].node, fake |-> FALSE]
      BY <3>1, <2>3
    <3> QED
      BY <3>1, <3>2, <2>1, <2>2
  <2> QED
    BY <2>1, <2>4, <2>5
<1>2. ASSUME NEW e \in Entries, NEW f \in Entries, e.node = f.node, IsNodeDot(e), IsNodeDot(f)
      PROVE  e.number = f.number
  BY <1>2 DEF IsNodeDot
<1>3. ASSUME Inv, NEW e \in Entries PROVE e.number \notin ApEntries
  <2>1. \A a \in ActiveAp : ApNumber(a) \in Nat /\ ApNumber(a) >= FirstFake
    BY MapAssumption DEF ApNumber, FirstFake
  <2>2. e.number \in Nat /\ e.number < FirstFake
    BY <1>3, MapAssumption DEF Inv, TypeOK, NodeRow, NumbersOfNodes, Entries, ListedInstalls, Uncovered
  <2> QED
    BY <2>1, <2>2 DEF ApEntries, FirstFake
<1>4. Inv => EntriesApart
  BY <1>1, <1>2, <1>3 DEF Inv, EntriesApart
<1> QED
  BY <1>4, Invariance, PTL

-----------------------------------------------------------------------------
(* Every set of numbers that is not empty has a least one. *)
LEMMA LeastIs ==
  ASSUME NEW S, S \subseteq Nat, S # {}
  PROVE  /\ Least(S) \in S
         /\ \A i \in S : Least(S) =< i
<1>1. \E i \in S : \A j \in S : ~(j < i)
  <2> DEFINE Before == OpToRel(<, Nat)
  <2>1. IsWellFoundedOn(Before, Nat)
    BY NatLessThanWellFounded
  <2>2. \E i \in S : \A j \in S : <<j, i>> \notin Before
    <3> HIDE DEF Before
    <3> QED
      BY <2>1, WFMin
  <2> QED
    BY <2>2 DEF OpToRel
<1>2. \E i \in S : \A j \in S : i =< j
  <2> PICK i \in S : \A j \in S : ~(j < i)
    BY <1>1
  <2>1. \A j \in S : i =< j
    OBVIOUS
  <2> QED
    BY <2>1
<1> QED
  BY <1>2 DEF Least

(* A listed install has an entry of its own. *)
LEMMA ListedOnMap ==
  ASSUME NEW i \in ListedInstalls
  PROVE  OnTheMap(i)
<1>1. [number |-> i, node |-> installs[i].node, fake |-> FALSE] \in Entries
  BY DEF Entries
<1> QED
  BY <1>1 DEF OnTheMap

(* A node that is shown and has a number has an entry: its number is that  *)
(* of a listed install, or it gets one made up.                            *)
LEMMA ShownOnMap ==
  ASSUME NEW n \in Node, Shown(n), nodes[n].nn # Null
  PROVE  OnTheMap(nodes[n].nn)
<1>1. CASE nodes[n].nn \in ListedInstalls
  BY <1>1, ListedOnMap
<1>2. CASE nodes[n].nn \notin ListedInstalls
  <2>1. n \in Uncovered
    BY <1>2 DEF Uncovered
  <2>2. [number |-> nodes[n].nn, node |-> n, fake |-> TRUE] \in Entries
    BY <2>1 DEF Entries
  <2> QED
    BY <2>2 DEF OnTheMap
<1> QED
  BY <1>1, <1>2

(* The nodes of a live link are shown. *)
LEMMA LiveShown ==
  ASSUME TypeOK, NEW l \in Link, Live(l)
  PROVE  Shown(From[l]) /\ Shown(To[l])
BY MapAssumption DEF TypeOK, NodeRow, Live, Shown, Present

(* The ends of links, of cable runs, of an access point's links and of     *)
(* sectors are entries (map.py l.194-416): what each query leaves out is   *)
(* never less than what the first page leaves out.                         *)
THEOREM EndsFound == Spec => []EndsOnTheMap
<1>1. ASSUME TypeOK, NEW l \in MapLinks, NEW n \in {From[l], To[l]},
             nodes[n].nn # Null \/ NodeNumber(n) \in ListedInstalls
      PROVE  OnTheMap(NodeNumber(n))
  <2>1. l \in Link /\ Live(l)
    BY DEF MapLinks
  <2>2. n \in Node /\ Shown(n)
    BY <1>1, <2>1, LiveShown, MapAssumption
  <2>3. CASE nodes[n].nn # Null
    BY <2>2, <2>3, ShownOnMap DEF NodeNumber
  <2>4. CASE nodes[n].nn = Null
    BY <1>1, <2>4, ListedOnMap
  <2> QED
    BY <2>3, <2>4
<1>2. ASSUME NEW c \in CableRuns
      PROVE  OnTheMap(c[1]) /\ (c[2] # Null => OnTheMap(c[2]))
  <2>1. PICK n \in CableNodes, b \in Building :
          ActiveIn(b) # {} /\ c = <<Least(ActiveIn(b)), nodes[n].nn>>
    BY DEF CableRuns
  <2>2. Least(ActiveIn(b)) \in ActiveIn(b)
    <3>1. ActiveIn(b) \subseteq Nat
      BY MapAssumption DEF ActiveIn
    <3> QED
      BY <2>1, <3>1, LeastIs
  <2>3. OnTheMap(Least(ActiveIn(b)))
    BY <2>2, ListedOnMap DEF ActiveIn, ListedInstalls
  <2>4. nodes[n].nn # Null => OnTheMap(nodes[n].nn)
    BY ShownOnMap DEF CableNodes
  <2> QED
    BY <2>1, <2>3, <2>4
<1>3. ASSUME NEW l \in ApLinks, NEW end \in {<<ApFrom[l], From[l]>>, <<ApTo[l], To[l]>>}
      PROVE  LET k == ApEnd(end[1], end[2])
             IN  \/ k \in ApEntries \cup {Null} \/ OnTheMap(k)
                 \/ end[1] \in Ap \ ActiveAp
                 \/ end[1] = Null /\ ~Shown(end[2])
  <2>1. end[1] \in Ap \cup {Null} /\ end[2] \in Node
    BY MapAssumption DEF ApLinks
  <2>2. CASE end[1] \in ActiveAp
    BY <2>2, MapAssumption DEF ApEnd, ApEntries
  <2>3. CASE end[1] = Null
    BY <2>1, <2>3, ShownOnMap DEF ApEnd
  <2> QED
    BY <2>1, <2>2, <2>3
<1>4. ASSUME NEW s \in MapSectors
      PROVE  OnTheMap(SectorNumber(s)) \/ ~Shown(SectorNode[s])
  BY ShownOnMap, MapAssumption DEF MapSectors, SectorNumber
<1>5. Inv => EndsOnTheMap
  BY <1>1, <1>2, <1>3, <1>4 DEF Inv, EndsOnTheMap
<1> QED
  BY <1>5, Invariance, PTL

(* The live links of a pair; the first of them is one of them. *)
LiveOf(p) == {k \in Link : Live(k) /\ Pair(k) = p}

LEMMA FirstIsLive ==
  ASSUME NEW p, LiveOf(p) # {}
  PROVE  Least(LiveOf(p)) \in LiveOf(p)
<1>1. LiveOf(p) \subseteq Nat
  BY MapAssumption DEF LiveOf
<1> QED
  BY <1>1, LeastIs

(* A node goes by the number of an install of a building, or of a node of  *)
(* the building, only if it is a node of that building.                    *)
LEMMA GoesByOwn ==
  ASSUME Inv, NothingRecycled, AtHome, NEW b \in Building, NEW n \in Node,
         NodeNumber(n) \in NumbersIn(b)
  PROVE  n \in NodesOf(b)
<1> DEFINE k == NodeNumber(n)
<1>1. k # Null
  BY MapAssumption DEF NumbersIn, InstallsIn
<1>2. \/ nodes[n].nn # Null /\ k = nodes[n].nn
      \/ nodes[n].nn = Null /\ k \in AttachedTo(n)
  <2>1. AttachedTo(n) # {} => Least(AttachedTo(n)) \in AttachedTo(n)
    <3>1. AttachedTo(n) \subseteq Nat
      BY MapAssumption DEF AttachedTo
    <3> QED
      BY <3>1, LeastIs
  <2> QED
    BY <1>1, <2>1 DEF NodeNumber
<1>3. k \in Installs => installs[k].node = n
  BY <1>2 DEF NothingRecycled, AttachedTo
<1> HIDE DEF k
<1>4. CASE k \in InstallsIn(b)
  BY <1>3, <1>4, MapAssumption DEF AtHome, InstallsIn
<1>5. CASE \E m \in NodesOf(b) : k = nodes[m].nn
  <2> PICK m \in NodesOf(b) : k = nodes[m].nn
    BY <1>5
  <2>1. m \in Node
    BY MapAssumption DEF NodesOf, Inv, TypeOK
  <2>2. CASE nodes[n].nn = Null
    <3>1. k \in Installs
      BY <1>2, <2>2 DEF AttachedTo
    <3>2. installs[k].node = m
      BY <2>1, <3>1 DEF NothingRecycled
    <3> QED
      BY <1>3, <3>1, <3>2
  <2>3. CASE nodes[n].nn # Null
    BY <1>2, <2>1, <2>3 DEF Inv, Unique
  <2> QED
    BY <2>2, <2>3
<1> QED
  BY <1>1, <1>4, <1>5 DEF NumbersIn, k

(* Of the live links between two numbered nodes in one direction exactly   *)
(* one is shown, and no potential link goes where one is (map.py           *)
(* l.202-222, l.287-302): the nodes at the ends of such a link would be on *)
(* the two buildings, and these buildings are linked.                      *)
THEOREM OneLinkShown == Spec => []OneLinkPerPair
<1>1. ASSUME Inv, NEW l \in Link, Live(l), Null \notin {Pair(l)[1], Pair(l)[2]}, From[l] # To[l]
      PROVE  Cardinality({k \in MapLinks : Pair(k) = Pair(l)}) = 1
  <2> DEFINE first == Least(LiveOf(Pair(l)))
  <2>1. first \in LiveOf(Pair(l))
    BY <1>1, FirstIsLive DEF LiveOf
  <2>2. Pair(l)[1] # Pair(l)[2]
    BY <1>1, MapAssumption DEF Inv, Unique, Pair
  <2>3. \A k \in Link : Pair(k) = Pair(l) => (k \in MapLinks <=> k = first)
    <3> SUFFICES ASSUME NEW k \in Link, Pair(k) = Pair(l) PROVE k \in MapLinks <=> k = first
      OBVIOUS
    <3>1. FirstOfPair(k) <=> k = first
      BY DEF FirstOfPair, LiveOf
    <3>2. k \in MapLinks <=> Live(k) /\ FirstOfPair(k)
      BY <1>1, <2>2 DEF MapLinks
    <3>3. first = k => Live(k)
      BY <2>1 DEF LiveOf
    <3> QED
      BY <3>1, <3>2, <3>3
  <2>4. {k \in MapLinks : Pair(k) = Pair(l)} = {first}
    <3>1. first \in Link /\ Pair(first) = Pair(l)
      BY <2>1 DEF LiveOf
    <3>2. MapLinks \subseteq Link
      BY DEF MapLinks
    <3> HIDE DEF first
    <3> QED
      BY <2>3, <3>1, <3>2
  <2> QED
    BY <2>4, FS_Singleton
<1>2. ASSUME Inv, NothingRecycled, AtHome, NEW p \in PotentialLinks, NEW l \in MapLinks
      PROVE  Ends(l) # p /\ Ends(l) # <<p[2], p[1]>>
  <2>1. PICK s \in MapLos : p \in NumbersIn(LosFrom[s]) \X NumbersIn(LosTo[s])
    BY DEF PotentialLinks
  <2>2. /\ LosFrom[s] \in Building /\ LosTo[s] \in Building
        /\ ~Linked(LosFrom[s], LosTo[s])
    BY MapAssumption DEF MapLos
  <2>3. l \in Link /\ links[l] # "absent" /\ From[l] \in Node /\ To[l] \in Node
    BY MapAssumption DEF MapLinks, Live
  <2>4. ~ (/\ NodeNumber(From[l]) \in NumbersIn(LosFrom[s])
           /\ NodeNumber(To[l]) \in NumbersIn(LosTo[s]))
    BY <1>2, <2>2, <2>3, GoesByOwn DEF Linked
  <2>5. ~ (/\ NodeNumber(From[l]) \in NumbersIn(LosTo[s])
           /\ NodeNumber(To[l]) \in NumbersIn(LosFrom[s]))
    BY <1>2, <2>2, <2>3, GoesByOwn DEF Linked
  <2> QED
    BY <2>1, <2>4, <2>5 DEF Ends
<1>3. Inv => OneLinkPerPair
  BY <1>1, <1>2 DEF OneLinkPerPair
<1> QED
  BY <1>3, Invariance, PTL
=============================================================================
