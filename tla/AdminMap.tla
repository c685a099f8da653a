------------------------------- MODULE AdminMap -------------------------------
(***************************************************************************)
(* The admin's page: a panel with the pages of the admin site, and the map *)
(* beside it.  A page that the panel has loaded moves the map to what the  *)
(* page is about; an entry clicked on the map opens a page in the panel.   *)
(* Either is looked up in the API first, and answers come when they come.  *)
(* The map is another program: what it shows is MapData's, and what it is  *)
(* told or tells are messages with numbers.  Neither is told when rows     *)
(* change.                                                                 *)
(***************************************************************************)
EXTENDS MapData

CONSTANTS
  Member, InstallsOf, \* members and their installs
  Selections, \* sets of numbers that the map may say are selected on it
  Ids,      \* names of look-ups under way
  MaxChanges, MaxActs \* bounds: changes of rows while the page is used, acts of a person

(* The pages that say something to the map, by their model and id.         *)
Page ==
  [model : {"install"}, id : Installs] \cup [model : {"node", "device"}, id : Node]
    \cup [model : {"building"}, id : Building] \cup [model : {"link"}, id : Link]
    \cup [model : {"los"}, id : Los] \cup [model : {"member"}, id : Member]

Home == [model |-> "other", id |-> Null]

ASSUME AdminMapAssumption ==
  /\ InstallsOf \in [Member -> SUBSET Installs] /\ MaxChanges \in Nat /\ MaxActs \in Nat
  /\ Null \notin Page \cup {Home} \cup [page : Page \cup {Home}] \cup [number : Nat]
  /\ Null \notin [answer : SUBSET Page] /\ Selections \subseteq SUBSET Nat

VARIABLES
  panel,    \* the page in the panel
  opening,  \* the page that is being loaded there, or Null
  focus,    \* the numbers that the map was last moved to, or that were clicked
  lookups,  \* getNewSelectedNodes and updateAdminPanelLocation under way
  heard,    \* onAdminPanelLoad listens to the panel
  hidden,   \* MESHDB_MAP_DISABLED
  changes, acts,
  apart     \* history: something has parted panel and map since they last could agree

ui == <<panel, opening, focus, lookups, heard, hidden, acts>>
adminVars == <<vars, changes, ui, apart>>

AdminInit ==
  /\ Init
  /\ panel = Home /\ opening = Null /\ focus = {} /\ lookups = [i \in Ids |-> Null]
  /\ heard = TRUE /\ hidden = FALSE /\ changes = 0 /\ acts = 0 /\ apart = FALSE

-----------------------------------------------------------------------------
AtMostOne(S) == IF S = {} THEN {} ELSE {Greatest(S)}

Numbered(n) == {nodes[n].nn} \ {Null}

(* A building's primary node, or its newest install that is on the map.    *)
BuildingFocus(b) ==
  IF primary[b] # Null /\ Numbered(primary[b]) # {} THEN Numbered(primary[b])
  ELSE AtMostOne(InstallsIn(b) \cap ListedInstalls)

Both(S, T) == IF S # {} /\ T # {} THEN S \cup T ELSE {}

(* getNewSelectedNodes: none, one or several numbers.  The installs in a   *)
(* node's answer have no status, so its newest one counts, listed or not.  *)
Focus(p) ==
  CASE p.model = "install"  -> {p.id} \cap ListedInstalls
    [] p.model = "node"     -> IF Numbered(p.id) # {} THEN Numbered(p.id) ELSE AtMostOne(AttachedTo(p.id))
    [] p.model = "device"   -> Numbered(p.id)
    [] p.model = "building" -> BuildingFocus(p.id)
    [] p.model = "member"   -> InstallsOf[p.id] \cap ListedInstalls
    [] p.model = "link"     -> Both(Numbered(From[p.id]), Numbered(To[p.id]))
    [] p.model = "los"      -> Both(BuildingFocus(LosFrom[p.id]), BuildingFocus(LosTo[p.id]))
    [] OTHER                -> {}

NodePage(n) == [model |-> "node", id |-> n]
InstallPage(i) == [model |-> "install", id |-> i]

NodePages(k) == {NodePage(n) : n \in {m \in Node : nodes[m].nn = k}}

(* Variant: the node with the number comes first. *)
OpenedNodeFirst(k) ==
  IF NodePages(k) # {} \/ k \notin Installs THEN NodePages(k) ELSE {InstallPage(k)}

(* updateAdminPanelLocation: the install with the number, or its node if   *)
(* that has a number; else the node with the number.                       *)
Opened(k) ==
  IF k \in Installs
  THEN IF installs[k].node # Null /\ nodes[installs[k].node].nn # Null
       THEN {NodePage(installs[k].node)} ELSE {InstallPage(k)}
  ELSE NodePages(k)

-----------------------------------------------------------------------------
Quiet == opening = Null /\ \A i \in Ids : lookups[i] = Null

(* Whoever acts while something is under way parts panel and map, and      *)
(* whoever acts when nothing is brings them together again.                *)
Act(parts) ==
  /\ acts < MaxActs /\ changes =< MaxChanges
  /\ acts' = acts + 1 /\ apart' = parts
  /\ UNCHANGED <<vars, changes>>

Exists(p) ==
  /\ p.model \in {"node", "device"} => Present(p.id)
  /\ p.model = "link" => links[p.id] # "absent"

(* A link in the panel, or the browser's back and forward.                 *)
Visit(p) ==
  /\ Exists(p) /\ Act(~Quiet)
  /\ opening' = p
  /\ UNCHANGED <<panel, focus, lookups, heard, hidden>>

(* Look up a page, or a number, for as long as it takes.                   *)
Ask(what) == \E i \in Ids : /\ lookups[i] = Null
                            /\ lookups' = [lookups EXCEPT ![i] = what]

LookingFor(i, field) == lookups[i] # Null /\ DOMAIN lookups[i] = {field}

(* Variant: a page that is loaded does not move the map. *)
LoadUnheard ==
  /\ opening # Null
  /\ panel' = opening /\ opening' = Null
  /\ UNCHANGED <<vars, changes, focus, lookups, heard, hidden, acts, apart>>

(* onAdminPanelLoad, unless the listener is away while a click is          *)
(* answered; with the map hidden, onAdminPanelLoadWithMapClosed.           *)
Load ==
  /\ opening # Null
  /\ panel' = opening /\ opening' = Null
  /\ \/ hidden /\ UNCHANGED <<lookups, apart>>
     \/ ~hidden /\ heard /\ Ask([page |-> opening]) /\ UNCHANGED apart
     \/ ~hidden /\ ~heard /\ UNCHANGED lookups /\ apart' = TRUE
  /\ UNCHANGED <<vars, changes, focus, heard, hidden, acts>>

(* updateMapLocation: the map stays where it is when nothing is selected.  *)
MoveMap(i) ==
  /\ LookingFor(i, "page")
  /\ lookups' = [lookups EXCEPT ![i] = Null]
  /\ LET S == Focus(lookups[i].page) IN focus' = IF S = {} THEN focus ELSE S
  /\ UNCHANGED <<vars, changes, panel, opening, heard, hidden, acts, apart>>

(* No selection, one of several numbers, and access points.                *)
Ignored(S) == Cardinality(S) # 1 \/ \E k \in S : k >= FirstFake

(* The map, which may have been drawn before rows changed, selects what is *)
(* clicked, and says so.                                                   *)
ClickMap(S) ==
  /\ ~hidden /\ Act(~Quiet \/ Ignored(S))
  /\ focus' = S
  /\ IF Ignored(S) THEN UNCHANGED lookups ELSE \E k \in S : Ask([number |-> k])
  /\ UNCHANGED <<panel, opening, heard, hidden>>

(* Both requests are answered; an answer that is not ok counts as none.    *)
(* The listener is taken away while the answer that is used is read, and   *)
(* is there again at once if neither is.                                   *)
Answered(i) ==
  /\ LookingFor(i, "number")
  /\ \E found \in {Opened(lookups[i].number), NodePages(lookups[i].number), {}} :
       /\ lookups' = [lookups EXCEPT ![i] = IF found = {} THEN Null ELSE [answer |-> found]]
       /\ heard' = (found = {}) /\ apart' = (apart \/ found = {})
  /\ UNCHANGED <<vars, changes, panel, opening, focus, hidden, acts>>

OpenPage(i) ==
  /\ LookingFor(i, "answer")
  /\ lookups' = [lookups EXCEPT ![i] = Null]
  /\ opening' \in lookups[i].answer
  /\ heard' = TRUE
  /\ UNCHANGED <<vars, changes, panel, focus, hidden, acts, apart>>

(* A request, or the reading of its answer, fails; nobody catches it, so   *)
(* that a listener that was taken away stays away.                         *)
GiveUp(i) ==
  /\ lookups[i] # Null
  /\ lookups' = [lookups EXCEPT ![i] = Null]
  /\ apart' = TRUE
  /\ UNCHANGED <<vars, changes, panel, opening, focus, heard, hidden, acts>>

(* onHideMapClick and onShowMapClick load everything anew; the page that   *)
(* the browser's URL names is opened (readURLBar).                         *)
ToggleMap ==
  /\ Act(FALSE)
  /\ hidden' = ~hidden /\ heard' = TRUE
  /\ panel' = Home /\ opening' = panel /\ focus' = {}
  /\ lookups' = [i \in Ids |-> Null]

(* Rows change as often as they like before the page is used.              *)
RowsChange ==
  /\ acts = 0 \/ changes < MaxChanges
  /\ changes' = IF changes > MaxChanges THEN changes ELSE changes + 1
  /\ Next /\ apart' = TRUE /\ UNCHANGED ui

AdminNext ==
  \/ RowsChange
  \/ \E p \in Page : Visit(p)
  \/ \E S \in Selections : ClickMap(S)
  \/ ToggleMap \/ Load
  \/ \E i \in Ids : MoveMap(i) \/ Answered(i) \/ OpenPage(i) \/ GiveUp(i)

AdminSpec == AdminInit /\ [][AdminNext]_adminVars

-----------------------------------------------------------------------------
NumbersOf(e) == {e.number} \cup (IF e.node = Null THEN {} ELSE Numbered(e.node))

(* An entry that is clicked opens a page about it, from which the map is   *)
(* moved to a number that is on the map: the entry's, or its node's.       *)
(* Not so for the number of an install that lost it to a node, whose own   *)
(* page is opened, nor for the install of an inactive node (map.js         *)
(* l.61-76, l.199-217).  The dots of access points are not among Entries;  *)
(* they open nothing (l.195-198).                                          *)
ClickStaysOnMap ==
  \A e \in Entries : e.number \in ListedInstalls \/ e.number \notin Installs =>
    \E p \in Opened(e.number) :
      /\ p \in {InstallPage(e.number), NodePage(e.node)}
      /\ e.node = Null \/ nodes[e.node].nn = Null \/ Shown(e.node) =>
           Focus(p) # {} /\ \A k \in Focus(p) : OnTheMap(k) /\ k \in NumbersOf(e)

(* Whatever was clicked too early, was not heard, failed or went stale     *)
(* before, once somebody does one thing while nothing is under way, and it *)
(* has run its course, panel and map agree: the map is where the panel's   *)
(* page moves it, if that page selects anything (map.js l.190-275).  Not   *)
(* so while nothing selected, several numbers or an access point are       *)
(* clicked, or a number for which no page is found, all of which leave the *)
(* panel behind (l.191-198); nor when one more thing is done meanwhile,    *)
(* when rows change, when a request fails, or when a page is loaded while  *)
(* the listener is away (l.203-220).                                       *)
PanelAndMapAgree == Quiet /\ ~apart /\ ~hidden => Focus(panel) \in {{}, focus}
=============================================================================
