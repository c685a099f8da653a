------------------------------ MODULE UISPImport ------------------------------
(***************************************************************************)
(* The import of devices and links from UISP, the controller of the        *)
(* network's radios.  An import fetches all devices, brings each into      *)
(* MeshDB, marks those that UISP does not know any more as inactive,       *)
(* fetches all links and does the same with them.  Imports run hourly and, *)
(* for one network number, on demand, on any number of workers at once.    *)
(* Known objects are updated under row locks; unknown ones are made after  *)
(* the transaction that looked for them; the final passes save rows as     *)
(* they were read.  Last, links become lines of sight of buildings.        *)
(*                                                                         *)
(* A step is a request to UISP, a query, or a save with its commit.  The   *)
(* rows with a uisp_id are modelled, numbered in the order they are made.  *)
(***************************************************************************)
EXTENDS Integers, Sequences, FiniteSets, SequencesExt

CONSTANTS
  Importer,     \* import tasks
  Target,       \* the network number that each is for; Null: all
  NN,           \* network numbers of nodes
  UDev, ULink,  \* UISP's ids of devices and links
  Ends,         \* the devices a link goes from and to
  BuildingOf,   \* the building of a node; Null: it has none
  Start,        \* the databases and UISPs to start from
  Grace,        \* days a device may be offline before it is Inactive
  MaxDay, MaxChanges, MaxRuns,  \* bounds: days, changes of UISP, imports
  Null

Day == 0 .. MaxDay
DeviceStatus == {"Inactive", "Active", "Potential"}
LinkStatus == {"Inactive", "Planned", "Active"}

(* What UISP says of a device: the network number in its name, which may   *)
(* be no node's (Null), whether it is online, and when it was last.        *)
UISPDevice == [nn : NN \cup {Null}, active : BOOLEAN, seen : Day \cup {Null}]

DeviceRow == [uisp : UDev, nn : NN, status : DeviceStatus, abandon : Day \cup {Null}]

(* Links are by radio; cables have no line of sight.                       *)
LinkRow == [uisp : ULink, ends : Nat \X Nat, status : LinkStatus, abandon : Day \cup {Null}]

Pairs == {{BuildingOf[x], BuildingOf[y]} : x, y \in NN}

LosRow == [pair : Pairs, source : {"Human Annotated", "Existing Link"}, date : Day \cup {Null}]

ASSUME ImportAssumption ==
  /\ Null \notin UDev \cup ULink \cup NN \cup Day /\ IsFiniteSet(ULink)
  /\ Target \in [Importer -> NN \cup {Null}] /\ Ends \in [ULink -> UDev \X UDev]
  /\ \A s \in Start : /\ s.udev \in [UDev -> UISPDevice \cup {Null}]
                      /\ s.ulink \in [ULink -> {"active", "inactive", "absent"}]
                      /\ s.devices \in Seq(DeviceRow) /\ s.links \in Seq(LinkRow)
                      /\ s.los \in Seq(LosRow)
  /\ {Grace, MaxChanges, MaxRuns} \subseteq Nat /\ MaxDay \in Nat \ {0}

(* A pair of devices may have several links, for redundancy and bandwidth. *)
RedundantLinks(state) ==
  \E k, l \in ULink : /\ k # l /\ state[k] # "absent" /\ state[l] # "absent"
                      /\ {Ends[k][1], Ends[k][2]} = {Ends[l][1], Ends[l][2]}

OneOfPair(linkRows) == IsInjective([i \in DOMAIN linkRows |-> {linkRows[i].ends[1], linkRows[i].ends[2]}])

OneOfId(rows) == IsInjective([i \in DOMAIN rows |-> rows[i].uisp])

OneBetween(sights) == IsInjective([k \in DOMAIN sights |-> sights[k].pair])

(* A link's ends are rows of the devices that UISP's link goes from and to.*)
Joins(rows, ends, l) ==
  /\ {ends[1], ends[2]} \subseteq DOMAIN rows
  /\ {rows[ends[1]].uisp, rows[ends[2]].uisp} = {Ends[l][1], Ends[l][2]}

NotAbandoned(row) == row.status = "Active" => row.abandon = Null

(* The databases to start from are as imports leave them.                  *)
ASSUME StartAssumption ==
  \A s \in Start :
    /\ OneOfId(s.devices) /\ OneOfId(s.links) /\ OneBetween(s.los)
    /\ \A i \in DOMAIN s.devices : NotAbandoned(s.devices[i])
    /\ \A i \in DOMAIN s.links : NotAbandoned(s.links[i]) /\ Joins(s.devices, s.links[i].ends, s.links[i].uisp)

VARIABLES
  today, udev, ulink,  \* the date, and UISP
  redundant,           \* history: a pair of devices has had two links at once
  devices, links, los, \* MeshDB
  pc, mem,             \* an import's step, and its local variables
  changes, runs,
  reports,             \* history: uisp-deactivated events of a device since it was Active
  notified,            \* administrators have been told that rows may be duplicates
  overlap, died,       \* history: two imports have run at once; one has failed
  steady               \* history: alone and UISP unchanged since the import began

uisp == <<today, udev, ulink, redundant>>
meshdb == <<devices, links, los>>
vars == <<uisp, meshdb, pc, mem, changes, runs, reports, notified, overlap, died, steady>>

NoMemory == [devs |-> [d \in UDev |-> Null], ls |-> {}, up |-> {}, todo |-> {},
             at |-> Null, ends |-> <<0, 0>>, pair |-> {}, rows |-> <<>>]

Init ==
  /\ \E s \in Start : /\ udev = s.udev /\ ulink = s.ulink
                      /\ devices = s.devices /\ links = s.links /\ los = s.los
                      /\ reports = [i \in DOMAIN s.devices |-> 0]
                      /\ redundant = (RedundantLinks(s.ulink) \/ ~OneOfPair(s.links))
  /\ today = MaxDay - 1
  /\ pc = [p \in Importer |-> "idle"]
  /\ mem = [p \in Importer |-> NoMemory]
  /\ changes = 0 /\ runs = 0
  /\ notified = FALSE /\ overlap = FALSE /\ died = FALSE
  /\ steady = [p \in Importer |-> FALSE]

-----------------------------------------------------------------------------
Goto(p, label) == pc' = [pc EXCEPT ![p] = label]

(***************************************************************************)
(* UISP.                                                                   *)
(***************************************************************************)
Change ==
  /\ changes < MaxChanges /\ changes' = changes + 1
  /\ steady' = [p \in Importer |-> FALSE]
  /\ UNCHANGED <<meshdb, pc, mem, runs, reports, notified, overlap, died>>

(* A device appears, goes offline, comes back, is renamed, or disappears.  *)
ChangeDevice(d) ==
  /\ Change
  /\ \/ /\ udev[d] = Null
        /\ \E nn \in NN : udev' = [udev EXCEPT ![d] = [nn |-> nn, active |-> TRUE, seen |-> Null]]
     \/ /\ udev[d] # Null
        /\ \/ udev' = [udev EXCEPT ![d] = Null]
           \/ \E nn \in (NN \cup {Null}) \ {udev[d].nn} : udev' = [udev EXCEPT ![d].nn = nn]
           \/ /\ udev[d].active
              /\ udev' = [udev EXCEPT ![d].active = FALSE, ![d].seen = today]
           \/ /\ ~udev[d].active
              /\ udev' = [udev EXCEPT ![d].active = TRUE, ![d].seen = Null]
  /\ UNCHANGED <<today, ulink, redundant>>

(* A link appears, disappears, changes its state, or gets another id.      *)
ChangeLink(l) ==
  /\ Change
  /\ \/ \E s \in {"active", "inactive", "absent"} \ {ulink[l]} : ulink' = [ulink EXCEPT ![l] = s]
     \/ \E m \in ULink : /\ ulink[l] # "absent" /\ ulink[m] = "absent"
                         /\ ulink' = [ulink EXCEPT ![l] = "absent", ![m] = ulink[l]]
  /\ redundant' = (redundant \/ RedundantLinks(ulink'))
  /\ UNCHANGED <<today, udev>>

NextDay ==
  /\ today < MaxDay /\ today' = today + 1
  /\ steady' = [p \in Importer |-> FALSE]
  /\ UNCHANGED <<udev, ulink, redundant, meshdb, pc, mem, changes, runs, reports, notified, overlap, died>>

(***************************************************************************)
(* import_and_sync_uisp_devices.                                           *)
(***************************************************************************)
(* Devices whose name has the number of a node, and of the wanted one.     *)
Wanted(p, d) ==
  /\ udev[d] # Null /\ udev[d].nn # Null
  /\ Target[p] # Null => udev[d].nn = Target[p]

FetchDevices(p) ==
  /\ pc[p] = "idle" /\ runs < MaxRuns
  /\ runs' = runs + 1
  /\ mem' = [mem EXCEPT ![p].devs = udev, ![p].todo = {d \in UDev : Wanted(p, d)}]
  /\ overlap' = (overlap \/ \E q \in Importer : pc[q] # "idle")
  /\ steady' = [q \in Importer |-> q = p /\ \A r \in Importer : pc[r] = "idle"]
  /\ Goto(p, "devices")
  /\ UNCHANGED <<uisp, meshdb, changes, reports, notified, died>>

Existing(d) == {i \in DOMAIN devices : devices[i].uisp = d}

(* Variant: plain SELECT instead of SELECT ... FOR UPDATE. *)
NoLocks(p, label, R) == TRUE

(* Nobody else holds the locks of the rows. *)
Unlocked(p, label, R) ==
  \A q \in Importer \ {p} : pc[q] = label => DOMAIN mem[q].rows \cap R = {}

LookUpDevice(p) ==
  /\ pc[p] = "devices"
  /\ \E d \in mem[p].todo :
       /\ Unlocked(p, "update", Existing(d))
       /\ mem' = [mem EXCEPT ![p].todo = @ \ {d}, ![p].at = d,
                             ![p].rows = [i \in Existing(d) |-> devices[i]]]
       /\ Goto(p, IF Existing(d) = {} THEN "create" ELSE "update")
  /\ UNCHANGED <<uisp, meshdb, changes, runs, reports, notified, overlap, died, steady>>

LongGone(seen) == seen = Null \/ today - seen > Grace

(* update_device_from_uisp_data, update_link_from_uisp_data.               *)
StatusFrom(status, active, seen) ==
  IF active THEN "Active"
  ELSE IF status = "Inactive" \/ LongGone(seen) THEN "Inactive" ELSE status

(* Variant: the date is set if it is missing, and never cleared. *)
AbandonKept(row, status, seen) ==
  IF status = "Inactive" /\ row.abandon = Null THEN seen ELSE row.abandon

AbandonFrom(row, status, seen) ==
  IF status = "Active" /\ row.status # "Active" THEN Null
  ELSE IF status = "Inactive" /\ seen # Null /\ (row.status # "Inactive" \/ row.abandon = Null)
  THEN seen ELSE row.abandon

Updated(row, u) ==
  LET status == StatusFrom(row.status, u.active, u.seen) IN
    [row EXCEPT !.nn = u.nn, !.status = status, !.abandon = AbandonFrom(row, status, u.seen)]

(* Deactivations are reported by the event uisp-deactivated, before the    *)
(* commit.                                                                 *)
Reported(p) ==
  [i \in DOMAIN reports |->
     IF i \notin DOMAIN mem[p].rows THEN reports[i]
     ELSE LET new == Updated(mem[p].rows[i], mem[p].devs[mem[p].at]).status IN
       IF new = "Active" THEN 0
       ELSE IF new # mem[p].rows[i].status THEN reports[i] + 1 ELSE reports[i]]

UpdateDevice(p) ==
  /\ pc[p] = "update"
  /\ devices' = [i \in DOMAIN devices |->
       IF i \in DOMAIN mem[p].rows THEN Updated(mem[p].rows[i], mem[p].devs[mem[p].at]) ELSE devices[i]]
  /\ reports' = Reported(p)
  /\ Goto(p, "devices")
  /\ UNCHANGED <<uisp, links, los, mem, changes, runs, notified, overlap, died, steady>>

CreateDevice(p) ==
  /\ pc[p] = "create"
  /\ LET u == mem[p].devs[mem[p].at] IN
       devices' = Append(devices,
         [uisp |-> mem[p].at, nn |-> u.nn, status |-> IF u.active THEN "Active" ELSE "Inactive",
          abandon |-> IF u.active THEN Null ELSE u.seen])
  /\ reports' = Append(reports, 0)
  /\ Goto(p, "devices")
  /\ UNCHANGED <<uisp, links, los, mem, changes, runs, notified, overlap, died, steady>>

(* Variant: devices of other network numbers are left alone. *)
LostOfTarget(p) ==
  {i \in DOMAIN devices : /\ mem[p].devs[devices[i].uisp] = Null
                          /\ devices[i].status # "Inactive"
                          /\ Target[p] # Null => devices[i].nn = Target[p]}

Lost(p) == {i \in DOMAIN devices : /\ mem[p].devs[devices[i].uisp] = Null
                                   /\ devices[i].status # "Inactive"}

SweepDevices(p) ==
  /\ pc[p] = "devices" /\ mem[p].todo = {}
  /\ mem' = [mem EXCEPT ![p].rows = [i \in Lost(p) |-> devices[i]]]
  /\ Goto(p, "sweep")
  /\ UNCHANGED <<uisp, meshdb, changes, runs, reports, notified, overlap, died, steady>>

SaveLostDevices(p) ==
  /\ pc[p] = "sweep" /\ Unlocked(p, "update", DOMAIN mem[p].rows)
  /\ devices' = [i \in DOMAIN devices |-> IF i \in DOMAIN mem[p].rows
                                          THEN [mem[p].rows[i] EXCEPT !.status = "Inactive"]
                                          ELSE devices[i]]
  /\ mem' = [mem EXCEPT ![p] = [NoMemory EXCEPT !.devs = mem[p].devs]]
  /\ Goto(p, "fetch")
  /\ UNCHANGED <<uisp, links, los, changes, runs, reports, notified, overlap, died, steady>>

(***************************************************************************)
(* import_and_sync_uisp_links.                                             *)
(***************************************************************************)
FetchLinks(p) ==
  /\ pc[p] = "fetch"
  /\ LET present == {l \in ULink : ulink[l] # "absent"} IN
       mem' = [mem EXCEPT ![p].ls = present, ![p].todo = present,
                          ![p].up = {l \in ULink : ulink[l] = "active"}]
  /\ Goto(p, "links")
  /\ UNCHANGED <<uisp, meshdb, changes, runs, reports, notified, overlap, died, steady>>

(* Variant: only links that go from and to the same devices. *)
OrphansOneWay(p, a, b) ==
  {i \in DOMAIN links : links[i].ends = <<a, b>> /\ links[i].uisp \notin mem[p].ls}

(* UISP changes ids of links: links of the same devices whose id is gone.  *)
Orphans(p, a, b) ==
  {i \in DOMAIN links : links[i].ends \in {<<a, b>>, <<b, a>>} /\ links[i].uisp \notin mem[p].ls}

Matching(p, l, a, b) ==
  LET same == {i \in DOMAIN links : links[i].uisp = l} IN
    IF same # {} THEN same ELSE Orphans(p, a, b)

(* Devices are fetched by get(), which wants exactly one.                  *)
FindEnds(p) ==
  /\ pc[p] = "links"
  /\ \E l \in mem[p].todo :
     LET A == Existing(Ends[l][1])
         B == Existing(Ends[l][2])
         a == CHOOSE i \in A : TRUE
         b == CHOOSE i \in B : TRUE
         ofTarget == Target[p] # Null => Target[p] \in {devices[a].nn, devices[b].nn}
     IN
     \/ /\ A = {} \/ (Cardinality(A) = 1 /\ B = {}) \/ (Cardinality(A) = 1 /\ Cardinality(B) = 1 /\ ~ofTarget)
        /\ mem' = [mem EXCEPT ![p].todo = @ \ {l}]
        /\ UNCHANGED <<pc, died>>
     \/ /\ A # {} /\ (Cardinality(A) > 1 \/ Cardinality(B) > 1)
        /\ mem' = [mem EXCEPT ![p] = NoMemory]
        /\ died' = TRUE
        /\ Goto(p, "idle")
     \/ /\ Cardinality(A) = 1 /\ Cardinality(B) = 1 /\ ofTarget
        /\ mem' = [mem EXCEPT ![p].todo = @ \ {l}, ![p].at = l, ![p].ends = <<a, b>>]
        /\ Goto(p, "findLink")
        /\ UNCHANGED died
  /\ UNCHANGED <<uisp, meshdb, changes, runs, reports, notified, overlap, steady>>

LookUpLink(p) ==
  /\ pc[p] = "findLink"
  /\ LET found == Matching(p, mem[p].at, mem[p].ends[1], mem[p].ends[2]) IN
       /\ Unlocked(p, "updateLink", found)
       /\ mem' = [mem EXCEPT ![p].rows = [i \in found |-> links[i]]]
       /\ notified' = (notified \/ \E i, j \in found : i # j)
       /\ Goto(p, IF found = {} THEN "createLink" ELSE "updateLink")
  /\ UNCHANGED <<uisp, meshdb, changes, runs, reports, overlap, died, steady>>

(* get_uisp_link_last_seen asks UISP again: the earlier of both dates.     *)
Seen(d) == IF udev[d].active THEN today ELSE udev[d].seen

LinkSeen(l) ==
  LET dates == {Seen(Ends[l][1]), Seen(Ends[l][2])} \ {Null} IN
    IF dates = {} THEN Null ELSE CHOOSE day \in dates : \A other \in dates : day <= other

UpdatedLink(row, l, ends, active, seen) ==
  LET status == StatusFrom(row.status, active, seen) IN
    [uisp |-> l, status |-> status, abandon |-> AbandonFrom(row, status, seen),
     ends |-> IF row.ends \in {ends, <<ends[2], ends[1]>>} THEN row.ends ELSE ends]

UpdateLink(p) ==
  /\ pc[p] = "updateLink"
  /\ LET l == mem[p].at IN
       /\ udev[Ends[l][1]] # Null /\ udev[Ends[l][2]] # Null
       /\ links' = [i \in DOMAIN links |->
            IF i \in DOMAIN mem[p].rows
            THEN UpdatedLink(mem[p].rows[i], l, mem[p].ends, l \in mem[p].up, LinkSeen(l))
            ELSE links[i]]
  /\ Goto(p, "links")
  /\ UNCHANGED <<uisp, devices, los, mem, changes, runs, reports, notified, overlap, died, steady>>

CreateLink(p) ==
  /\ pc[p] = "createLink"
  /\ links' = Append(links,
       [uisp |-> mem[p].at, ends |-> mem[p].ends, abandon |-> Null,
        status |-> IF mem[p].at \in mem[p].up THEN "Active" ELSE "Inactive"])
  /\ Goto(p, "links")
  /\ UNCHANGED <<uisp, devices, los, mem, changes, runs, reports, notified, overlap, died, steady>>

LostLinks(p) == {i \in DOMAIN links : links[i].uisp \notin mem[p].ls /\ links[i].status = "Active"}

SweepLinks(p) ==
  /\ pc[p] = "links" /\ mem[p].todo = {}
  /\ mem' = [mem EXCEPT ![p].rows = [i \in LostLinks(p) |-> links[i]]]
  /\ Goto(p, "sweepLinks")
  /\ UNCHANGED <<uisp, meshdb, changes, runs, reports, notified, overlap, died, steady>>

SaveLostLinks(p) ==
  /\ pc[p] = "sweepLinks" /\ Unlocked(p, "updateLink", DOMAIN mem[p].rows)
  /\ links' = [i \in DOMAIN links |-> IF i \in DOMAIN mem[p].rows
                                      THEN [mem[p].rows[i] EXCEPT !.status = "Inactive"]
                                      ELSE links[i]]
  /\ Goto(p, "sights")
  /\ UNCHANGED <<uisp, devices, los, mem, changes, runs, reports, notified, overlap, died, steady>>

(***************************************************************************)
(* sync_link_table_into_los_objects.                                       *)
(***************************************************************************)
ReadLinks(p) ==
  /\ pc[p] = "sights"
  /\ mem' = [mem EXCEPT ![p] = [NoMemory EXCEPT !.rows = links, !.todo = DOMAIN links]]
  /\ Goto(p, "los")
  /\ UNCHANGED <<uisp, meshdb, changes, runs, reports, notified, overlap, died, steady>>

NNs(link) == {devices[link.ends[1]].nn, devices[link.ends[2]].nn}

Pair(link) == {BuildingOf[nn] : nn \in NNs(link)}

(* Of the wanted number, and between two buildings.                        *)
Sighted(p, link) ==
  /\ Target[p] # Null => Target[p] \in NNs(link)
  /\ Null \notin Pair(link) /\ Cardinality(Pair(link)) = 2

Sights(pair) == {k \in DOMAIN los : los[k].pair = pair}

(* last_functioning_date_estimate; UISP has no install dates.              *)
FunctioningDate(link) == IF link.status # "Inactive" THEN today ELSE link.abandon

(* Variant: a line of sight that people have seen stays theirs. *)
ResightedTheirs(row, link) ==
  IF row.source = "Existing Link" /\ FunctioningDate(link) # Null
  THEN [row EXCEPT !.date = FunctioningDate(link)] ELSE row

(* A line of sight that people have seen is one of a link when that is up. *)
Resighted(row, link) ==
  LET source == IF link.status = "Active" THEN "Existing Link" ELSE row.source IN
    [row EXCEPT !.source = source,
                !.date = IF source = "Existing Link" /\ FunctioningDate(link) # Null THEN FunctioningDate(link) ELSE @]

(* Looked up and saved under row locks; the link is as it was read.        *)
SyncSight(p) ==
  /\ pc[p] = "los"
  /\ \E i \in mem[p].todo :
       LET link == mem[p].rows[i]
           found == IF Sighted(p, link) THEN Sights(Pair(link)) ELSE {}
       IN
       /\ los' = [k \in DOMAIN los |-> IF k \in found THEN Resighted(los[k], link) ELSE los[k]]
       /\ mem' = [mem EXCEPT ![p].todo = @ \ {i}, ![p].at = i, ![p].pair = Pair(link)]
       /\ Goto(p, IF Sighted(p, link) /\ found = {} THEN "createLos" ELSE "los")
  /\ UNCHANGED <<uisp, devices, links, changes, runs, reports, notified, overlap, died, steady>>

CreateSight(p) ==
  /\ pc[p] = "createLos"
  /\ los' = Append(los, [pair |-> mem[p].pair, source |-> "Existing Link",
                         date |-> FunctioningDate(mem[p].rows[mem[p].at])])
  /\ Goto(p, "los")
  /\ UNCHANGED <<uisp, devices, links, mem, changes, runs, reports, notified, overlap, died, steady>>

EndSights(p) ==
  /\ pc[p] = "los" /\ mem[p].todo = {}
  /\ Goto(p, "finish")
  /\ UNCHANGED <<uisp, meshdb, mem, changes, runs, reports, notified, overlap, died, steady>>

Finish(p) ==
  /\ pc[p] = "finish"
  /\ mem' = [mem EXCEPT ![p] = NoMemory]
  /\ Goto(p, "idle")
  /\ UNCHANGED <<uisp, meshdb, changes, runs, reports, notified, overlap, died, steady>>

(* A worker dies, UISP or Slack does not answer, or a device that a link   *)
(* goes to is gone: the transaction is rolled back; the event has perhaps  *)
(* been sent.                                                              *)
Fail(p) ==
  /\ pc[p] \notin {"idle", "finish"}
  /\ died' = TRUE
  /\ reports' = reports \/ (pc[p] = "update" /\ reports' = Reported(p))
  /\ mem' = [mem EXCEPT ![p] = NoMemory]
  /\ Goto(p, "idle")
  /\ UNCHANGED <<uisp, meshdb, changes, runs, notified, overlap, steady>>

-----------------------------------------------------------------------------
Next ==
  \/ \E d \in UDev : ChangeDevice(d)
  \/ \E l \in ULink : ChangeLink(l)
  \/ NextDay
  \/ \E p \in Importer :
       \/ FetchDevices(p) \/ LookUpDevice(p) \/ UpdateDevice(p) \/ CreateDevice(p)
       \/ SweepDevices(p) \/ SaveLostDevices(p)
       \/ FetchLinks(p) \/ FindEnds(p) \/ LookUpLink(p) \/ UpdateLink(p) \/ CreateLink(p)
       \/ SweepLinks(p) \/ SaveLostLinks(p)
       \/ ReadLinks(p) \/ SyncSight(p) \/ CreateSight(p) \/ EndSights(p)
       \/ Finish(p) \/ Fail(p)

Spec == Init /\ [][Next]_vars

-----------------------------------------------------------------------------
Label == {"idle", "devices", "update", "create", "sweep", "fetch", "links", "findLink",
          "updateLink", "createLink", "sweepLinks", "sights", "los", "createLos", "finish"}

(* The types of the tables and of the imports; links refer to devices.     *)
TablesOK ==
  /\ today \in Day /\ udev \in [UDev -> UISPDevice \cup {Null}]
  /\ ulink \in [ULink -> {"active", "inactive", "absent"}]
  /\ devices \in Seq(DeviceRow) /\ links \in Seq(LinkRow) /\ los \in Seq(LosRow)
  /\ reports \in [DOMAIN devices -> Nat]
  /\ \A i \in DOMAIN links : {links[i].ends[1], links[i].ends[2]} \subseteq DOMAIN devices
  /\ pc \in [Importer -> Label] /\ changes \in 0 .. MaxChanges /\ runs \in 0 .. MaxRuns
  /\ {overlap, died} \subseteq BOOLEAN /\ steady \in [Importer -> BOOLEAN]

(* Every variable keeps its type.                                          *)
TypeOK == TablesOK /\ {notified, redundant} \subseteq BOOLEAN

(* As long as imports run one after the other, whatever fails: a device is *)
(* one row, and so is a line of sight; an id of a link is on one row       *)
(* unless the import told the administrators that several rows of a pair   *)
(* of devices had lost theirs, and gave it to all of them; and two devices *)
(* that never had redundant links are joined by one row, also when UISP    *)
(* gives the link another id, perhaps in the other direction               *)
(* (sync_handlers.py l.92-96, l.254-292, l.308, l.376-380).                *)
OneRow == ~overlap =>
  /\ OneOfId(devices) /\ OneBetween(los)
  /\ ~notified => OneOfId(links)
  /\ ~redundant => OneOfPair(links)

DeviceMirrored(d) ==
  \E i \in Existing(d) :
     /\ devices[i].nn = udev[d].nn
     /\ udev[d].active => devices[i].status = "Active"
     /\ ~udev[d].active /\ (udev[d].seen = Null \/ today - udev[d].seen > Grace)
          => devices[i].status = "Inactive"

LinkMirrored(l) ==
  \E i \in DOMAIN links :
     /\ links[i].uisp = l
     /\ {devices[links[i].ends[1]].uisp, devices[links[i].ends[2]].uisp} = {Ends[l][1], Ends[l][2]}
     /\ ulink[l] = "active" => links[i].status = "Active"

(* An import that was alone leaves MeshDB like UISP: what it is for has    *)
(* its number and status, Inactive if it has been away for more than the   *)
(* period; and what UISP does not know is inactive, for all numbers        *)
(* (sync_handlers.py l.177-192, l.334-347, update_objects.py l.35-60).     *)
Mirrored ==
  \A p \in Importer : pc[p] = "finish" /\ steady[p] =>
    /\ \A d \in UDev : Wanted(p, d) => DeviceMirrored(d)
    /\ \A i \in DOMAIN devices : udev[devices[i].uisp] = Null => devices[i].status = "Inactive"
    /\ \A l \in ULink :
         /\ ulink[l] # "absent" /\ \A k \in {1, 2} : Cardinality(Existing(Ends[l][k])) = 1
         /\ Target[p] # Null => \E k \in {1, 2} : \E i \in Existing(Ends[l][k]) : devices[i].nn = Target[p]
         => LinkMirrored(l)
    /\ \A i \in DOMAIN links : ulink[links[i].uisp] = "absent" => links[i].status # "Active"

(* An import that was alone leaves a line of sight between the buildings   *)
(* of each link it is for, a link's own if the link is up, and its date is *)
(* the last day of some such link between the two (sync_handlers.py        *)
(* l.350-420).                                                             *)
SightsFollow ==
  \A p \in Importer : pc[p] = "finish" /\ steady[p] =>
    \A i \in DOMAIN links : Sighted(p, links[i]) =>
      LET between == {links[j] : j \in {k \in DOMAIN links :
                        Sighted(p, links[k]) /\ Pair(links[k]) = Pair(links[i])}}
          dates == {FunctioningDate(link) : link \in between} \ {Null}
      IN
      /\ Sights(Pair(links[i])) # {}
      /\ \A k \in Sights(Pair(links[i])) :
           /\ links[i].status = "Active" => los[k].source = "Existing Link"
           /\ los[k].source = "Existing Link" => los[k].date \in dates \/ dates = {}

(* However many imports run at once, a device that goes offline is         *)
(* reported once until it comes back, unless an import fails after the     *)
(* event (update_objects.py l.51, l.88).                                   *)
ReportedOnce == ~died => \A i \in DOMAIN reports : reports[i] <= 1

(* An object that is Active has no abandon date, whoever wrote it last     *)
(* (update_objects.py l.72, l.162).                                        *)
ActiveNotAbandoned ==
  /\ \A i \in DOMAIN devices : NotAbandoned(devices[i])
  /\ \A i \in DOMAIN links : NotAbandoned(links[i])
=============================================================================
