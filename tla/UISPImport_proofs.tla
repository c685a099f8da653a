-------------------------- MODULE UISPImport_proofs ---------------------------
(***************************************************************************)
(* Theorems about UISPImport, for any number of imports, devices, links    *)
(* and network numbers, and any databases to start from.                   *)
(***************************************************************************)
EXTENDS UISPImport, FiniteSetTheorems, TLAPS

(* Tables grow at their end, and rows change in place.                     *)
LEMMA Appended ==
  ASSUME NEW S, NEW s \in Seq(S), NEW e \in S
  PROVE  /\ Append(s, e) \in Seq(S)
         /\ DOMAIN Append(s, e) = DOMAIN s \cup {Len(s) + 1} /\ Len(s) + 1 \notin DOMAIN s
         /\ \A i \in DOMAIN s : Append(s, e)[i] = s[i]
         /\ Append(s, e)[Len(s) + 1] = e
OBVIOUS

LEMMA Replaced ==
  ASSUME NEW S, NEW s \in Seq(S), NEW t, t = [i \in DOMAIN s |-> t[i]], \A i \in DOMAIN s : t[i] \in S
  PROVE  t \in Seq(S) /\ DOMAIN t = DOMAIN s /\ Len(t) = Len(s)
<1>1. Len(s) \in Nat /\ DOMAIN s = 1 .. Len(s)
  OBVIOUS
<1>2. t \in [1 .. Len(s) -> S]
  BY <1>1
<1> QED BY <1>1, <1>2

-----------------------------------------------------------------------------
(***************************************************************************)
(* What an import remembers at each of its steps.                          *)
(***************************************************************************)
Field == {"devs", "ls", "up", "todo", "at", "ends", "pair", "rows"}

IsMemory(m) == m = [f \in Field |-> m[f]]

Shape ==
  /\ mem = [p \in Importer |-> mem[p]]
  /\ \A p \in Importer : IsMemory(mem[p])

(* A device that UISP knew when the import asked, and of a node's number.  *)
Fetched(m, d) == d \in UDev /\ m.devs[d] \in UISPDevice /\ m.devs[d].nn \in NN

IsLink(row) == row \in LinkRow /\ Joins(devices, row.ends, row.uisp)

Holding(s, m) ==
  /\ s \in {"devices", "update", "create"} => \A d \in m.todo : Fetched(m, d)
  /\ s \in {"devices", "update", "create"} => DOMAIN m.devs = UDev
  /\ s \in {"update", "create"} => Fetched(m, m.at)
  /\ s = "update" => \A i \in DOMAIN m.rows : i \in DOMAIN devices /\ m.rows[i] = devices[i]
  /\ s = "sweep" => \A i \in DOMAIN m.rows :
       i \in DOMAIN devices /\ m.rows[i] \in DeviceRow /\ m.rows[i].uisp = devices[i].uisp
  /\ s \in {"links", "findLink", "updateLink", "createLink"} => m.todo \subseteq ULink
  /\ s \in {"findLink", "updateLink", "createLink"} =>
       m.at \in ULink /\ m.ends \in Nat \X Nat /\ Joins(devices, m.ends, m.at)
  /\ s = "updateLink" => \A i \in DOMAIN m.rows : i \in DOMAIN links /\ m.rows[i] = links[i]
  /\ s = "sweepLinks" => \A i \in DOMAIN m.rows : i \in DOMAIN links /\ IsLink(m.rows[i])
  /\ s \in {"los", "createLos"} => m.todo \subseteq DOMAIN m.rows
  /\ s \in {"los", "createLos"} => \A i \in DOMAIN m.rows : IsLink(m.rows[i])
  /\ s = "createLos" => m.at \in DOMAIN m.rows /\ m.pair \in Pairs

(* No two imports hold the lock of a row.                                  *)
LocksApart ==
  \A p, q \in Importer : \A s \in {"update", "updateLink"} :
     p # q /\ pc[p] = s /\ pc[q] = s => DOMAIN mem[p].rows \cap DOMAIN mem[q].rows = {}

Inv ==
  /\ TablesOK /\ Shape /\ LocksApart
  /\ \A i \in DOMAIN links : IsLink(links[i])
  /\ \A p \in Importer : Holding(pc[p], mem[p])

LEMMA InitInv == Init => Inv
<1> SUFFICES ASSUME Init PROVE Inv
  OBVIOUS
<1>1. PICK s \in Start : /\ udev = s.udev /\ ulink = s.ulink
                         /\ devices = s.devices /\ links = s.links /\ los = s.los
                         /\ reports = [i \in DOMAIN s.devices |-> 0]
  BY DEF Init
<1>2. /\ udev \in [UDev -> UISPDevice \cup {Null}]
      /\ ulink \in [ULink -> {"active", "inactive", "absent"}]
      /\ devices \in Seq(DeviceRow) /\ links \in Seq(LinkRow) /\ los \in Seq(LosRow)
  BY <1>1, ImportAssumption
<1>3. \A i \in DOMAIN links : IsLink(links[i])
  BY <1>1, <1>2, StartAssumption DEF IsLink
<1>4. \A i \in DOMAIN links : {links[i].ends[1], links[i].ends[2]} \subseteq DOMAIN devices
  BY <1>3 DEF IsLink, Joins
<1>5. today \in Day
  BY ImportAssumption DEF Init, Day
<1>6. TablesOK
  <2>1. reports \in [DOMAIN devices -> Nat]
    BY <1>1
  <2>2. changes \in 0 .. MaxChanges /\ runs \in 0 .. MaxRuns
    BY ImportAssumption DEF Init
  <2>3. pc \in [Importer -> Label] /\ {overlap, died} \subseteq BOOLEAN /\ steady \in [Importer -> BOOLEAN]
    BY DEF Init, Label
  <2> QED BY <1>2, <1>4, <1>5, <2>1, <2>2, <2>3 DEF TablesOK
<1>7. IsMemory(NoMemory)
  BY DEF IsMemory, NoMemory, Field
<1>8. Shape /\ LocksApart
  BY <1>7 DEF Init, Shape, LocksApart
<1>9. \A p \in Importer : Holding(pc[p], mem[p])
  BY DEF Init, Holding
<1> QED BY <1>3, <1>6, <1>8, <1>9 DEF Inv

(* What an import holds stays true while the tables grow, and nobody       *)
(* touches the rows that it has locked.                                    *)
LEMMA StillHolding ==
  ASSUME NEW s, NEW m, Holding(s, m),
         \A i \in DOMAIN devices : i \in DOMAIN devices' /\ devices'[i].uisp = devices[i].uisp,
         DOMAIN links \subseteq DOMAIN links',
         s = "update" => \A i \in DOMAIN m.rows : devices'[i] = devices[i],
         s = "updateLink" => \A i \in DOMAIN m.rows : links'[i] = links[i]
  PROVE  Holding(s, m)'
<1>1. \A e, l : Joins(devices, e, l) => Joins(devices', e, l)
  BY DEF Joins
<1>2. \A r : IsLink(r) => IsLink(r)'
  BY <1>1 DEF IsLink
<1> QED BY <1>1, <1>2 DEF Holding, Fetched

(* A step of one import.                                                   *)
LEMMA StepInv ==
  ASSUME Inv, NEW p \in Importer, NEW s \in Label, NEW m, IsMemory(m),
         pc' = [pc EXCEPT ![p] = s], mem' = [mem EXCEPT ![p] = m],
         UNCHANGED <<uisp, changes>>, runs' \in 0 .. MaxRuns, overlap' \in BOOLEAN, died' \in BOOLEAN,
         steady' \in [Importer -> BOOLEAN], reports' \in [DOMAIN devices' -> Nat],
         devices' \in Seq(DeviceRow), links' \in Seq(LinkRow), los' \in Seq(LosRow),
         \A i \in DOMAIN devices : i \in DOMAIN devices' /\ devices'[i].uisp = devices[i].uisp,
         DOMAIN links \subseteq DOMAIN links',
         \A i \in DOMAIN links' : Joins(devices, links'[i].ends, links'[i].uisp),
         \A q \in Importer \ {p} : pc[q] = "update" =>
            \A i \in DOMAIN mem[q].rows : devices'[i] = devices[i],
         \A q \in Importer \ {p} : pc[q] = "updateLink" =>
            \A i \in DOMAIN mem[q].rows : links'[i] = links[i],
         s \in {"update", "updateLink"} => \A q \in Importer \ {p} :
            pc[q] = s => DOMAIN mem[q].rows \cap DOMAIN m.rows = {},
         Holding(s, m)'
  PROVE  Inv'
<1>1. /\ pc'[p] = s /\ mem'[p] = m
      /\ \A q \in Importer \ {p} : pc'[q] = pc[q] /\ mem'[q] = mem[q]
  BY DEF Inv, Shape, TablesOK
<1>2. Shape'
  BY <1>1 DEF Inv, Shape
<1>3. LocksApart'
  BY <1>1 DEF Inv, LocksApart
<1>4. ASSUME NEW q \in Importer PROVE Holding(pc[q], mem[q])'
  <2>1. CASE q = p
    BY <1>1, <2>1
  <2>2. CASE q # p
    <3>1. Holding(pc[q], mem[q])
      BY DEF Inv
    <3> DEFINE t == pc[q]
               n == mem[q]
    <3>2. Holding(t, n) /\ pc'[q] = t /\ mem'[q] = n
      BY <1>1, <2>2, <3>1
    <3>3. t = "update" => \A i \in DOMAIN n.rows : devices'[i] = devices[i]
      BY <2>2
    <3>4. t = "updateLink" => \A i \in DOMAIN n.rows : links'[i] = links[i]
      BY <2>2
    <3>5. ASSUME NEW t0, NEW n0, Holding(t0, n0), pc'[q] = t0, mem'[q] = n0,
                 t0 = "update" => \A i \in DOMAIN n0.rows : devices'[i] = devices[i],
                 t0 = "updateLink" => \A i \in DOMAIN n0.rows : links'[i] = links[i]
          PROVE  Holding(pc[q], mem[q])'
      <4>1. Holding(t0, n0)'
        BY <3>5, StillHolding
      <4> QED BY <3>5, <4>1
    <3> HIDE DEF t, n
    <3> QED BY <3>2, <3>3, <3>4, <3>5
  <2> QED BY <2>1, <2>2
<1>5. \A i \in DOMAIN links' : Joins(devices', links'[i].ends, links'[i].uisp)
  BY DEF Joins
<1>6. \A i \in DOMAIN links' : links'[i] \in LinkRow
  OBVIOUS
<1>7. \A i \in DOMAIN links' : IsLink(links[i])'
  BY <1>5, <1>6 DEF IsLink
<1>8. TablesOK'
  <2>1. \A i \in DOMAIN links' : {links'[i].ends[1], links'[i].ends[2]} \subseteq DOMAIN devices'
    BY <1>5 DEF Joins
  <2>2. pc' \in [Importer -> Label]
    BY DEF Inv, TablesOK
  <2> QED BY <2>1, <2>2 DEF Inv, TablesOK, uisp
<1> QED BY <1>2, <1>3, <1>4, <1>7, <1>8 DEF Inv

(* A step of one import that changes no table.                             *)
LEMMA QuietInv ==
  ASSUME Inv, NEW p \in Importer, NEW s \in Label, NEW m, IsMemory(m),
         pc' = [pc EXCEPT ![p] = s], mem' = [mem EXCEPT ![p] = m],
         UNCHANGED <<uisp, meshdb, changes>>, runs' \in 0 .. MaxRuns, overlap' \in BOOLEAN, died' \in BOOLEAN,
         steady' \in [Importer -> BOOLEAN], reports' \in [DOMAIN devices -> Nat],
         s \in {"update", "updateLink"} => \A q \in Importer \ {p} :
            pc[q] = s => DOMAIN mem[q].rows \cap DOMAIN m.rows = {},
         Holding(s, m)
  PROVE  Inv'
<1>1. devices' = devices /\ links' = links /\ los' = los
  BY DEF meshdb
<1>2. Holding(s, m)'
  BY <1>1, StillHolding
<1>3. devices \in Seq(DeviceRow) /\ links \in Seq(LinkRow) /\ los \in Seq(LosRow)
  BY DEF Inv, TablesOK
<1>4. \A i \in DOMAIN links : Joins(devices, links[i].ends, links[i].uisp)
  BY DEF Inv, IsLink
<1> QED BY <1>1, <1>2, <1>3, <1>4, StepInv

(* What is known of an import at the beginning of its step.                *)
LEMMA Remembered ==
  ASSUME Inv, NEW p \in Importer
  PROVE  /\ IsMemory(mem[p]) /\ Holding(pc[p], mem[p])
         /\ mem = [mem EXCEPT ![p] = mem[p]]
         /\ devices \in Seq(DeviceRow) /\ links \in Seq(LinkRow) /\ los \in Seq(LosRow)
         /\ reports \in [DOMAIN devices -> Nat] /\ runs \in 0 .. MaxRuns
         /\ overlap \in BOOLEAN /\ died \in BOOLEAN /\ steady \in [Importer -> BOOLEAN]
         /\ udev \in [UDev -> UISPDevice \cup {Null}] /\ today \in Day
         /\ \A i \in DOMAIN links : Joins(devices, links[i].ends, links[i].uisp)
BY DEF Inv, TablesOK, Shape, IsLink

LEMMA Idle == IsMemory(NoMemory) /\ Holding("idle", NoMemory)
<1>1. IsMemory(NoMemory)
  BY DEF IsMemory, NoMemory, Field
<1>2. Holding("idle", NoMemory)
  BY DEF Holding
<1> QED BY <1>1, <1>2

LEMMA FetchDevicesInv == ASSUME Inv, NEW p \in Importer, FetchDevices(p) PROVE Inv'
<1> DEFINE W == {d \in UDev : Wanted(p, d)}
           m == [mem[p] EXCEPT !.devs = udev, !.todo = W]
<1>1. IsMemory(mem[p]) /\ udev \in [UDev -> UISPDevice \cup {Null}] /\ runs \in 0 .. MaxRuns
      /\ overlap \in BOOLEAN /\ died \in BOOLEAN /\ reports \in [DOMAIN devices -> Nat]
  BY Remembered
<1>2. IsMemory(m) /\ m.devs = udev /\ m.todo = W
  BY <1>1 DEF IsMemory, Field
<1>3. mem' = [mem EXCEPT ![p] = m] /\ pc' = [pc EXCEPT ![p] = "devices"]
  BY DEF FetchDevices, Goto
<1>4. \A d \in W : udev[d] \in UISPDevice /\ udev[d].nn \in NN
  BY <1>1 DEF Wanted, UISPDevice
<1> HIDE DEF m
<1>5. \A d \in W : Fetched(m, d)
  BY <1>2, <1>4 DEF Fetched
<1>6. Holding("devices", m)
  BY <1>1, <1>2, <1>5 DEF Holding
<1>7. runs' \in 0 .. MaxRuns
  BY <1>1, ImportAssumption DEF FetchDevices
<1>8. overlap' \in BOOLEAN /\ steady' \in [Importer -> BOOLEAN]
  BY <1>1 DEF FetchDevices
<1>9. UNCHANGED <<uisp, meshdb, changes, reports, died>>
  BY DEF FetchDevices
<1> QED BY <1>1, <1>2, <1>3, <1>6, <1>7, <1>8, <1>9, QuietInv DEF Label

LEMMA LookUpDeviceInv == ASSUME Inv, NEW p \in Importer, LookUpDevice(p) PROVE Inv'
<1>1. IsMemory(mem[p]) /\ Holding("devices", mem[p]) /\ runs \in 0 .. MaxRuns
      /\ overlap \in BOOLEAN /\ died \in BOOLEAN /\ reports \in [DOMAIN devices -> Nat]
      /\ steady \in [Importer -> BOOLEAN]
  BY Remembered DEF LookUpDevice
<1>2. PICK d \in mem[p].todo :
        /\ Unlocked(p, "update", Existing(d))
        /\ mem' = [mem EXCEPT ![p].todo = @ \ {d}, ![p].at = d,
                              ![p].rows = [i \in Existing(d) |-> devices[i]]]
        /\ Goto(p, IF Existing(d) = {} THEN "create" ELSE "update")
  BY DEF LookUpDevice
<1> DEFINE R == [i \in Existing(d) |-> devices[i]]
           m == [mem[p] EXCEPT !.todo = @ \ {d}, !.at = d, !.rows = R]
           s == IF Existing(d) = {} THEN "create" ELSE "update"
<1>3. /\ IsMemory(m) /\ m.devs = mem[p].devs /\ m.todo = mem[p].todo \ {d} /\ m.at = d /\ m.rows = R
  BY <1>1 DEF IsMemory, Field
<1>4. mem' = [mem EXCEPT ![p] = m] /\ pc' = [pc EXCEPT ![p] = s]
  BY <1>2 DEF Goto
<1>5. s \in Label /\ s \in {"create", "update"}
  BY DEF Label
<1>6. DOMAIN R = Existing(d) /\ \A i \in Existing(d) : i \in DOMAIN devices /\ R[i] = devices[i]
  BY DEF Existing
<1> HIDE DEF m, s, R
<1>7. (\A e \in m.todo : Fetched(m, e)) /\ Fetched(m, m.at) /\ DOMAIN m.devs = UDev
  BY <1>1, <1>3 DEF Holding, Fetched
<1>8. Holding(s, m)
  BY <1>3, <1>5, <1>6, <1>7 DEF Holding
<1>9. \A q \in Importer \ {p} : pc[q] = "update" => DOMAIN mem[q].rows \cap DOMAIN m.rows = {}
  BY <1>2, <1>3, <1>6 DEF Unlocked
<1> QED BY <1>1, <1>3, <1>4, <1>5, <1>8, <1>9, QuietInv DEF LookUpDevice

(* A row after an update, as far as its type goes.                         *)
LEMMA AbandonType ==
  ASSUME NEW seen \in Day \cup {Null}, NEW row, row.abandon \in Day \cup {Null}, NEW t
  PROVE  AbandonFrom(row, t, seen) \in Day \cup {Null}
BY DEF AbandonFrom

LEMMA UpdatedType ==
  ASSUME NEW row \in DeviceRow, NEW u \in UISPDevice, u.nn \in NN
  PROVE  Updated(row, u) \in DeviceRow /\ Updated(row, u).uisp = row.uisp
<1> DEFINE t == StatusFrom(row.status, u.active, u.seen)
<1>1. row.status \in DeviceStatus /\ row.abandon \in Day \cup {Null} /\ u.active \in BOOLEAN
      /\ u.seen \in Day \cup {Null}
  BY DEF DeviceRow, UISPDevice
<1>2. t \in DeviceStatus /\ AbandonFrom(row, t, u.seen) \in Day \cup {Null}
  <2>1. t \in DeviceStatus
    BY <1>1 DEF DeviceStatus, StatusFrom
  <2> HIDE DEF t
  <2>2. AbandonFrom(row, t, u.seen) \in Day \cup {Null}
    BY <1>1, AbandonType
  <2> QED BY <2>1, <2>2
<1> HIDE DEF t
<1>3. Updated(row, u) = [row EXCEPT !.nn = u.nn, !.status = t, !.abandon = AbandonFrom(row, t, u.seen)]
  BY DEF Updated, t
<1>4. [row EXCEPT !.nn = u.nn, !.status = t, !.abandon = AbandonFrom(row, t, u.seen)] \in DeviceRow
      /\ [row EXCEPT !.nn = u.nn, !.status = t, !.abandon = AbandonFrom(row, t, u.seen)].uisp = row.uisp
  BY <1>2 DEF DeviceRow
<1> QED BY <1>3, <1>4

LEMMA UpdateDeviceInv == ASSUME Inv, NEW p \in Importer, UpdateDevice(p) PROVE Inv'
<1>0. PICK m : m = mem[p]
  OBVIOUS
<1> DEFINE u == m.devs[m.at]
<1>1. /\ IsMemory(m) /\ Holding("update", m) /\ mem = [mem EXCEPT ![p] = m] /\ pc[p] = "update"
      /\ devices \in Seq(DeviceRow) /\ reports \in [DOMAIN devices -> Nat]
      /\ links \in Seq(LinkRow) /\ los \in Seq(LosRow)
      /\ \A i \in DOMAIN links : Joins(devices, links[i].ends, links[i].uisp)
      /\ runs \in 0 .. MaxRuns /\ overlap \in BOOLEAN /\ died \in BOOLEAN /\ steady \in [Importer -> BOOLEAN]
  BY <1>0, Remembered DEF UpdateDevice
<1>2. /\ devices' = [i \in DOMAIN devices |-> IF i \in DOMAIN m.rows THEN Updated(m.rows[i], u) ELSE devices[i]]
      /\ reports' = Reported(p) /\ pc' = [pc EXCEPT ![p] = "devices"] /\ mem' = mem
      /\ UNCHANGED <<uisp, links, los, changes, runs, overlap, died, steady>>
  BY <1>0 DEF UpdateDevice, Goto
<1>3. u \in UISPDevice /\ u.nn \in NN /\ \A i \in DOMAIN m.rows : i \in DOMAIN devices /\ m.rows[i] = devices[i]
  BY <1>1 DEF Holding, Fetched
<1> HIDE DEF u
<1>4. \A i \in DOMAIN devices : devices[i] \in DeviceRow
  BY <1>1
<1>5. \A i \in DOMAIN devices : devices'[i] \in DeviceRow /\ devices'[i].uisp = devices[i].uisp
  BY <1>2, <1>3, <1>4, UpdatedType
<1>6. devices' \in Seq(DeviceRow) /\ DOMAIN devices' = DOMAIN devices
  <2>1. devices' = [i \in DOMAIN devices |-> devices'[i]]
    BY <1>2
  <2> QED BY <1>1, <1>5, <2>1, Replaced
<1>7. reports' \in [DOMAIN devices' -> Nat]
  BY <1>0, <1>1, <1>2, <1>6 DEF Reported
<1>8. \A q \in Importer \ {p} : pc[q] = "update" => \A i \in DOMAIN mem[q].rows : devices'[i] = devices[i]
  <2> SUFFICES ASSUME NEW q \in Importer \ {p}, pc[q] = "update", NEW i \in DOMAIN mem[q].rows
               PROVE  devices'[i] = devices[i]
    OBVIOUS
  <2>1. i \in DOMAIN devices
    BY DEF Inv, Holding
  <2>2. i \notin DOMAIN m.rows
    BY <1>0, <1>1 DEF Inv, LocksApart
  <2> QED BY <1>2, <2>1, <2>2
<1>9. Holding("devices", m)'
  BY <1>1 DEF Holding, Fetched
<1>10. mem' = [mem EXCEPT ![p] = m]
  BY <1>1, <1>2
<1> QED BY <1>1, <1>2, <1>5, <1>6, <1>7, <1>8, <1>9, <1>10, StepInv DEF Label

LEMMA CreateDeviceInv == ASSUME Inv, NEW p \in Importer, CreateDevice(p) PROVE Inv'
<1>0. PICK m : m = mem[p]
  OBVIOUS
<1> DEFINE u == m.devs[m.at]
           e == [uisp |-> m.at, nn |-> u.nn, status |-> IF u.active THEN "Active" ELSE "Inactive",
                 abandon |-> IF u.active THEN Null ELSE u.seen]
<1>1. /\ IsMemory(m) /\ Holding("create", m) /\ mem = [mem EXCEPT ![p] = m] /\ pc[p] = "create"
      /\ devices \in Seq(DeviceRow) /\ reports \in [DOMAIN devices -> Nat]
      /\ links \in Seq(LinkRow) /\ los \in Seq(LosRow)
      /\ \A i \in DOMAIN links : Joins(devices, links[i].ends, links[i].uisp)
      /\ runs \in 0 .. MaxRuns /\ overlap \in BOOLEAN /\ died \in BOOLEAN /\ steady \in [Importer -> BOOLEAN]
  BY <1>0, Remembered DEF CreateDevice
<1>2. /\ devices' = Append(devices, e)
      /\ reports' = Append(reports, 0) /\ pc' = [pc EXCEPT ![p] = "devices"] /\ mem' = mem
      /\ UNCHANGED <<uisp, links, los, changes, runs, overlap, died, steady>>
  BY <1>0 DEF CreateDevice, Goto
<1>3. m.at \in UDev /\ u \in UISPDevice /\ u.nn \in NN
  BY <1>1 DEF Holding, Fetched
<1>4. e \in DeviceRow
  BY <1>3 DEF UISPDevice, DeviceRow, DeviceStatus
<1> HIDE DEF e
<1>5. /\ devices' \in Seq(DeviceRow) /\ DOMAIN devices' = DOMAIN devices \cup {Len(devices) + 1}
      /\ \A i \in DOMAIN devices : devices'[i] = devices[i]
  BY <1>1, <1>2, <1>4, Appended
<1>6. reports' \in [DOMAIN devices' -> Nat]
  <2>1. reports \in Seq(Nat) /\ Len(reports) = Len(devices)
    BY <1>1
  <2>2. reports' \in Seq(Nat) /\ DOMAIN reports' = DOMAIN devices'
    BY <1>2, <1>5, <2>1, Appended
  <2> QED BY <2>2
<1>7. \A q \in Importer \ {p} : pc[q] = "update" => \A i \in DOMAIN mem[q].rows : devices'[i] = devices[i]
  BY <1>5 DEF Inv, Holding
<1>8. Holding("devices", m)'
  BY <1>1 DEF Holding, Fetched
<1>9. mem' = [mem EXCEPT ![p] = m]
  BY <1>1, <1>2
<1>10. \A i \in DOMAIN devices : i \in DOMAIN devices' /\ devices'[i].uisp = devices[i].uisp
  BY <1>5
<1> QED BY <1>1, <1>2, <1>5, <1>6, <1>7, <1>8, <1>9, <1>10, StepInv DEF Label

LEMMA SweepDevicesInv == ASSUME Inv, NEW p \in Importer, SweepDevices(p) PROVE Inv'
<1> DEFINE R == [i \in Lost(p) |-> devices[i]]
           m == [mem[p] EXCEPT !.rows = R]
<1>1. IsMemory(mem[p]) /\ runs \in 0 .. MaxRuns /\ devices \in Seq(DeviceRow)
      /\ overlap \in BOOLEAN /\ died \in BOOLEAN /\ reports \in [DOMAIN devices -> Nat]
      /\ steady \in [Importer -> BOOLEAN]
  BY Remembered
<1>2. IsMemory(m) /\ m.rows = R
  BY <1>1 DEF IsMemory, Field
<1>3. mem' = [mem EXCEPT ![p] = m] /\ pc' = [pc EXCEPT ![p] = "sweep"]
      /\ UNCHANGED <<uisp, meshdb, changes, runs, reports, overlap, died, steady>>
  BY DEF SweepDevices, Goto
<1>4. \A i \in DOMAIN R : i \in DOMAIN devices /\ R[i] = devices[i]
  BY DEF Lost
<1> HIDE DEF m, R
<1>5. Holding("sweep", m)
  BY <1>1, <1>2, <1>4 DEF Holding
<1> QED BY <1>1, <1>2, <1>3, <1>5, QuietInv DEF Label

LEMMA SaveLostDevicesInv == ASSUME Inv, NEW p \in Importer, SaveLostDevices(p) PROVE Inv'
<1>0. PICK m : m = mem[p]
  OBVIOUS
<1> DEFINE n == [NoMemory EXCEPT !.devs = m.devs]
<1>1. /\ Holding("sweep", m)
      /\ devices \in Seq(DeviceRow) /\ reports \in [DOMAIN devices -> Nat]
      /\ links \in Seq(LinkRow) /\ los \in Seq(LosRow)
      /\ \A i \in DOMAIN links : Joins(devices, links[i].ends, links[i].uisp)
      /\ runs \in 0 .. MaxRuns /\ overlap \in BOOLEAN /\ died \in BOOLEAN /\ steady \in [Importer -> BOOLEAN]
  BY <1>0, Remembered DEF SaveLostDevices
<1>2. /\ devices' = [i \in DOMAIN devices |-> IF i \in DOMAIN m.rows THEN [m.rows[i] EXCEPT !.status = "Inactive"]
                                              ELSE devices[i]]
      /\ pc' = [pc EXCEPT ![p] = "fetch"] /\ mem' = [mem EXCEPT ![p] = n]
      /\ UNCHANGED <<uisp, links, los, changes, runs, reports, overlap, died, steady>>
  BY <1>0 DEF SaveLostDevices, Goto
<1>3. \A i \in DOMAIN m.rows : i \in DOMAIN devices /\ m.rows[i] \in DeviceRow /\ m.rows[i].uisp = devices[i].uisp
  BY <1>1 DEF Holding
<1>4. \A row \in DeviceRow : [row EXCEPT !.status = "Inactive"] \in DeviceRow
                             /\ [row EXCEPT !.status = "Inactive"].uisp = row.uisp
  BY DEF DeviceRow, DeviceStatus
<1>5. \A i \in DOMAIN devices : devices[i] \in DeviceRow
  BY <1>1
<1>6. \A i \in DOMAIN devices : devices'[i] \in DeviceRow /\ devices'[i].uisp = devices[i].uisp
  BY <1>2, <1>3, <1>4, <1>5
<1>7. devices' \in Seq(DeviceRow) /\ DOMAIN devices' = DOMAIN devices
  <2>1. devices' = [i \in DOMAIN devices |-> devices'[i]]
    BY <1>2
  <2> QED BY <1>1, <1>6, <2>1, Replaced
<1>8. \A q \in Importer \ {p} : pc[q] = "update" => \A i \in DOMAIN mem[q].rows : devices'[i] = devices[i]
  <2> SUFFICES ASSUME NEW q \in Importer \ {p}, pc[q] = "update", NEW i \in DOMAIN mem[q].rows
               PROVE  devices'[i] = devices[i]
    OBVIOUS
  <2>1. i \in DOMAIN devices
    BY DEF Inv, Holding
  <2>2. i \notin DOMAIN m.rows
    BY <1>0 DEF SaveLostDevices, Unlocked
  <2> QED BY <1>2, <2>1, <2>2
<1>9. IsMemory(n)
  BY DEF IsMemory, NoMemory, Field
<1>10. Holding("fetch", n)'
  BY DEF Holding
<1>11. \A i \in DOMAIN devices : i \in DOMAIN devices' /\ devices'[i].uisp = devices[i].uisp
  BY <1>6, <1>7
<1> HIDE DEF n
<1> QED BY <1>1, <1>2, <1>7, <1>8, <1>9, <1>10, <1>11, StepInv DEF Label

LEMMA FetchLinksInv == ASSUME Inv, NEW p \in Importer, FetchLinks(p) PROVE Inv'
<1> DEFINE L == {l \in ULink : ulink[l] # "absent"}
           U == {l \in ULink : ulink[l] = "active"}
           m == [mem[p] EXCEPT !.ls = L, !.todo = L, !.up = U]
<1>1. IsMemory(mem[p]) /\ runs \in 0 .. MaxRuns
      /\ overlap \in BOOLEAN /\ died \in BOOLEAN /\ reports \in [DOMAIN devices -> Nat]
      /\ steady \in [Importer -> BOOLEAN]
  BY Remembered
<1>2. IsMemory(m) /\ m.todo = L
  BY <1>1 DEF IsMemory, Field
<1>3. mem' = [mem EXCEPT ![p] = m] /\ pc' = [pc EXCEPT ![p] = "links"]
      /\ UNCHANGED <<uisp, meshdb, changes, runs, reports, overlap, died, steady>>
  BY DEF FetchLinks, Goto
<1> HIDE DEF m
<1>4. Holding("links", m)
  BY <1>2 DEF Holding
<1> QED BY <1>1, <1>2, <1>3, <1>4, QuietInv DEF Label

(* The device that get() returns.                                          *)
LEMMA TheOne ==
  ASSUME NEW A, Cardinality(A) = 1
  PROVE  (CHOOSE i \in A : TRUE) \in A
<1>1. Cardinality({}) = 0
  BY FS_EmptySet
<1> QED BY <1>1

LEMMA FindEndsInv == ASSUME Inv, NEW p \in Importer, FindEnds(p) PROVE Inv'
<1>1. IsMemory(mem[p]) /\ Holding("links", mem[p]) /\ pc[p] = "links" /\ runs \in 0 .. MaxRuns
      /\ overlap \in BOOLEAN /\ died \in BOOLEAN /\ reports \in [DOMAIN devices -> Nat]
      /\ steady \in [Importer -> BOOLEAN] /\ pc = [pc EXCEPT ![p] = "links"]
      /\ devices \in Seq(DeviceRow)
  BY Remembered DEF FindEnds, Inv, TablesOK
<1> DEFINE A(l) == Existing(Ends[l][1])
           B(l) == Existing(Ends[l][2])
           a(l) == CHOOSE i \in A(l) : TRUE
           b(l) == CHOOSE i \in B(l) : TRUE
<1>2. UNCHANGED <<uisp, meshdb, changes, runs, reports, overlap, steady>>
  BY DEF FindEnds
<1>3. PICK l \in mem[p].todo :
        \/ /\ mem' = [mem EXCEPT ![p].todo = @ \ {l}]
           /\ UNCHANGED <<pc, died>>
        \/ /\ mem' = [mem EXCEPT ![p] = NoMemory]
           /\ died' = TRUE
           /\ Goto(p, "idle")
        \/ /\ Cardinality(A(l)) = 1 /\ Cardinality(B(l)) = 1
           /\ mem' = [mem EXCEPT ![p].todo = @ \ {l}, ![p].at = l, ![p].ends = <<a(l), b(l)>>]
           /\ Goto(p, "findLink")
           /\ UNCHANGED died
  BY DEF FindEnds
<1>4. ASSUME mem' = [mem EXCEPT ![p].todo = @ \ {l}], UNCHANGED <<pc, died>>
      PROVE  Inv'
  <2> DEFINE m == [mem[p] EXCEPT !.todo = @ \ {l}]
  <2>1. IsMemory(m) /\ m.todo = mem[p].todo \ {l}
    BY <1>1 DEF IsMemory, Field
  <2>2. mem' = [mem EXCEPT ![p] = m] /\ pc' = [pc EXCEPT ![p] = "links"]
    BY <1>1, <1>4
  <2> HIDE DEF m
  <2>3. Holding("links", m)
    BY <1>1, <2>1 DEF Holding
  <2> QED BY <1>1, <1>2, <1>4, <2>1, <2>2, <2>3, QuietInv DEF Label
<1>5. ASSUME mem' = [mem EXCEPT ![p] = NoMemory], died' = TRUE, Goto(p, "idle")
      PROVE  Inv'
  <2>1. IsMemory(NoMemory) /\ Holding("idle", NoMemory)
    BY Idle
  <2>2. pc' = [pc EXCEPT ![p] = "idle"]
    BY <1>5 DEF Goto
  <2> QED BY <1>1, <1>2, <1>5, <2>1, <2>2, QuietInv DEF Label
<1>6. ASSUME Cardinality(A(l)) = 1, Cardinality(B(l)) = 1,
             mem' = [mem EXCEPT ![p].todo = @ \ {l}, ![p].at = l, ![p].ends = <<a(l), b(l)>>],
             Goto(p, "findLink"), UNCHANGED died
      PROVE  Inv'
  <2>1. a(l) \in A(l) /\ b(l) \in B(l)
    BY <1>6, TheOne
  <2>2. l \in ULink
    <3>1. mem[p].todo \subseteq ULink
      BY <1>1 DEF Holding
    <3> QED BY <3>1
  <2>3. <<a(l), b(l)>> \in Nat \X Nat /\ Joins(devices, <<a(l), b(l)>>, l)
    <3> HIDE DEF a, b
    <3>1. {a(l), b(l)} \subseteq DOMAIN devices /\ devices[a(l)].uisp = Ends[l][1] /\ devices[b(l)].uisp = Ends[l][2]
      BY <2>1 DEF Existing
    <3>2. DOMAIN devices \subseteq Nat
      BY <1>1
    <3> QED BY <3>1, <3>2 DEF Joins
  <2>4. PICK e : e = <<a(l), b(l)>>
    OBVIOUS
  <2> HIDE DEF a, b
  <2> DEFINE m == [mem[p] EXCEPT !.todo = @ \ {l}, !.at = l, !.ends = e]
  <2>5. mem' = [mem EXCEPT ![p] = m] /\ pc' = [pc EXCEPT ![p] = "findLink"]
    BY <1>6, <2>4 DEF Goto
  <2>6. IsMemory(m) /\ m.todo = mem[p].todo \ {l} /\ m.at = l /\ m.ends = e
    BY <1>1 DEF IsMemory, Field
  <2> HIDE DEF m
  <2>7. Holding("findLink", m)
    BY <1>1, <2>2, <2>3, <2>4, <2>6 DEF Holding
  <2>8. died' \in BOOLEAN /\ runs' \in 0 .. MaxRuns /\ overlap' \in BOOLEAN
        /\ steady' \in [Importer -> BOOLEAN] /\ reports' \in [DOMAIN devices -> Nat]
    BY <1>1, <1>2, <1>6
  <2> QED BY <1>2, <2>5, <2>6, <2>7, <2>8, QuietInv DEF Label
<1> QED BY <1>3, <1>4, <1>5, <1>6

LEMMA LookUpLinkInv == ASSUME Inv, NEW p \in Importer, LookUpLink(p) PROVE Inv'
<1>1. IsMemory(mem[p]) /\ Holding("findLink", mem[p]) /\ runs \in 0 .. MaxRuns
      /\ overlap \in BOOLEAN /\ died \in BOOLEAN /\ reports \in [DOMAIN devices -> Nat]
      /\ steady \in [Importer -> BOOLEAN]
  BY Remembered DEF LookUpLink
<1>2. UNCHANGED <<uisp, meshdb, changes, runs, reports, overlap, died, steady>>
  BY DEF LookUpLink
<1>3. PICK F : F = Matching(p, mem[p].at, mem[p].ends[1], mem[p].ends[2])
  OBVIOUS
<1>4. /\ \A q \in Importer \ {p} : pc[q] = "updateLink" => DOMAIN mem[q].rows \cap F = {}
      /\ mem' = [mem EXCEPT ![p].rows = [i \in F |-> links[i]]]
      /\ Goto(p, IF F = {} THEN "createLink" ELSE "updateLink")
  BY <1>3 DEF LookUpLink, Unlocked
<1> DEFINE R == [i \in F |-> links[i]]
           m == [mem[p] EXCEPT !.rows = R]
           s == IF F = {} THEN "createLink" ELSE "updateLink"
<1>5. mem' = [mem EXCEPT ![p] = m] /\ pc' = [pc EXCEPT ![p] = s]
  BY <1>4 DEF Goto
<1>6. s \in Label /\ s \in {"createLink", "updateLink"}
  BY DEF Label
<1>7. F \subseteq DOMAIN links
  BY <1>3 DEF Matching, Orphans
<1>8. IsMemory(m) /\ m.todo = mem[p].todo /\ m.at = mem[p].at /\ m.ends = mem[p].ends /\ m.rows = R
  BY <1>1 DEF IsMemory, Field
<1> HIDE DEF m, s
<1>9. Holding(s, m)
  BY <1>1, <1>6, <1>7, <1>8 DEF Holding
<1>10. s \in {"update", "updateLink"} => \A q \in Importer \ {p} :
         pc[q] = s => DOMAIN mem[q].rows \cap DOMAIN m.rows = {}
  BY <1>4, <1>6, <1>8
<1> QED BY <1>1, <1>2, <1>5, <1>6, <1>8, <1>9, <1>10, QuietInv

LEMMA LinkSeenType ==
  ASSUME Inv, NEW l \in ULink, udev[Ends[l][1]] # Null, udev[Ends[l][2]] # Null
  PROVE  LinkSeen(l) \in Day \cup {Null}
<1>1. \A d \in UDev : udev[d] # Null => Seen(d) \in Day \cup {Null}
  BY DEF Inv, TablesOK, UISPDevice, Seen
<1>2. Ends[l][1] \in UDev /\ Ends[l][2] \in UDev
  BY ImportAssumption
<1> DEFINE x == Seen(Ends[l][1])
           y == Seen(Ends[l][2])
           D == {x, y} \ {Null}
<1>3. D \subseteq Day
  BY <1>1, <1>2
<1>4. D # {} => \E day \in D : \A other \in D : day <= other
  <2> HIDE DEF x, y
  <2> QED BY <1>3 DEF Day
<1> HIDE DEF D
<1>5. D # {} => (CHOOSE day \in D : \A other \in D : day <= other) \in D
  BY <1>4
<1>6. LinkSeen(l) = IF D = {} THEN Null ELSE CHOOSE day \in D : \A other \in D : day <= other
  BY DEF LinkSeen, D
<1> QED BY <1>3, <1>5, <1>6

LEMMA UpdatedLinkType ==
  ASSUME NEW row, IsLink(row), NEW l \in ULink, NEW ends \in Nat \X Nat, Joins(devices, ends, l),
         NEW active \in BOOLEAN, NEW seen \in Day \cup {Null}
  PROVE  IsLink(UpdatedLink(row, l, ends, active, seen))
<1> DEFINE t == StatusFrom(row.status, active, seen)
           e == IF row.ends \in {ends, <<ends[2], ends[1]>>} THEN row.ends ELSE ends
<1>1. row.status \in LinkStatus /\ row.abandon \in Day \cup {Null} /\ row.ends \in Nat \X Nat
  BY DEF LinkRow, IsLink
<1>2. t \in LinkStatus
  BY <1>1 DEF StatusFrom, LinkStatus
<1>3. e \in Nat \X Nat /\ Joins(devices, e, l)
  BY <1>1 DEF Joins
<1>4. UpdatedLink(row, l, ends, active, seen)
        = [uisp |-> l, status |-> t, abandon |-> AbandonFrom(row, t, seen), ends |-> e]
  BY DEF UpdatedLink
<1> HIDE DEF t, e
<1>5. AbandonFrom(row, t, seen) \in Day \cup {Null}
  BY <1>1, AbandonType
<1> QED BY <1>2, <1>3, <1>4, <1>5 DEF IsLink, LinkRow

LEMMA UpdateLinkInv == ASSUME Inv, NEW p \in Importer, UpdateLink(p) PROVE Inv'
<1>0. PICK m : m = mem[p]
  OBVIOUS
<1> DEFINE new(i) == UpdatedLink(m.rows[i], m.at, m.ends, m.at \in m.up, LinkSeen(m.at))
<1>1. /\ IsMemory(m) /\ Holding("updateLink", m) /\ mem = [mem EXCEPT ![p] = m] /\ pc[p] = "updateLink"
      /\ devices \in Seq(DeviceRow) /\ reports \in [DOMAIN devices -> Nat]
      /\ links \in Seq(LinkRow) /\ los \in Seq(LosRow)
      /\ \A i \in DOMAIN links : Joins(devices, links[i].ends, links[i].uisp)
      /\ runs \in 0 .. MaxRuns /\ overlap \in BOOLEAN /\ died \in BOOLEAN /\ steady \in [Importer -> BOOLEAN]
  BY <1>0, Remembered DEF UpdateLink
<1>2. /\ links' = [i \in DOMAIN links |-> IF i \in DOMAIN m.rows THEN new(i) ELSE links[i]]
      /\ udev[Ends[m.at][1]] # Null /\ udev[Ends[m.at][2]] # Null
      /\ pc' = [pc EXCEPT ![p] = "links"] /\ mem' = mem
      /\ UNCHANGED <<uisp, devices, los, changes, runs, reports, overlap, died, steady>>
  BY <1>0 DEF UpdateLink, Goto
<1>3. m.at \in ULink /\ m.ends \in Nat \X Nat /\ Joins(devices, m.ends, m.at)
      /\ \A i \in DOMAIN m.rows : i \in DOMAIN links /\ m.rows[i] = links[i]
  BY <1>1 DEF Holding
<1>4. \A i \in DOMAIN links : IsLink(links[i])
  BY DEF Inv
<1>5. LinkSeen(m.at) \in Day \cup {Null}
  BY <1>2, <1>3, LinkSeenType
<1>6. \A i \in DOMAIN m.rows : IsLink(new(i))
  <2> SUFFICES ASSUME NEW i \in DOMAIN m.rows PROVE IsLink(new(i))
    OBVIOUS
  <2>1. IsLink(m.rows[i]) /\ (m.at \in m.up) \in BOOLEAN
    BY <1>3, <1>4
  <2> QED BY <1>3, <1>5, <2>1, UpdatedLinkType
<1> HIDE DEF new
<1>7. \A i \in DOMAIN links : IsLink(links'[i])
  BY <1>2, <1>4, <1>6
<1>8. links' \in Seq(LinkRow) /\ DOMAIN links' = DOMAIN links
  <2>1. links' = [i \in DOMAIN links |-> links'[i]]
    BY <1>2
  <2>2. \A i \in DOMAIN links : links'[i] \in LinkRow
    BY <1>7 DEF IsLink
  <2> QED BY <1>1, <2>1, <2>2, Replaced
<1>9. \A i \in DOMAIN links' : Joins(devices, links'[i].ends, links'[i].uisp)
  BY <1>7, <1>8 DEF IsLink
<1>10. \A q \in Importer \ {p} : pc[q] = "updateLink" => \A i \in DOMAIN mem[q].rows : links'[i] = links[i]
  <2> SUFFICES ASSUME NEW q \in Importer \ {p}, pc[q] = "updateLink", NEW i \in DOMAIN mem[q].rows
               PROVE  links'[i] = links[i]
    OBVIOUS
  <2>1. i \in DOMAIN links
    BY DEF Inv, Holding
  <2>2. i \notin DOMAIN m.rows
    BY <1>0, <1>1 DEF Inv, LocksApart
  <2> QED BY <1>2, <2>1, <2>2
<1>11. Holding("links", m)'
  BY <1>1 DEF Holding
<1>12. mem' = [mem EXCEPT ![p] = m]
  BY <1>1, <1>2
<1> QED BY <1>1, <1>2, <1>8, <1>9, <1>10, <1>11, <1>12, StepInv DEF Label

LEMMA CreateLinkInv == ASSUME Inv, NEW p \in Importer, CreateLink(p) PROVE Inv'
<1>0. PICK m : m = mem[p]
  OBVIOUS
<1> DEFINE e == [uisp |-> m.at, ends |-> m.ends, abandon |-> Null,
                 status |-> IF m.at \in m.up THEN "Active" ELSE "Inactive"]
<1>1. /\ IsMemory(m) /\ Holding("createLink", m) /\ mem = [mem EXCEPT ![p] = m] /\ pc[p] = "createLink"
      /\ devices \in Seq(DeviceRow) /\ reports \in [DOMAIN devices -> Nat]
      /\ links \in Seq(LinkRow) /\ los \in Seq(LosRow)
      /\ \A i \in DOMAIN links : Joins(devices, links[i].ends, links[i].uisp)
      /\ runs \in 0 .. MaxRuns /\ overlap \in BOOLEAN /\ died \in BOOLEAN /\ steady \in [Importer -> BOOLEAN]
  BY <1>0, Remembered DEF CreateLink
<1>2. /\ links' = Append(links, e)
      /\ pc' = [pc EXCEPT ![p] = "links"] /\ mem' = mem
      /\ UNCHANGED <<uisp, devices, los, changes, runs, reports, overlap, died, steady>>
  BY <1>0 DEF CreateLink, Goto
<1>3. m.at \in ULink /\ m.ends \in Nat \X Nat /\ Joins(devices, m.ends, m.at)
  BY <1>1 DEF Holding
<1>4. e \in LinkRow /\ e.ends = m.ends /\ e.uisp = m.at
  BY <1>3 DEF LinkRow, LinkStatus
<1> HIDE DEF e
<1>5. /\ links' \in Seq(LinkRow) /\ DOMAIN links' = DOMAIN links \cup {Len(links) + 1}
      /\ \A i \in DOMAIN links : links'[i] = links[i]
      /\ links'[Len(links) + 1] = e
  BY <1>1, <1>2, <1>4, Appended
<1>6. \A i \in DOMAIN links' : Joins(devices, links'[i].ends, links'[i].uisp)
  BY <1>1, <1>3, <1>4, <1>5
<1>7. \A q \in Importer \ {p} : pc[q] = "updateLink" => \A i \in DOMAIN mem[q].rows : links'[i] = links[i]
  BY <1>5 DEF Inv, Holding
<1>8. Holding("links", m)'
  BY <1>1 DEF Holding
<1>9. mem' = [mem EXCEPT ![p] = m]
  BY <1>1, <1>2
<1> QED BY <1>1, <1>2, <1>5, <1>6, <1>7, <1>8, <1>9, StepInv DEF Label

LEMMA SweepLinksInv == ASSUME Inv, NEW p \in Importer, SweepLinks(p) PROVE Inv'
<1> DEFINE R == [i \in LostLinks(p) |-> links[i]]
           m == [mem[p] EXCEPT !.rows = R]
<1>1. IsMemory(mem[p]) /\ runs \in 0 .. MaxRuns
      /\ overlap \in BOOLEAN /\ died \in BOOLEAN /\ reports \in [DOMAIN devices -> Nat]
      /\ steady \in [Importer -> BOOLEAN]
  BY Remembered
<1>2. IsMemory(m) /\ m.rows = R
  BY <1>1 DEF IsMemory, Field
<1>3. mem' = [mem EXCEPT ![p] = m] /\ pc' = [pc EXCEPT ![p] = "sweepLinks"]
      /\ UNCHANGED <<uisp, meshdb, changes, runs, reports, overlap, died, steady>>
  BY DEF SweepLinks, Goto
<1>4. \A i \in DOMAIN R : i \in DOMAIN links /\ R[i] = links[i]
  BY DEF LostLinks
<1>5. \A i \in DOMAIN links : IsLink(links[i])
  BY DEF Inv
<1> HIDE DEF m, R
<1>6. Holding("sweepLinks", m)
  BY <1>2, <1>4, <1>5 DEF Holding
<1> QED BY <1>1, <1>2, <1>3, <1>6, QuietInv DEF Label

LEMMA SaveLostLinksInv == ASSUME Inv, NEW p \in Importer, SaveLostLinks(p) PROVE Inv'
<1>0. PICK m : m = mem[p]
  OBVIOUS
<1>1. /\ IsMemory(m) /\ Holding("sweepLinks", m) /\ mem = [mem EXCEPT ![p] = m]
      /\ devices \in Seq(DeviceRow) /\ reports \in [DOMAIN devices -> Nat]
      /\ links \in Seq(LinkRow) /\ los \in Seq(LosRow)
      /\ runs \in 0 .. MaxRuns /\ overlap \in BOOLEAN /\ died \in BOOLEAN /\ steady \in [Importer -> BOOLEAN]
  BY <1>0, Remembered DEF SaveLostLinks
<1>2. /\ links' = [i \in DOMAIN links |-> IF i \in DOMAIN m.rows THEN [m.rows[i] EXCEPT !.status = "Inactive"]
                                          ELSE links[i]]
      /\ pc' = [pc EXCEPT ![p] = "sights"] /\ mem' = mem
      /\ UNCHANGED <<uisp, devices, los, changes, runs, reports, overlap, died, steady>>
  BY <1>0 DEF SaveLostLinks, Goto
<1>3. \A i \in DOMAIN m.rows : i \in DOMAIN links /\ IsLink(m.rows[i])
  BY <1>1 DEF Holding
<1>4. \A row : IsLink(row) => IsLink([row EXCEPT !.status = "Inactive"])
  BY DEF IsLink, LinkRow, LinkStatus
<1>5. \A i \in DOMAIN links : IsLink(links[i])
  BY DEF Inv
<1>6. \A i \in DOMAIN links : IsLink(links'[i])
  BY <1>2, <1>3, <1>4, <1>5
<1>7. links' \in Seq(LinkRow) /\ DOMAIN links' = DOMAIN links
  <2>1. links' = [i \in DOMAIN links |-> links'[i]]
    BY <1>2
  <2>2. \A i \in DOMAIN links : links'[i] \in LinkRow
    BY <1>6 DEF IsLink
  <2> QED BY <1>1, <2>1, <2>2, Replaced
<1>8. \A i \in DOMAIN links' : Joins(devices, links'[i].ends, links'[i].uisp)
  BY <1>6, <1>7 DEF IsLink
<1>9. \A q \in Importer \ {p} : pc[q] = "updateLink" => \A i \in DOMAIN mem[q].rows : links'[i] = links[i]
  <2> SUFFICES ASSUME NEW q \in Importer \ {p}, pc[q] = "updateLink", NEW i \in DOMAIN mem[q].rows
               PROVE  links'[i] = links[i]
    OBVIOUS
  <2>1. i \in DOMAIN links
    BY DEF Inv, Holding
  <2>2. i \notin DOMAIN m.rows
    BY <1>0 DEF SaveLostLinks, Unlocked
  <2> QED BY <1>2, <2>1, <2>2
<1>10. Holding("sights", m)'
  BY DEF Holding
<1>11. mem' = [mem EXCEPT ![p] = m]
  BY <1>1, <1>2
<1> QED BY <1>1, <1>2, <1>7, <1>8, <1>9, <1>10, <1>11, StepInv DEF Label

LEMMA ReadLinksInv == ASSUME Inv, NEW p \in Importer, ReadLinks(p) PROVE Inv'
<1> DEFINE m == [NoMemory EXCEPT !.rows = links, !.todo = DOMAIN links]
<1>1. runs \in 0 .. MaxRuns
      /\ overlap \in BOOLEAN /\ died \in BOOLEAN /\ reports \in [DOMAIN devices -> Nat]
      /\ steady \in [Importer -> BOOLEAN]
  BY Remembered
<1>2. IsMemory(m) /\ m.rows = links /\ m.todo = DOMAIN links
  BY Idle DEF IsMemory, Field
<1>3. mem' = [mem EXCEPT ![p] = m] /\ pc' = [pc EXCEPT ![p] = "los"]
      /\ UNCHANGED <<uisp, meshdb, changes, runs, reports, overlap, died, steady>>
  BY DEF ReadLinks, Goto
<1>4. \A i \in DOMAIN links : IsLink(links[i])
  BY DEF Inv
<1> HIDE DEF m
<1>5. Holding("los", m)
  BY <1>2, <1>4 DEF Holding
<1> QED BY <1>1, <1>2, <1>3, <1>5, QuietInv DEF Label

LEMMA ResightedType ==
  ASSUME NEW row \in LosRow, NEW link, IsLink(link), today \in Day
  PROVE  Resighted(row, link) \in LosRow /\ Resighted(row, link).pair = row.pair
<1>1. FunctioningDate(link) \in Day \cup {Null}
  BY DEF FunctioningDate, IsLink, LinkRow
<1> DEFINE f == FunctioningDate(link)
           s == IF link.status = "Active" THEN "Existing Link" ELSE row.source
           d == IF s = "Existing Link" /\ f # Null THEN f ELSE row.date
<1>2. Resighted(row, link) = [row EXCEPT !.source = s, !.date = d]
  BY DEF Resighted
<1>3. row.source \in {"Human Annotated", "Existing Link"} /\ row.date \in Day \cup {Null}
  BY DEF LosRow
<1> HIDE DEF f
<1>4. s \in {"Human Annotated", "Existing Link"} /\ d \in Day \cup {Null}
  BY <1>1, <1>3 DEF f
<1> HIDE DEF s, d
<1>5. [row EXCEPT !.source = s, !.date = d] \in LosRow /\ [row EXCEPT !.source = s, !.date = d].pair = row.pair
  BY <1>4 DEF LosRow
<1> QED BY <1>2, <1>5

LEMMA PairType ==
  ASSUME Inv, NEW link, IsLink(link)
  PROVE  Pair(link) \in Pairs
<1>1. devices \in Seq(DeviceRow) /\ {link.ends[1], link.ends[2]} \subseteq DOMAIN devices
  BY DEF Inv, TablesOK, IsLink, Joins
<1>2. devices[link.ends[1]] \in DeviceRow /\ devices[link.ends[2]] \in DeviceRow
  BY <1>1
<1>3. devices[link.ends[1]].nn \in NN /\ devices[link.ends[2]].nn \in NN
  BY <1>2 DEF DeviceRow
<1>4. Pair(link) = {BuildingOf[devices[link.ends[1]].nn], BuildingOf[devices[link.ends[2]].nn]}
  BY DEF Pair, NNs
<1> QED BY <1>3, <1>4 DEF Pairs

LEMMA SyncSightInv == ASSUME Inv, NEW p \in Importer, SyncSight(p) PROVE Inv'
<1>0. PICK r : r = mem[p]
  OBVIOUS
<1>1. /\ IsMemory(r) /\ Holding("los", r)
      /\ devices \in Seq(DeviceRow) /\ reports \in [DOMAIN devices -> Nat]
      /\ links \in Seq(LinkRow) /\ los \in Seq(LosRow) /\ today \in Day
      /\ \A i \in DOMAIN links : Joins(devices, links[i].ends, links[i].uisp)
      /\ runs \in 0 .. MaxRuns /\ overlap \in BOOLEAN /\ died \in BOOLEAN /\ steady \in [Importer -> BOOLEAN]
  BY <1>0, Remembered DEF SyncSight
<1>2. UNCHANGED <<uisp, devices, links, changes, runs, reports, overlap, died, steady>>
  BY DEF SyncSight
<1> DEFINE F(i) == IF Sighted(p, r.rows[i]) THEN Sights(Pair(r.rows[i])) ELSE {}
<1>3. PICK i \in r.todo :
        /\ los' = [k \in DOMAIN los |-> IF k \in F(i) THEN Resighted(los[k], r.rows[i]) ELSE los[k]]
        /\ mem' = [mem EXCEPT ![p].todo = @ \ {i}, ![p].at = i, ![p].pair = Pair(r.rows[i])]
        /\ Goto(p, IF Sighted(p, r.rows[i]) /\ F(i) = {} THEN "createLos" ELSE "los")
  BY <1>0 DEF SyncSight
<1>4. PICK found :
        /\ los' = [k \in DOMAIN los |-> IF k \in found THEN Resighted(los[k], r.rows[i]) ELSE los[k]]
        /\ mem' = [mem EXCEPT ![p].todo = @ \ {i}, ![p].at = i, ![p].pair = Pair(r.rows[i])]
        /\ Goto(p, IF Sighted(p, r.rows[i]) /\ found = {} THEN "createLos" ELSE "los")
  BY <1>3
<1>5. i \in DOMAIN r.rows /\ IsLink(r.rows[i])
  BY <1>1 DEF Holding
<1>6. \A k \in DOMAIN los : los'[k] \in LosRow
  <2>1. \A k \in DOMAIN los : los[k] \in LosRow
    BY <1>1
  <2> QED BY <1>1, <1>4, <1>5, <2>1, ResightedType
<1>7. los' \in Seq(LosRow)
  <2>1. los' = [k \in DOMAIN los |-> los'[k]]
    BY <1>4
  <2> QED BY <1>1, <1>6, <2>1, Replaced
<1>8. Pair(r.rows[i]) \in Pairs
  BY <1>5, PairType
<1>9. PICK b : b = Pair(r.rows[i])
  OBVIOUS
<1> DEFINE m == [r EXCEPT !.todo = @ \ {i}, !.at = i, !.pair = b]
           s == IF Sighted(p, r.rows[i]) /\ found = {} THEN "createLos" ELSE "los"
<1>10. PICK t : t = s /\ t \in {"createLos", "los"}
  OBVIOUS
<1>11. mem' = [mem EXCEPT ![p] = m] /\ pc' = [pc EXCEPT ![p] = t]
  BY <1>0, <1>4, <1>9, <1>10 DEF Goto
<1>12. IsMemory(m) /\ m.todo = r.todo \ {i} /\ m.at = i /\ m.pair = b /\ m.rows = r.rows
  BY <1>1 DEF IsMemory, Field
<1> HIDE DEF m, s
<1>13. Holding(t, m)'
  <2>1. \A j : IsLink(j)' <=> IsLink(j)
    BY <1>2 DEF IsLink
  <2>2. r.todo \subseteq DOMAIN r.rows /\ \A j \in DOMAIN r.rows : IsLink(r.rows[j])
    BY <1>1 DEF Holding
  <2> QED BY <1>5, <1>8, <1>9, <1>10, <1>12, <2>1, <2>2 DEF Holding
<1>14. t \in Label /\ t \notin {"update", "updateLink"}
  BY <1>10 DEF Label
<1> QED BY <1>1, <1>2, <1>7, <1>11, <1>12, <1>13, <1>14, StepInv

LEMMA CreateSightInv == ASSUME Inv, NEW p \in Importer, CreateSight(p) PROVE Inv'
<1>0. PICK m : m = mem[p]
  OBVIOUS
<1> DEFINE e == [pair |-> m.pair, source |-> "Existing Link", date |-> FunctioningDate(m.rows[m.at])]
<1>1. /\ IsMemory(m) /\ Holding("createLos", m) /\ mem = [mem EXCEPT ![p] = m]
      /\ devices \in Seq(DeviceRow) /\ reports \in [DOMAIN devices -> Nat]
      /\ links \in Seq(LinkRow) /\ los \in Seq(LosRow) /\ today \in Day
      /\ \A i \in DOMAIN links : Joins(devices, links[i].ends, links[i].uisp)
      /\ runs \in 0 .. MaxRuns /\ overlap \in BOOLEAN /\ died \in BOOLEAN /\ steady \in [Importer -> BOOLEAN]
  BY <1>0, Remembered DEF CreateSight
<1>2. /\ los' = Append(los, e)
      /\ pc' = [pc EXCEPT ![p] = "los"] /\ mem' = mem
      /\ UNCHANGED <<uisp, devices, links, changes, runs, reports, overlap, died, steady>>
  BY <1>0 DEF CreateSight, Goto
<1>3. IsLink(m.rows[m.at]) /\ m.pair \in Pairs
  BY <1>1 DEF Holding
<1>4. FunctioningDate(m.rows[m.at]) \in Day \cup {Null}
  BY <1>1, <1>3 DEF FunctioningDate, IsLink, LinkRow
<1>5. e \in LosRow
  BY <1>3, <1>4 DEF LosRow
<1> HIDE DEF e
<1>6. los' \in Seq(LosRow)
  BY <1>1, <1>2, <1>5, Appended
<1>7. Holding("los", m)'
  <2>1. \A j : IsLink(j)' <=> IsLink(j)
    BY <1>2 DEF IsLink
  <2> QED BY <1>1, <2>1 DEF Holding
<1>8. mem' = [mem EXCEPT ![p] = m]
  BY <1>1, <1>2
<1> QED BY <1>1, <1>2, <1>6, <1>7, <1>8, StepInv DEF Label

(* An import that has come to its end, or fails, forgets everything.       *)
LEMMA EndInv ==
  ASSUME Inv, NEW p \in Importer, EndSights(p) \/ Finish(p) \/ Fail(p)
  PROVE  Inv'
<1>1. /\ runs \in 0 .. MaxRuns /\ overlap \in BOOLEAN /\ died \in BOOLEAN /\ steady \in [Importer -> BOOLEAN]
      /\ reports \in [DOMAIN devices -> Nat] /\ IsMemory(mem[p]) /\ mem = [mem EXCEPT ![p] = mem[p]]
  BY Remembered
<1>2. CASE EndSights(p)
  <2>1. Holding("finish", mem[p])
    BY DEF Holding
  <2>2. pc' = [pc EXCEPT ![p] = "finish"] /\ mem' = [mem EXCEPT ![p] = mem[p]]
        /\ UNCHANGED <<uisp, meshdb, changes, runs, reports, overlap, died, steady>>
    BY <1>1, <1>2 DEF EndSights, Goto
  <2>3. PICK m : m = mem[p]
    OBVIOUS
  <2> QED BY <1>1, <2>1, <2>2, <2>3, QuietInv DEF Label
<1>3. CASE Finish(p)
  BY <1>1, <1>3, Idle, QuietInv DEF Finish, Goto, Label
<1>4. CASE Fail(p)
  <2>1. Reported(p) \in [DOMAIN devices -> Nat]
    BY <1>1 DEF Reported
  <2>2. pc' = [pc EXCEPT ![p] = "idle"] /\ mem' = [mem EXCEPT ![p] = NoMemory] /\ died' \in BOOLEAN
        /\ UNCHANGED <<uisp, meshdb, changes, runs, overlap, steady>> /\ reports' \in {reports, Reported(p)}
    BY <1>4 DEF Fail, Goto
  <2>3. reports' \in [DOMAIN devices -> Nat]
    BY <1>1, <2>1, <2>2
  <2> QED BY <1>1, <2>2, <2>3, Idle, QuietInv DEF Label
<1> QED BY <1>2, <1>3, <1>4

(* UISP changes; imports stay where they are.                              *)
LEMMA UISPInv ==
  ASSUME Inv, udev' \in [UDev -> UISPDevice \cup {Null}],
         ulink' \in [ULink -> {"active", "inactive", "absent"}],
         today' \in Day, changes' \in 0 .. MaxChanges, steady' \in [Importer -> BOOLEAN],
         UNCHANGED <<meshdb, pc, mem, runs, reports, overlap, died>>
  PROVE  Inv'
<1>1. TablesOK'
  BY DEF Inv, TablesOK, meshdb
<1>2. Shape' /\ LocksApart'
  BY DEF Inv, Shape, LocksApart
<1>3. \A i \in DOMAIN links' : IsLink(links[i])'
  BY DEF Inv, IsLink, meshdb
<1>4. \A p \in Importer : Holding(pc[p], mem[p])'
  BY DEF Inv, Holding, Fetched, IsLink, meshdb
<1> QED BY <1>1, <1>2, <1>3, <1>4 DEF Inv

LEMMA ChangeInv ==
  ASSUME Inv, (\E d \in UDev : ChangeDevice(d)) \/ (\E l \in ULink : ChangeLink(l)) \/ NextDay
  PROVE  Inv'
<1>1. /\ udev \in [UDev -> UISPDevice \cup {Null}] /\ ulink \in [ULink -> {"active", "inactive", "absent"}]
      /\ today \in Day /\ changes \in 0 .. MaxChanges
  BY DEF Inv, TablesOK
<1>2. Change => changes' \in 0 .. MaxChanges /\ steady' \in [Importer -> BOOLEAN]
                /\ UNCHANGED <<meshdb, pc, mem, runs, reports, overlap, died>>
  BY <1>1, ImportAssumption DEF Change
<1>3. ASSUME NEW d \in UDev, ChangeDevice(d) PROVE Inv'
  <2>1. udev' \in [UDev -> UISPDevice \cup {Null}]
    <3>1. CASE udev[d] = Null
      <4>1. PICK nn \in NN : udev' = [udev EXCEPT ![d] = [nn |-> nn, active |-> TRUE, seen |-> Null]]
        BY <1>3, <3>1 DEF ChangeDevice
      <4> QED BY <1>1, <4>1 DEF UISPDevice
    <3>2. CASE udev[d] # Null
      <4>1. udev[d] \in UISPDevice
        BY <1>1, <3>2
      <4>2. PICK u \in UISPDevice \cup {Null} : udev' = [udev EXCEPT ![d] = u]
        <5>1. CASE udev' = [udev EXCEPT ![d] = Null]
          BY <5>1
        <5>2. ASSUME NEW nn \in NN \cup {Null}, udev' = [udev EXCEPT ![d].nn = nn]
              PROVE  \E u \in UISPDevice \cup {Null} : udev' = [udev EXCEPT ![d] = u]
          <6>1. [udev[d] EXCEPT !.nn = nn] \in UISPDevice
            BY <4>1 DEF UISPDevice
          <6> QED BY <5>2, <6>1
        <5>3. ASSUME NEW a \in BOOLEAN, NEW s \in Day \cup {Null},
                     udev' = [udev EXCEPT ![d].active = a, ![d].seen = s]
              PROVE  \E u \in UISPDevice \cup {Null} : udev' = [udev EXCEPT ![d] = u]
          <6>1. [udev[d] EXCEPT !.active = a, !.seen = s] \in UISPDevice
            BY <4>1 DEF UISPDevice
          <6>2. udev' = [udev EXCEPT ![d] = [udev[d] EXCEPT !.active = a, !.seen = s]]
            BY <5>3
          <6> QED BY <6>1, <6>2
        <5> QED BY <1>1, <1>3, <3>2, <5>1, <5>2, <5>3 DEF ChangeDevice
      <4> QED BY <1>1, <4>2
    <3> QED BY <3>1, <3>2
  <2> QED BY <1>1, <1>2, <1>3, <2>1, UISPInv DEF ChangeDevice
<1>4. ASSUME NEW l \in ULink, ChangeLink(l) PROVE Inv'
  <2>1. ulink' \in [ULink -> {"active", "inactive", "absent"}]
    BY <1>1, <1>4 DEF ChangeLink
  <2> QED BY <1>1, <1>2, <1>4, <2>1, UISPInv DEF ChangeLink
<1>5. CASE NextDay
  <2>1. today' \in Day
    BY <1>1, <1>5, ImportAssumption DEF NextDay, Day
  <2> QED BY <1>1, <1>5, <2>1, UISPInv DEF NextDay
<1> QED BY <1>3, <1>4, <1>5

LEMMA NextInv == Inv /\ [Next]_vars => Inv'
<1> SUFFICES ASSUME Inv, [Next]_vars PROVE Inv'
  OBVIOUS
<1>1. CASE UNCHANGED vars
  <2>1. UNCHANGED <<meshdb, pc, mem, runs, reports, overlap, died, udev, ulink, today, changes, steady>>
    BY <1>1 DEF vars, uisp
  <2> QED BY <2>1, UISPInv DEF Inv, TablesOK
<1>2. CASE Next
  <2>1. ASSUME NEW p \in Importer,
               FetchDevices(p) \/ LookUpDevice(p) \/ UpdateDevice(p) \/ CreateDevice(p)
                 \/ SweepDevices(p) \/ SaveLostDevices(p)
        PROVE  Inv'
    BY <2>1, FetchDevicesInv, LookUpDeviceInv, UpdateDeviceInv, CreateDeviceInv, SweepDevicesInv, SaveLostDevicesInv
  <2>2. ASSUME NEW p \in Importer,
               FetchLinks(p) \/ FindEnds(p) \/ LookUpLink(p) \/ UpdateLink(p) \/ CreateLink(p) \/ SweepLinks(p) \/ SaveLostLinks(p)
        PROVE  Inv'
    BY <2>2, FetchLinksInv, FindEndsInv, LookUpLinkInv, UpdateLinkInv, CreateLinkInv, SweepLinksInv, SaveLostLinksInv
  <2>3. ASSUME NEW p \in Importer,
               ReadLinks(p) \/ SyncSight(p) \/ CreateSight(p) \/ EndSights(p) \/ Finish(p) \/ Fail(p)
        PROVE  Inv'
    BY <2>3, ReadLinksInv, SyncSightInv, CreateSightInv, EndInv
  <2> QED BY <1>2, <2>1, <2>2, <2>3, ChangeInv DEF Next
<1> QED BY <1>1, <1>2

LEMMA HistoryTypes ==
  ASSUME {notified, redundant} \subseteq BOOLEAN, [Next]_vars
  PROVE  ({notified, redundant} \subseteq BOOLEAN)'
<1>1. CASE UNCHANGED vars
  BY <1>1 DEF vars, uisp
<1>2. CASE (\E d \in UDev : ChangeDevice(d)) \/ (\E l \in ULink : ChangeLink(l)) \/ NextDay
  BY <1>2 DEF ChangeDevice, ChangeLink, Change, NextDay
<1>3. ASSUME NEW p \in Importer,
             FetchDevices(p) \/ LookUpDevice(p) \/ UpdateDevice(p) \/ CreateDevice(p)
               \/ SweepDevices(p) \/ SaveLostDevices(p)
      PROVE  UNCHANGED <<notified, redundant>>
  BY <1>3 DEF FetchDevices, LookUpDevice, UpdateDevice, CreateDevice, SweepDevices, SaveLostDevices, uisp
<1>4. ASSUME NEW p \in Importer,
             FetchLinks(p) \/ FindEnds(p) \/ LookUpLink(p) \/ UpdateLink(p) \/ CreateLink(p)
               \/ SweepLinks(p) \/ SaveLostLinks(p)
      PROVE  redundant' = redundant /\ notified' \in BOOLEAN
  BY <1>4 DEF FetchLinks, FindEnds, LookUpLink, UpdateLink, CreateLink, SweepLinks, SaveLostLinks, uisp
<1>5. ASSUME NEW p \in Importer,
             ReadLinks(p) \/ SyncSight(p) \/ CreateSight(p) \/ EndSights(p) \/ Finish(p) \/ Fail(p)
      PROVE  UNCHANGED <<notified, redundant>>
  BY <1>5 DEF ReadLinks, SyncSight, CreateSight, EndSights, Finish, Fail, uisp
<1> QED BY <1>1, <1>2, <1>3, <1>4, <1>5 DEF Next

(* Every variable keeps its type, and a link that an import reads, makes   *)
(* or writes joins rows of devices, whatever else runs (sync_handlers.py   *)
(* l.264-330).                                                             *)
THEOREM ImportTypes == Spec => []TypeOK
<1>1. Init => Inv /\ {notified, redundant} \subseteq BOOLEAN
  BY InitInv DEF Init
<1>2. Inv /\ {notified, redundant} \subseteq BOOLEAN /\ [Next]_vars
        => (Inv /\ {notified, redundant} \subseteq BOOLEAN)'
  BY NextInv, HistoryTypes
<1>3. Inv /\ {notified, redundant} \subseteq BOOLEAN => TypeOK
  BY DEF Inv, TypeOK
<1> QED BY <1>1, <1>2, <1>3, PTL DEF Spec

-----------------------------------------------------------------------------
(***************************************************************************)
(* The steps that write a table.                                           *)
(***************************************************************************)
Others(p) ==
  \/ FetchDevices(p) \/ LookUpDevice(p) \/ SweepDevices(p) \/ FetchLinks(p)
  \/ FindEnds(p) \/ LookUpLink(p) \/ SweepLinks(p) \/ ReadLinks(p) \/ EndSights(p) \/ Finish(p)

LEMMA Writers ==
  ASSUME [Next]_vars
  PROVE  \/ UNCHANGED <<meshdb, reports, died>> \/ \E p \in Importer : Others(p)
         \/ \E p \in Importer : UpdateDevice(p) \/ CreateDevice(p) \/ SaveLostDevices(p)
         \/ \E p \in Importer : UpdateLink(p) \/ CreateLink(p) \/ SaveLostLinks(p)
         \/ \E p \in Importer : SyncSight(p) \/ CreateSight(p) \/ Fail(p)
<1>1. CASE UNCHANGED vars
  BY <1>1 DEF vars
<1>2. ASSUME NEW d \in UDev, ChangeDevice(d) PROVE UNCHANGED <<meshdb, reports, died>>
  BY <1>2 DEF ChangeDevice, Change
<1>3. ASSUME NEW l \in ULink, ChangeLink(l) PROVE UNCHANGED <<meshdb, reports, died>>
  BY <1>3 DEF ChangeLink, Change
<1>4. CASE NextDay
  BY <1>4 DEF NextDay
<1> QED BY <1>1, <1>2, <1>3, <1>4 DEF Next, Others

LEMMA OthersQuiet ==
  ASSUME NEW p \in Importer, Others(p)
  PROVE  UNCHANGED <<devices, links, los, reports>> /\ died' \in {died, TRUE}
<1>1. UNCHANGED <<meshdb, reports>>
  BY DEF Others, FetchDevices, LookUpDevice, SweepDevices, FetchLinks, FindEnds, LookUpLink, SweepLinks,
         ReadLinks, EndSights, Finish
<1>2. FindEnds(p) => died' \in {died, TRUE}
  BY DEF FindEnds
<1>3. ~FindEnds(p) => died' = died
  BY DEF Others, FetchDevices, LookUpDevice, SweepDevices, FetchLinks, LookUpLink, SweepLinks,
         ReadLinks, EndSights, Finish
<1>4. died' \in {died, TRUE}
  BY <1>2, <1>3
<1>5. UNCHANGED <<devices, links, los, reports>>
  BY <1>1 DEF meshdb
<1> QED BY <1>4, <1>5

(* The rows of an update, under its locks, are those of the table.         *)
LEMMA UpdatesDevices ==
  ASSUME Inv, NEW p \in Importer, UpdateDevice(p)
  PROVE  /\ DOMAIN devices' = DOMAIN devices /\ UNCHANGED <<links, los, died>>
         /\ \E u \in UISPDevice : \A i \in DOMAIN devices :
              \/ devices'[i] = devices[i] /\ reports'[i] = reports[i]
              \/ /\ devices'[i] = Updated(devices[i], u)
                 /\ reports'[i] = LET new == Updated(devices[i], u).status IN
                      IF new = "Active" THEN 0
                      ELSE IF new # devices[i].status THEN reports[i] + 1 ELSE reports[i]
<1>0. PICK m : m = mem[p]
  OBVIOUS
<1>1. PICK u : u = m.devs[m.at]
  OBVIOUS
<1>2. Holding("update", m) /\ reports \in [DOMAIN devices -> Nat]
  BY <1>0, Remembered DEF UpdateDevice
<1>3. u \in UISPDevice /\ \A i \in DOMAIN m.rows : m.rows[i] = devices[i]
  BY <1>1, <1>2 DEF Holding, Fetched
<1>4. devices' = [i \in DOMAIN devices |-> IF i \in DOMAIN m.rows THEN Updated(m.rows[i], u) ELSE devices[i]]
      /\ UNCHANGED <<links, los, died>> /\ reports' = Reported(p)
  BY <1>0, <1>1 DEF UpdateDevice
<1>5. \A i \in DOMAIN devices :
        reports'[i] = IF i \notin DOMAIN m.rows THEN reports[i]
                      ELSE LET new == Updated(m.rows[i], u).status IN
                        IF new = "Active" THEN 0
                        ELSE IF new # m.rows[i].status THEN reports[i] + 1 ELSE reports[i]
  BY <1>0, <1>1, <1>2, <1>4 DEF Reported
<1>6. \A i \in DOMAIN devices :
              \/ devices'[i] = devices[i] /\ reports'[i] = reports[i]
              \/ /\ devices'[i] = Updated(devices[i], u)
                 /\ reports'[i] = LET new == Updated(devices[i], u).status IN
                      IF new = "Active" THEN 0
                      ELSE IF new # devices[i].status THEN reports[i] + 1 ELSE reports[i]
  BY <1>3, <1>4, <1>5
<1> QED BY <1>3, <1>4, <1>6

LEMMA CreatesDevice ==
  ASSUME Inv, NEW p \in Importer, CreateDevice(p)
  PROVE  /\ UNCHANGED <<links, los, died>> /\ DOMAIN devices' = DOMAIN devices \cup {Len(devices) + 1}
         /\ \A i \in DOMAIN devices : devices'[i] = devices[i] /\ reports'[i] = reports[i]
         /\ devices'[Len(devices) + 1].uisp = mem[p].at
         /\ NotAbandoned(devices'[Len(devices) + 1]) /\ reports'[Len(devices) + 1] = 0
<1>0. PICK m : m = mem[p]
  OBVIOUS
<1> DEFINE u == m.devs[m.at]
           e == [uisp |-> m.at, nn |-> u.nn, status |-> IF u.active THEN "Active" ELSE "Inactive",
                 abandon |-> IF u.active THEN Null ELSE u.seen]
<1>1. Holding("create", m) /\ devices \in Seq(DeviceRow) /\ reports \in [DOMAIN devices -> Nat]
  BY <1>0, Remembered DEF CreateDevice
<1>2. devices' = Append(devices, e) /\ reports' = Append(reports, 0) /\ UNCHANGED <<links, los, died>>
  BY <1>0 DEF CreateDevice
<1>3. m.at \in UDev /\ u \in UISPDevice /\ u.nn \in NN
  BY <1>1 DEF Holding, Fetched
<1>4. e \in DeviceRow /\ NotAbandoned(e) /\ e.uisp = m.at
  BY <1>3 DEF UISPDevice, DeviceRow, DeviceStatus, NotAbandoned
<1> HIDE DEF e
<1>5. reports \in Seq(Nat) /\ Len(reports) = Len(devices)
  BY <1>1
<1>6. devices' \in Seq(DeviceRow) /\ DOMAIN devices' = DOMAIN devices \cup {Len(devices) + 1}
      /\ (\A i \in DOMAIN devices : devices'[i] = devices[i]) /\ devices'[Len(devices) + 1] = e
  BY <1>1, <1>2, <1>4, Appended
<1>7. (\A i \in DOMAIN reports : reports'[i] = reports[i]) /\ reports'[Len(devices) + 1] = 0
  BY <1>2, <1>5, Appended
<1> QED BY <1>0, <1>1, <1>2, <1>4, <1>6, <1>7

LEMMA SavesLostDevices ==
  ASSUME Inv, NEW p \in Importer, SaveLostDevices(p)
  PROVE  /\ UNCHANGED <<links, los, died, reports>> /\ DOMAIN devices' = DOMAIN devices
         /\ \A i \in DOMAIN devices :
              \/ devices'[i] = devices[i]
              \/ devices'[i].status = "Inactive" /\ devices'[i].uisp = devices[i].uisp
<1>0. PICK m : m = mem[p]
  OBVIOUS
<1>1. Holding("sweep", m)
  BY <1>0, Remembered DEF SaveLostDevices
<1>2. devices' = [i \in DOMAIN devices |-> IF i \in DOMAIN m.rows THEN [m.rows[i] EXCEPT !.status = "Inactive"]
                                           ELSE devices[i]]
      /\ UNCHANGED <<links, los, died, reports>>
  BY <1>0 DEF SaveLostDevices
<1>3. \A i \in DOMAIN m.rows : m.rows[i] \in DeviceRow /\ m.rows[i].uisp = devices[i].uisp
  BY <1>1 DEF Holding
<1>4. \A row \in DeviceRow : [row EXCEPT !.status = "Inactive"].status = "Inactive"
                             /\ [row EXCEPT !.status = "Inactive"].uisp = row.uisp
  BY DEF DeviceRow
<1> QED BY <1>2, <1>3, <1>4

LEMMA UpdatedFacts ==
  ASSUME NEW row \in DeviceRow, NEW u
  PROVE  /\ Updated(row, u).uisp = row.uisp
         /\ Updated(row, u).status = StatusFrom(row.status, u.active, u.seen)
         /\ NotAbandoned(row) => NotAbandoned(Updated(row, u))
<1> DEFINE t == StatusFrom(row.status, u.active, u.seen)
           a == AbandonFrom(row, t, u.seen)
<1>1. Updated(row, u) = [row EXCEPT !.nn = u.nn, !.status = t, !.abandon = a]
  BY DEF Updated
<1>2. NotAbandoned(row) /\ t = "Active" => a = Null
  BY DEF AbandonFrom, NotAbandoned
<1> HIDE DEF t, a
<1>3. /\ [row EXCEPT !.nn = u.nn, !.status = t, !.abandon = a].uisp = row.uisp
      /\ [row EXCEPT !.nn = u.nn, !.status = t, !.abandon = a].status = t
      /\ [row EXCEPT !.nn = u.nn, !.status = t, !.abandon = a].abandon = a
  BY DEF DeviceRow
<1> QED BY <1>1, <1>2, <1>3 DEF NotAbandoned, t

-----------------------------------------------------------------------------
(***************************************************************************)
(* A device that goes offline is reported once: while it is not Inactive,  *)
(* nothing has been reported, and an update that reports it holds its row, *)
(* as it is in the table, and leaves it Inactive.                          *)
(***************************************************************************)
ReportsInv ==
  ~died => \A i \in DOMAIN devices :
             reports[i] <= 1 /\ (devices[i].status # "Inactive" => reports[i] = 0)

LEMMA InitReports == Init => ReportsInv
<1> SUFFICES ASSUME Init PROVE ReportsInv
  OBVIOUS
<1>1. PICK s \in Start : devices = s.devices /\ reports = [i \in DOMAIN s.devices |-> 0]
  BY DEF Init
<1> QED BY <1>1 DEF ReportsInv

LEMMA NextReports == Inv /\ ReportsInv /\ [Next]_vars => ReportsInv'
<1> SUFFICES ASSUME Inv, ReportsInv, [Next]_vars PROVE ReportsInv'
  OBVIOUS
<1>0. devices \in Seq(DeviceRow) /\ reports \in [DOMAIN devices -> Nat]
  BY DEF Inv, TablesOK
<1>1. CASE UNCHANGED <<meshdb, reports, died>>
  BY <1>1 DEF ReportsInv, meshdb
<1>2. ASSUME NEW p \in Importer, Others(p) PROVE ReportsInv'
  <2>1. UNCHANGED <<devices, reports>> /\ died' \in {died, TRUE}
    BY <1>2, OthersQuiet
  <2> QED BY <2>1 DEF ReportsInv
<1>3. ASSUME NEW p \in Importer, UpdateDevice(p) PROVE ReportsInv'
  <2>1. PICK u \in UISPDevice : \A i \in DOMAIN devices :
              \/ devices'[i] = devices[i] /\ reports'[i] = reports[i]
              \/ /\ devices'[i] = Updated(devices[i], u)
                 /\ reports'[i] = LET new == Updated(devices[i], u).status IN
                      IF new = "Active" THEN 0
                      ELSE IF new # devices[i].status THEN reports[i] + 1 ELSE reports[i]
    BY <1>3, UpdatesDevices
  <2>2. DOMAIN devices' = DOMAIN devices /\ died' = died
    BY <1>3, UpdatesDevices
  <2> SUFFICES ASSUME ~died, NEW i \in DOMAIN devices
               PROVE  reports'[i] <= 1 /\ (devices'[i].status # "Inactive" => reports'[i] = 0)
    BY <2>2 DEF ReportsInv
  <2>3. reports[i] <= 1 /\ (devices[i].status # "Inactive" => reports[i] = 0) /\ reports[i] \in Nat
    BY <1>0 DEF ReportsInv
  <2>4. devices[i] \in DeviceRow
    BY <1>0
  <2>5. Updated(devices[i], u).status \in {"Active", "Inactive", devices[i].status}
    BY <2>4, UpdatedFacts DEF StatusFrom
  <2> QED BY <2>1, <2>3, <2>5
<1>4. ASSUME NEW p \in Importer, CreateDevice(p) PROVE ReportsInv'
  <2>1. /\ died' = died /\ DOMAIN devices' = DOMAIN devices \cup {Len(devices) + 1}
        /\ \A i \in DOMAIN devices : devices'[i] = devices[i] /\ reports'[i] = reports[i]
        /\ reports'[Len(devices) + 1] = 0
    BY <1>4, CreatesDevice
  <2> QED BY <2>1 DEF ReportsInv
<1>5. ASSUME NEW p \in Importer, SaveLostDevices(p) PROVE ReportsInv'
  BY <1>5, SavesLostDevices DEF ReportsInv
<1>6. ASSUME NEW p \in Importer, UpdateLink(p) \/ CreateLink(p) \/ SaveLostLinks(p) PROVE ReportsInv'
  BY <1>6 DEF UpdateLink, CreateLink, SaveLostLinks, ReportsInv
<1>7. ASSUME NEW p \in Importer, SyncSight(p) \/ CreateSight(p) \/ Fail(p) PROVE ReportsInv'
  BY <1>7 DEF SyncSight, CreateSight, Fail, ReportsInv
<1> QED BY <1>1, <1>2, <1>3, <1>4, <1>5, <1>6, <1>7, Writers

(* However many imports run at once, and however UISP changes meanwhile, a *)
(* device that goes offline is reported once until it comes back, unless   *)
(* an import fails (update_objects.py l.51, l.88).                         *)
THEOREM OneReport == Spec => []ReportedOnce
<1>1. Inv /\ ReportsInv => ReportedOnce
  BY DEF Inv, TablesOK, ReportsInv, ReportedOnce
<1> QED BY <1>1, InitInv, NextInv, InitReports, NextReports, PTL DEF Spec

-----------------------------------------------------------------------------
(***************************************************************************)
(* Objects that are Active have no abandon date.                           *)
(***************************************************************************)
LEMMA InitNotAbandoned == Init => ActiveNotAbandoned
BY StartAssumption DEF Init, ActiveNotAbandoned

LEMMA UpdatesLinks ==
  ASSUME Inv, NEW p \in Importer, UpdateLink(p)
  PROVE  /\ DOMAIN links' = DOMAIN links /\ UNCHANGED <<devices, los>>
         /\ \E active, seen : \A i \in DOMAIN links :
              \/ links'[i] = links[i]
              \/ /\ i \in DOMAIN mem[p].rows
                 /\ links'[i] = UpdatedLink(links[i], mem[p].at, mem[p].ends, active, seen)
<1>0. PICK m : m = mem[p]
  OBVIOUS
<1>1. Holding("updateLink", m)
  BY <1>0, Remembered DEF UpdateLink
<1>2. links' = [i \in DOMAIN links |->
                  IF i \in DOMAIN m.rows
                  THEN UpdatedLink(m.rows[i], m.at, m.ends, m.at \in m.up, LinkSeen(m.at)) ELSE links[i]]
      /\ UNCHANGED <<devices, los>>
  BY <1>0 DEF UpdateLink
<1>3. \A i \in DOMAIN m.rows : m.rows[i] = links[i]
  BY <1>1 DEF Holding
<1>4. PICK a, z : a = (m.at \in m.up) /\ z = LinkSeen(m.at)
  OBVIOUS
<1>5. \A i \in DOMAIN links :
        \/ links'[i] = links[i]
        \/ i \in DOMAIN m.rows /\ links'[i] = UpdatedLink(links[i], m.at, m.ends, a, z)
  BY <1>2, <1>3, <1>4
<1> QED BY <1>0, <1>2, <1>5

LEMMA NextNotAbandoned == Inv /\ ActiveNotAbandoned /\ [Next]_vars => ActiveNotAbandoned'
<1> SUFFICES ASSUME Inv, ActiveNotAbandoned, [Next]_vars PROVE ActiveNotAbandoned'
  OBVIOUS
<1>0. devices \in Seq(DeviceRow) /\ links \in Seq(LinkRow)
  BY DEF Inv, TablesOK
<1>1. ASSUME UNCHANGED <<devices, links>> PROVE ActiveNotAbandoned'
  BY <1>1 DEF ActiveNotAbandoned
<1>2. ASSUME UNCHANGED links, \A i \in DOMAIN devices' : NotAbandoned(devices'[i]) PROVE ActiveNotAbandoned'
  BY <1>2 DEF ActiveNotAbandoned
<1>3. ASSUME UNCHANGED devices, \A i \in DOMAIN links' : NotAbandoned(links'[i]) PROVE ActiveNotAbandoned'
  BY <1>3 DEF ActiveNotAbandoned
<1>4. ASSUME NEW p \in Importer, UpdateDevice(p) PROVE ActiveNotAbandoned'
  <2>1. PICK u \in UISPDevice : \A i \in DOMAIN devices :
               devices'[i] = devices[i] \/ devices'[i] = Updated(devices[i], u)
    BY <1>4, UpdatesDevices
  <2>2. \A i \in DOMAIN devices : devices[i] \in DeviceRow /\ NotAbandoned(devices[i])
    BY <1>0 DEF ActiveNotAbandoned
  <2>3. \A i \in DOMAIN devices : NotAbandoned(devices'[i])
    BY <2>1, <2>2, UpdatedFacts
  <2> QED BY <1>2, <1>4, <2>3, UpdatesDevices
<1>5. ASSUME NEW p \in Importer, CreateDevice(p) PROVE ActiveNotAbandoned'
  BY <1>2, <1>5, CreatesDevice DEF ActiveNotAbandoned
<1>6. ASSUME NEW p \in Importer, SaveLostDevices(p) PROVE ActiveNotAbandoned'
  BY <1>2, <1>6, SavesLostDevices DEF ActiveNotAbandoned, NotAbandoned
<1>7. ASSUME NEW p \in Importer, UpdateLink(p) PROVE ActiveNotAbandoned'
  <2>1. PICK l, e, active, seen : \A i \in DOMAIN links : links'[i] = links[i]
              \/ links'[i] = UpdatedLink(links[i], l, e, active, seen)
    BY <1>7, UpdatesLinks
  <2>2. \A row : NotAbandoned(row) => NotAbandoned(UpdatedLink(row, l, e, active, seen))
    BY DEF NotAbandoned, UpdatedLink, AbandonFrom
  <2> QED BY <1>3, <1>7, <2>1, <2>2, UpdatesLinks DEF ActiveNotAbandoned
<1>8. ASSUME NEW p \in Importer, CreateLink(p) PROVE ActiveNotAbandoned'
  <2> DEFINE e == [uisp |-> mem[p].at, ends |-> mem[p].ends, abandon |-> Null,
                   status |-> IF mem[p].at \in mem[p].up THEN "Active" ELSE "Inactive"]
  <2>1. NotAbandoned(e)
    BY DEF NotAbandoned
  <2>2. links' = Append(links, e) /\ devices' = devices
    BY <1>8 DEF CreateLink
  <2> HIDE DEF e
  <2>3. \A i \in DOMAIN links' : NotAbandoned(links'[i])
    BY <1>0, <2>1, <2>2 DEF ActiveNotAbandoned
  <2> QED BY <1>3, <2>2, <2>3
<1>9. ASSUME NEW p \in Importer, SaveLostLinks(p) PROVE ActiveNotAbandoned'
  <2>1. PICK m : m = mem[p]
    OBVIOUS
  <2>2. \A i \in DOMAIN m.rows : m.rows[i] \in LinkRow
    BY <1>9, <2>1, Remembered DEF SaveLostLinks, Holding, IsLink
  <2>3. links' = [i \in DOMAIN links |-> IF i \in DOMAIN m.rows THEN [m.rows[i] EXCEPT !.status = "Inactive"]
                                         ELSE links[i]] /\ devices' = devices
    BY <1>9, <2>1 DEF SaveLostLinks
  <2>4. \A row \in LinkRow : NotAbandoned([row EXCEPT !.status = "Inactive"])
    BY DEF LinkRow, NotAbandoned
  <2> QED BY <1>3, <2>2, <2>3, <2>4 DEF ActiveNotAbandoned
<1>10. ASSUME NEW p \in Importer, SyncSight(p) \/ CreateSight(p) \/ Fail(p) PROVE UNCHANGED <<devices, links>>
  BY <1>10 DEF SyncSight, CreateSight, Fail, meshdb
<1>11. CASE UNCHANGED <<meshdb, reports, died>>
  BY <1>1, <1>11 DEF meshdb
<1> QED BY <1>1, <1>4, <1>5, <1>6, <1>7, <1>8, <1>9, <1>10, <1>11, OthersQuiet, Writers

(* An object that is Active has no abandon date, however imports and what  *)
(* UISP says interleave: an update works under the row's lock, and the     *)
(* final passes, which save rows as they read them, make them Inactive     *)
(* (update_objects.py l.72, l.162; sync_handlers.py l.177-192).            *)
THEOREM NoAbandonedActives == Spec => []ActiveNotAbandoned
BY InitInv, NextInv, InitNotAbandoned, NextNotAbandoned, PTL DEF Spec

-----------------------------------------------------------------------------
(***************************************************************************)
(* Every object is one row, as long as imports run one after the other.    *)
(* What an import has found missing stays missing until it makes it; it    *)
(* gives an id to one row unless it has said that it does not; the links   *)
(* of its list are of different devices unless there are redundant ones;   *)
(* and the ends of a row tell those of UISP's link.                        *)
(***************************************************************************)
EndsOf(l) == {Ends[l][1], Ends[l][2]}

Both(ends) == {ends[1], ends[2]}

Distinct(L) == \A k, l \in L : EndsOf(k) = EndsOf(l) => k = l

Present == {l \in ULink : ulink[l] # "absent"}

OneDevice == \A i, j \in DOMAIN devices : devices[i].uisp = devices[j].uisp => i = j
OneId     == \A i, j \in DOMAIN links : links[i].uisp = links[j].uisp => i = j
OnePair   == \A i, j \in DOMAIN links : Both(links[i].ends) = Both(links[j].ends) => i = j
OneSight  == \A i, j \in DOMAIN los : los[i].pair = los[j].pair => i = j

IdsOnce   == ~notified => OneId
PairsOnce == ~redundant => OnePair

Sole(s, m) ==
  /\ s = "create" => \A i \in DOMAIN devices : devices[i].uisp # m.at
  /\ s \in {"links", "findLink", "updateLink", "createLink"} =>
       m.ls \subseteq ULink /\ m.todo \subseteq m.ls /\ (~redundant => Distinct(m.ls))
  /\ s \in {"findLink", "updateLink", "createLink"} => m.at \in m.ls
  /\ s = "updateLink" => \A i \in DOMAIN m.rows :
       /\ Both(links[i].ends) = Both(m.ends)
       /\ links[i].uisp = m.at \/ \A j \in DOMAIN links : links[j].uisp # m.at
       /\ ~notified => \A j \in DOMAIN m.rows : i = j
  /\ s = "createLink" => \A i \in DOMAIN links :
       links[i].uisp # m.at /\ (~redundant => Both(links[i].ends) # Both(m.ends))
  /\ s = "sweepLinks" => \A i \in DOMAIN m.rows :
       m.rows[i].uisp = links[i].uisp /\ m.rows[i].ends = links[i].ends
  /\ s = "createLos" => \A k \in DOMAIN los : los[k].pair # m.pair

Alone ==
  /\ \A p, q \in Importer : pc[p] # "idle" /\ pc[q] # "idle" => p = q
  /\ OneDevice /\ IdsOnce /\ PairsOnce /\ OneSight
  /\ \A p \in Importer : Sole(pc[p], mem[p])

AloneInv == (~redundant => Distinct(Present)) /\ (~overlap => Alone)

LEMMA TidyTables ==
  /\ OneOfId(devices) <=> OneDevice
  /\ OneOfId(links) <=> OneId
  /\ OneOfPair(links) <=> OnePair
  /\ OneBetween(los) <=> OneSight
BY DEF OneOfId, OneOfPair, OneBetween, OneDevice, OneId, OnePair, OneSight, Both, IsInjective

(* UISP has one link of two devices at a time.                             *)
LEMMA OneAtATime ==
  ASSUME NEW state, ~RedundantLinks(state)
  PROVE  Distinct({l \in ULink : state[l] # "absent"})
BY DEF RedundantLinks, Distinct, EndsOf

LEMMA InitAlone == Init => AloneInv
<1> SUFFICES ASSUME Init PROVE AloneInv
  OBVIOUS
<1>1. PICK s \in Start : /\ udev = s.udev /\ ulink = s.ulink
                         /\ devices = s.devices /\ links = s.links /\ los = s.los
                         /\ redundant = (RedundantLinks(s.ulink) \/ ~OneOfPair(s.links))
  BY DEF Init
<1>2. OneOfId(devices) /\ OneOfId(links) /\ OneBetween(los)
  BY <1>1, StartAssumption
<1>3. ~redundant => OneOfPair(links) /\ ~RedundantLinks(ulink)
  BY <1>1
<1>4. ~redundant => Distinct(Present)
  BY <1>3, OneAtATime DEF Present
<1>5. \A p \in Importer : pc[p] = "idle" /\ Sole(pc[p], mem[p])
  BY DEF Init, Sole
<1>6. OneDevice /\ OneId /\ OneSight /\ (~redundant => OnePair)
  BY <1>2, <1>3, TidyTables
<1> QED BY <1>4, <1>5, <1>6 DEF AloneInv, Alone, IdsOnce, PairsOnce

(* A step of the only import.                                              *)
LEMMA AloneStep ==
  ASSUME Inv, AloneInv, NEW p \in Importer, pc[p] # "idle", NEW s, NEW m,
         pc' = [pc EXCEPT ![p] = s], mem' = [mem EXCEPT ![p] = m], UNCHANGED <<uisp, overlap>>,
         Alone => OneDevice' /\ IdsOnce' /\ PairsOnce' /\ OneSight' /\ Sole(s, m)'
  PROVE  AloneInv'
<1>1. (~redundant => Distinct(Present))'
  BY DEF AloneInv, Distinct, Present, uisp
<1> SUFFICES ASSUME ~overlap PROVE Alone'
  BY <1>1 DEF AloneInv
<1>2. Alone
  BY DEF AloneInv
<1>3. pc'[p] = s /\ mem'[p] = m /\ \A q \in Importer \ {p} : pc'[q] = "idle"
  BY <1>2 DEF Inv, TablesOK, Shape, Alone
<1>4. ASSUME NEW q \in Importer PROVE Sole(pc[q], mem[q])'
  <2>1. CASE q = p
    BY <1>2, <1>3, <2>1
  <2>2. CASE q # p
    BY <1>3, <2>2 DEF Sole
  <2> QED BY <2>1, <2>2
<1>5. \A q, r \in Importer : pc'[q] # "idle" /\ pc'[r] # "idle" => q = r
  BY <1>3
<1> QED BY <1>2, <1>4, <1>5 DEF Alone

(* A step of the only import that changes no table.                        *)
LEMMA AloneQuiet ==
  ASSUME Inv, AloneInv, NEW p \in Importer, pc[p] # "idle", NEW s, NEW m,
         pc' = [pc EXCEPT ![p] = s], mem' = [mem EXCEPT ![p] = m], UNCHANGED <<uisp, notified, overlap, meshdb>>,
         Alone => Sole(s, m)
  PROVE  AloneInv'
<1>1. UNCHANGED <<devices, links, los, notified, redundant>>
  BY DEF meshdb, uisp
<1>2. Alone => OneDevice' /\ IdsOnce' /\ PairsOnce' /\ OneSight'
  BY <1>1 DEF Alone, OneDevice, OneId, OnePair, OneSight, IdsOnce, PairsOnce
<1>3. Alone => Sole(s, m)'
  BY <1>1 DEF Sole
<1> QED BY <1>2, <1>3, AloneStep

(* Equal ends of UISP's links are equal rows of devices, and conversely.   *)
LEMMA SameEnds ==
  ASSUME NEW e, NEW f, NEW k, NEW l, Joins(devices, e, k), Joins(devices, f, l)
  PROVE  /\ Both(e) = Both(f) => EndsOf(k) = EndsOf(l)
         /\ OneDevice /\ EndsOf(k) = EndsOf(l) => Both(e) = Both(f)
<1>1. ASSUME Both(e) = Both(f) PROVE EndsOf(k) = EndsOf(l)
  <2>1. {devices[e[1]].uisp, devices[e[2]].uisp} = {devices[f[1]].uisp, devices[f[2]].uisp}
    BY <1>1 DEF Both
  <2> QED BY <2>1 DEF Joins, EndsOf
<1>2. ASSUME OneDevice, EndsOf(k) = EndsOf(l) PROVE Both(e) = Both(f)
  <2>1. {devices[e[1]].uisp, devices[e[2]].uisp} = {devices[f[1]].uisp, devices[f[2]].uisp}
    BY <1>2 DEF Joins, EndsOf
  <2>2. e[1] \in DOMAIN devices /\ e[2] \in DOMAIN devices /\ f[1] \in DOMAIN devices /\ f[2] \in DOMAIN devices
    BY DEF Joins
  <2> QED BY <1>2, <2>1, <2>2 DEF OneDevice, Both
<1> QED BY <1>1, <1>2

LEMMA AloneFetchDevices == ASSUME Inv, AloneInv, NEW p \in Importer, FetchDevices(p) PROVE AloneInv'
<1>1. (~redundant => Distinct(Present))'
  BY DEF AloneInv, Distinct, Present, FetchDevices, uisp
<1> SUFFICES ASSUME ~overlap' PROVE Alone'
  BY <1>1 DEF AloneInv
<1>2. Alone /\ \A q \in Importer : pc[q] = "idle"
  BY DEF AloneInv, FetchDevices
<1>3. pc' = [pc EXCEPT ![p] = "devices"] /\ UNCHANGED <<devices, links, los, notified, redundant>>
  BY DEF FetchDevices, Goto, meshdb, uisp
<1>4. \A q \in Importer : pc'[q] = IF q = p THEN "devices" ELSE "idle"
  BY <1>2, <1>3 DEF Inv, TablesOK
<1>5. \A q \in Importer : Sole(pc[q], mem[q])'
  BY <1>4 DEF Sole
<1>6. OneDevice' /\ IdsOnce' /\ PairsOnce' /\ OneSight'
  BY <1>2, <1>3 DEF Alone, OneDevice, OneId, OnePair, OneSight, IdsOnce, PairsOnce, uisp
<1> QED BY <1>4, <1>5, <1>6 DEF Alone

LEMMA AloneLookUpDevice == ASSUME Inv, AloneInv, NEW p \in Importer, LookUpDevice(p) PROVE AloneInv'
<1>1. IsMemory(mem[p])
  BY Remembered
<1>2. PICK d \in mem[p].todo :
        /\ mem' = [mem EXCEPT ![p].todo = @ \ {d}, ![p].at = d,
                              ![p].rows = [i \in Existing(d) |-> devices[i]]]
        /\ Goto(p, IF Existing(d) = {} THEN "create" ELSE "update")
  BY DEF LookUpDevice
<1> DEFINE R == [i \in Existing(d) |-> devices[i]]
           m == [mem[p] EXCEPT !.todo = @ \ {d}, !.at = d, !.rows = R]
           s == IF Existing(d) = {} THEN "create" ELSE "update"
<1>3. IsMemory(m) /\ m.at = d
  BY <1>1 DEF IsMemory, Field
<1>4. mem' = [mem EXCEPT ![p] = m] /\ pc' = [pc EXCEPT ![p] = s]
  BY <1>2 DEF Goto
<1> HIDE DEF m
<1>5. Sole(s, m)
  BY <1>3 DEF Sole, Existing
<1> HIDE DEF s
<1>6. pc[p] # "idle" /\ UNCHANGED <<uisp, notified, overlap, meshdb>>
  BY DEF LookUpDevice
<1> QED BY <1>4, <1>5, <1>6, AloneQuiet

(* Rows of devices keep their ids.                                         *)
LEMMA AloneKeep ==
  ASSUME Inv, AloneInv, NEW p \in Importer, pc[p] # "idle", NEW s \in {"devices", "fetch"}, NEW m,
         pc' = [pc EXCEPT ![p] = s], mem' = [mem EXCEPT ![p] = m], UNCHANGED <<uisp, notified, overlap, links, los>>,
         DOMAIN devices' = DOMAIN devices, \A i \in DOMAIN devices : devices'[i].uisp = devices[i].uisp
  PROVE  AloneInv'
<1>1. Alone => OneDevice' /\ IdsOnce' /\ PairsOnce' /\ OneSight'
  BY DEF Alone, OneDevice, OneId, OnePair, OneSight, IdsOnce, PairsOnce, uisp
<1>2. Sole(s, m)'
  BY DEF Sole
<1> QED BY <1>1, <1>2, AloneStep

LEMMA AloneUpdateDevice == ASSUME Inv, AloneInv, NEW p \in Importer, UpdateDevice(p) PROVE AloneInv'
<1>1. PICK u \in UISPDevice : \A i \in DOMAIN devices :
             devices'[i] = devices[i] \/ devices'[i] = Updated(devices[i], u)
  BY UpdatesDevices
<1>2. \A i \in DOMAIN devices : devices[i] \in DeviceRow
  BY DEF Inv, TablesOK
<1>3. \A i \in DOMAIN devices : devices'[i].uisp = devices[i].uisp
  <2> SUFFICES ASSUME NEW i \in DOMAIN devices PROVE devices'[i].uisp = devices[i].uisp
    OBVIOUS
  <2>1. Updated(devices[i], u).uisp = devices[i].uisp
    BY <1>2, UpdatedFacts
  <2> QED BY <1>1, <2>1
<1>4. mem' = mem /\ mem = [mem EXCEPT ![p] = mem[p]]
  BY Remembered DEF UpdateDevice
<1>5. PICK m : m = mem[p]
  OBVIOUS
<1>6. mem' = [mem EXCEPT ![p] = m] /\ pc' = [pc EXCEPT ![p] = "devices"]
      /\ pc[p] # "idle" /\ UNCHANGED <<uisp, notified, overlap, links, los>>
  BY <1>4, <1>5 DEF UpdateDevice, Goto
<1>7. DOMAIN devices' = DOMAIN devices
  BY UpdatesDevices
<1>8. "devices" \in {"devices", "fetch"}
  OBVIOUS
<1> QED BY <1>3, <1>6, <1>7, <1>8, AloneKeep

LEMMA AloneCreateDevice == ASSUME Inv, AloneInv, NEW p \in Importer, CreateDevice(p) PROVE AloneInv'
<1>1. mem' = mem /\ mem = [mem EXCEPT ![p] = mem[p]]
  BY Remembered DEF CreateDevice
<1>2. PICK m : m = mem[p]
  OBVIOUS
<1>3. mem' = [mem EXCEPT ![p] = m] /\ pc' = [pc EXCEPT ![p] = "devices"]
      /\ pc[p] = "create" /\ UNCHANGED <<uisp, notified, overlap, links, los>>
  BY <1>1, <1>2 DEF CreateDevice, Goto
<1>4. /\ DOMAIN devices' = DOMAIN devices \cup {Len(devices) + 1}
      /\ \A i \in DOMAIN devices : devices'[i] = devices[i]
      /\ devices'[Len(devices) + 1].uisp = m.at
  BY <1>2, CreatesDevice
<1>5. Alone => \A i \in DOMAIN devices : devices[i].uisp # m.at
  BY <1>2, <1>3 DEF Alone, Sole
<1>6. Alone => OneDevice'
  BY <1>4, <1>5 DEF Alone, OneDevice
<1>7. Alone => IdsOnce' /\ PairsOnce' /\ OneSight'
  BY <1>3 DEF Alone, OneId, OnePair, OneSight, IdsOnce, PairsOnce, uisp
<1>8. Sole("devices", m)'
  BY DEF Sole
<1> QED BY <1>3, <1>6, <1>7, <1>8, AloneStep

LEMMA AloneSaveLostDevices == ASSUME Inv, AloneInv, NEW p \in Importer, SaveLostDevices(p) PROVE AloneInv'
<1>1. PICK m : m = [NoMemory EXCEPT !.devs = mem[p].devs]
  OBVIOUS
<1>2. mem' = [mem EXCEPT ![p] = m] /\ pc' = [pc EXCEPT ![p] = "fetch"]
      /\ pc[p] # "idle" /\ UNCHANGED <<uisp, notified, overlap, links, los>>
  BY <1>1 DEF SaveLostDevices, Goto
<1>3. DOMAIN devices' = DOMAIN devices /\ \A i \in DOMAIN devices : devices'[i].uisp = devices[i].uisp
  BY SavesLostDevices
<1>4. "fetch" \in {"devices", "fetch"}
  OBVIOUS
<1> QED BY <1>2, <1>3, <1>4, AloneKeep

LEMMA AloneFetchLinks == ASSUME Inv, AloneInv, NEW p \in Importer, FetchLinks(p) PROVE AloneInv'
<1> DEFINE U == {l \in ULink : ulink[l] = "active"}
           m == [mem[p] EXCEPT !.ls = Present, !.todo = Present, !.up = U]
<1>1. IsMemory(mem[p])
  BY Remembered
<1>2. IsMemory(m) /\ m.todo = Present /\ m.ls = Present
  BY <1>1 DEF IsMemory, Field
<1>3. mem' = [mem EXCEPT ![p] = m] /\ pc' = [pc EXCEPT ![p] = "links"]
      /\ pc[p] # "idle" /\ UNCHANGED <<uisp, notified, overlap, meshdb>>
  BY DEF FetchLinks, Goto, Present
<1> HIDE DEF m
<1>4. Present \subseteq ULink /\ (~redundant => Distinct(Present))
  BY DEF Present, AloneInv
<1>5. Sole("links", m)
  BY <1>2, <1>4 DEF Sole
<1> QED BY <1>3, <1>5, AloneQuiet

(* What a look-up of a link finds: its row, or rows of the same devices    *)
(* whose ids are gone; or no row is of the link or of its devices.         *)
LEMMA Finds ==
  ASSUME Inv, Alone, NEW p \in Importer, NEW l \in mem[p].ls, NEW a, NEW b,
         Joins(devices, <<a, b>>, l)
  PROVE  /\ \A i \in Matching(p, l, a, b) :
              /\ Both(links[i].ends) = Both(<<a, b>>)
              /\ links[i].uisp = l \/ \A j \in DOMAIN links : links[j].uisp # l
         /\ Matching(p, l, a, b) = {} => \A i \in DOMAIN links : links[i].uisp # l
         /\ Matching(p, l, a, b) = {} /\ Distinct(mem[p].ls) =>
              \A i \in DOMAIN links : Both(links[i].ends) # Both(<<a, b>>)
<1> DEFINE same == {i \in DOMAIN links : links[i].uisp = l}
<1>1. Matching(p, l, a, b) = IF same # {} THEN same ELSE Orphans(p, a, b)
  BY DEF Matching
<1>2. \A i \in DOMAIN links : Joins(devices, links[i].ends, links[i].uisp) /\ links[i].ends \in Nat \X Nat
  BY DEF Inv, IsLink, LinkRow
<1>3. \A i \in same : Both(links[i].ends) = Both(<<a, b>>) /\ links[i].uisp = l
  BY <1>2, SameEnds DEF Alone
<1>4. \A i \in Orphans(p, a, b) : Both(links[i].ends) = Both(<<a, b>>)
  BY DEF Orphans, Both
<1>5. ASSUME NEW i \in DOMAIN links, Both(links[i].ends) = Both(<<a, b>>), links[i].uisp # l, Distinct(mem[p].ls)
      PROVE  i \in Orphans(p, a, b)
  <2>1. links[i].ends \in {<<a, b>>, <<b, a>>}
    <3>1. PICK x \in Nat, y \in Nat : links[i].ends = <<x, y>>
      BY <1>2
    <3>2. {x, y} = {a, b}
      BY <1>5, <3>1 DEF Both
    <3> QED BY <3>1, <3>2
  <2>2. EndsOf(links[i].uisp) = EndsOf(l)
    BY <1>2, <1>5, SameEnds
  <2>3. links[i].uisp \notin mem[p].ls
    BY <1>5, <2>2 DEF Distinct
  <2> QED BY <2>1, <2>3 DEF Orphans
<1> QED BY <1>1, <1>3, <1>4, <1>5

LEMMA AloneFindEnds == ASSUME Inv, AloneInv, NEW p \in Importer, FindEnds(p) PROVE AloneInv'
<1>1. IsMemory(mem[p]) /\ pc[p] = "links" /\ pc = [pc EXCEPT ![p] = "links"]
  BY Remembered DEF FindEnds, Inv, TablesOK
<1>2. UNCHANGED <<uisp, notified, overlap, meshdb>> /\ pc[p] # "idle"
  BY DEF FindEnds
<1>3. PICK l \in mem[p].todo :
        \/ /\ mem' = [mem EXCEPT ![p].todo = @ \ {l}]
           /\ UNCHANGED pc
        \/ /\ mem' = [mem EXCEPT ![p] = NoMemory]
           /\ Goto(p, "idle")
        \/ /\ \E e : mem' = [mem EXCEPT ![p].todo = @ \ {l}, ![p].at = l, ![p].ends = e]
           /\ Goto(p, "findLink")
  BY DEF FindEnds
<1>4. Alone => mem[p].ls \subseteq ULink /\ mem[p].todo \subseteq mem[p].ls
               /\ (~redundant => Distinct(mem[p].ls))
  BY <1>1 DEF Alone, Sole
<1>5. ASSUME mem' = [mem EXCEPT ![p].todo = @ \ {l}], UNCHANGED pc
      PROVE  AloneInv'
  <2> DEFINE m == [mem[p] EXCEPT !.todo = @ \ {l}]
  <2>1. IsMemory(m) /\ m.todo = mem[p].todo \ {l} /\ m.ls = mem[p].ls
    BY <1>1 DEF IsMemory, Field
  <2>2. mem' = [mem EXCEPT ![p] = m] /\ pc' = [pc EXCEPT ![p] = "links"]
    BY <1>1, <1>5
  <2> HIDE DEF m
  <2>3. Alone => Sole("links", m)
    BY <1>4, <2>1 DEF Sole
  <2> QED BY <1>2, <2>2, <2>3, AloneQuiet
<1>6. ASSUME mem' = [mem EXCEPT ![p] = NoMemory], Goto(p, "idle")
      PROVE  AloneInv'
  <2>1. Sole("idle", NoMemory)
    BY DEF Sole
  <2>2. pc' = [pc EXCEPT ![p] = "idle"]
    BY <1>6 DEF Goto
  <2> QED BY <1>2, <1>6, <2>1, <2>2, AloneQuiet
<1>7. ASSUME NEW e, mem' = [mem EXCEPT ![p].todo = @ \ {l}, ![p].at = l, ![p].ends = e],
             Goto(p, "findLink")
      PROVE  AloneInv'
  <2> DEFINE m == [mem[p] EXCEPT !.todo = @ \ {l}, !.at = l, !.ends = e]
  <2>1. mem' = [mem EXCEPT ![p] = m] /\ pc' = [pc EXCEPT ![p] = "findLink"]
    BY <1>7 DEF Goto
  <2>2. m.ls = mem[p].ls /\ m.todo = mem[p].todo \ {l} /\ m.at = l
    BY <1>1 DEF IsMemory, Field
  <2> HIDE DEF m
  <2>3. Alone => Sole("findLink", m)
    BY <1>4, <2>2 DEF Sole
  <2> QED BY <1>2, <2>1, <2>3, AloneQuiet
<1> QED BY <1>3, <1>5, <1>6, <1>7

LEMMA AloneLookUpLink == ASSUME Inv, AloneInv, NEW p \in Importer, LookUpLink(p) PROVE AloneInv'
<1>1. IsMemory(mem[p]) /\ Holding("findLink", mem[p]) /\ pc[p] = "findLink"
  BY Remembered DEF LookUpLink
<1>2. UNCHANGED <<uisp, overlap, devices, links, los>> /\ redundant' = redundant
  BY DEF LookUpLink, meshdb, uisp
<1>3. PICK r : r = mem[p]
  OBVIOUS
<1>4. PICK F : F = Matching(p, r.at, r.ends[1], r.ends[2])
  OBVIOUS
<1>5. /\ mem' = [mem EXCEPT ![p].rows = [i \in F |-> links[i]]]
      /\ notified' = (notified \/ \E i, j \in F : i # j)
      /\ Goto(p, IF F = {} THEN "createLink" ELSE "updateLink")
  BY <1>3, <1>4 DEF LookUpLink
<1>6. PICK m : m = [r EXCEPT !.rows = [i \in F |-> links[i]]]
  OBVIOUS
<1>7. PICK s : s = IF F = {} THEN "createLink" ELSE "updateLink"
  OBVIOUS
<1>8. mem' = [mem EXCEPT ![p] = m] /\ pc' = [pc EXCEPT ![p] = s]
  BY <1>3, <1>5, <1>6, <1>7 DEF Goto
<1>9. DOMAIN m.rows = F /\ m.ls = r.ls /\ m.todo = r.todo /\ m.at = r.at /\ m.ends = r.ends
  BY <1>1, <1>3, <1>6 DEF IsMemory, Field
<1>10. r.ends \in Nat \X Nat /\ Joins(devices, r.ends, r.at)
  BY <1>1, <1>3 DEF Holding
<1>11. r.ends = <<r.ends[1], r.ends[2]>>
  BY <1>10
<1>12. Joins(devices, <<r.ends[1], r.ends[2]>>, r.at)
  BY <1>10, <1>11
<1> SUFFICES ASSUME Alone PROVE OneDevice' /\ IdsOnce' /\ PairsOnce' /\ OneSight' /\ Sole(s, m)'
  BY <1>1, <1>2, <1>8, AloneStep
<1>13. r.ls \subseteq ULink /\ r.todo \subseteq r.ls /\ (~redundant => Distinct(r.ls)) /\ r.at \in r.ls
  BY <1>1, <1>3 DEF Alone, Sole
<1>14. /\ \A i \in F : /\ Both(links[i].ends) = Both(r.ends)
                       /\ links[i].uisp = r.at \/ \A j \in DOMAIN links : links[j].uisp # r.at
       /\ F = {} => \A i \in DOMAIN links : links[i].uisp # r.at
       /\ F = {} /\ ~redundant => \A i \in DOMAIN links : Both(links[i].ends) # Both(r.ends)
  <2>1. \A a, b, l : l \in mem[p].ls /\ Joins(devices, <<a, b>>, l) =>
          /\ \A i \in Matching(p, l, a, b) :
               /\ Both(links[i].ends) = Both(<<a, b>>)
               /\ links[i].uisp = l \/ \A j \in DOMAIN links : links[j].uisp # l
          /\ Matching(p, l, a, b) = {} => \A i \in DOMAIN links : links[i].uisp # l
          /\ Matching(p, l, a, b) = {} /\ Distinct(mem[p].ls) =>
               \A i \in DOMAIN links : Both(links[i].ends) # Both(<<a, b>>)
    BY Finds
  <2> QED BY <1>3, <1>4, <1>11, <1>12, <1>13, <2>1
<1>15. ~notified' => \A i, j \in F : i = j
  BY <1>5
<1>16. OneDevice' /\ IdsOnce' /\ PairsOnce' /\ OneSight'
  BY <1>2, <1>5 DEF Alone, OneDevice, OneId, OnePair, OneSight, IdsOnce, PairsOnce
<1>17. Sole(s, m)'
  <2>1. s \in {"createLink", "updateLink"} /\ (s = "createLink" <=> F = {})
    BY <1>7
  <2> QED BY <1>2, <1>9, <1>13, <1>14, <1>15, <2>1 DEF Sole
<1> QED BY <1>16, <1>17

LEMMA AloneUpdateLink == ASSUME Inv, AloneInv, NEW p \in Importer, UpdateLink(p) PROVE AloneInv'
<1>1. mem' = mem /\ mem = [mem EXCEPT ![p] = mem[p]]
  BY Remembered DEF UpdateLink
<1>2. PICK m : m = mem[p]
  OBVIOUS
<1>3. mem' = [mem EXCEPT ![p] = m] /\ pc' = [pc EXCEPT ![p] = "links"]
      /\ pc[p] = "updateLink" /\ UNCHANGED <<uisp, notified, overlap, devices, los>> /\ DOMAIN links' = DOMAIN links
  BY <1>1, <1>2, UpdatesLinks DEF UpdateLink, Goto
<1>4. PICK active, seen : \A i \in DOMAIN links :
        \/ links'[i] = links[i]
        \/ i \in DOMAIN m.rows /\ links'[i] = UpdatedLink(links[i], m.at, m.ends, active, seen)
  BY <1>2, UpdatesLinks
<1> SUFFICES ASSUME Alone PROVE OneDevice' /\ IdsOnce' /\ PairsOnce' /\ OneSight' /\ Sole("links", m)'
  BY <1>3, AloneStep
<1>5. Sole("updateLink", m)
  BY <1>2, <1>3 DEF Alone
<1>6. \A i \in DOMAIN m.rows :
       /\ Both(links[i].ends) = Both(m.ends)
       /\ links[i].uisp = m.at \/ \A j \in DOMAIN links : links[j].uisp # m.at
  BY <1>5 DEF Sole
<1>7. \A i \in DOMAIN links : LET new == UpdatedLink(links[i], m.at, m.ends, active, seen) IN
        new.uisp = m.at /\ new.ends \in {links[i].ends, m.ends}
  BY DEF UpdatedLink
<1>8. \A i \in DOMAIN links : Both(links'[i].ends) = Both(links[i].ends)
  BY <1>4, <1>6, <1>7
<1>9. \A i \in DOMAIN links :
        \/ links'[i].uisp = links[i].uisp
        \/ i \in DOMAIN m.rows /\ links'[i].uisp = m.at
  BY <1>4, <1>7
<1>10. PairsOnce'
  BY <1>3, <1>8 DEF Alone, PairsOnce, OnePair, uisp
<1>11. IdsOnce'
  <2> SUFFICES ASSUME ~notified, NEW i \in DOMAIN links, NEW j \in DOMAIN links,
                      links'[i].uisp = links'[j].uisp
               PROVE  i = j
    BY <1>3 DEF IdsOnce, OneId
  <2>1. OneId
    BY DEF Alone, IdsOnce
  <2>2. CASE links'[i].uisp = links[i].uisp /\ links'[j].uisp = links[j].uisp
    BY <2>1, <2>2 DEF OneId
  <2>3. CASE i \in DOMAIN m.rows /\ j \in DOMAIN m.rows
    BY <1>5, <2>3 DEF Sole
  <2>4. CASE i \in DOMAIN m.rows /\ links'[i].uisp = m.at /\ links'[j].uisp = links[j].uisp
    BY <1>6, <2>1, <2>4 DEF OneId
  <2>5. CASE j \in DOMAIN m.rows /\ links'[j].uisp = m.at /\ links'[i].uisp = links[i].uisp
    BY <1>6, <2>1, <2>5 DEF OneId
  <2> QED BY <1>9, <2>2, <2>3, <2>4, <2>5
<1>12. OneDevice' /\ OneSight'
  BY <1>3 DEF Alone, OneDevice, OneSight
<1>13. Sole("links", m)'
  BY <1>3, <1>5 DEF Sole, uisp
<1> QED BY <1>10, <1>11, <1>12, <1>13

LEMMA AloneCreateLink == ASSUME Inv, AloneInv, NEW p \in Importer, CreateLink(p) PROVE AloneInv'
<1>1. mem' = mem /\ mem = [mem EXCEPT ![p] = mem[p]] /\ links \in Seq(LinkRow)
  BY Remembered DEF CreateLink
<1>2. PICK m : m = mem[p]
  OBVIOUS
<1> DEFINE e == [uisp |-> m.at, ends |-> m.ends, abandon |-> Null,
                 status |-> IF m.at \in m.up THEN "Active" ELSE "Inactive"]
<1>3. mem' = [mem EXCEPT ![p] = m] /\ pc' = [pc EXCEPT ![p] = "links"]
      /\ pc[p] = "createLink" /\ UNCHANGED <<uisp, notified, overlap, devices, los>> /\ links' = Append(links, e)
  BY <1>1, <1>2 DEF CreateLink, Goto
<1>4. e.uisp = m.at /\ e.ends = m.ends
  OBVIOUS
<1> HIDE DEF e
<1>5. /\ DOMAIN links' = DOMAIN links \cup {Len(links) + 1}
      /\ \A i \in DOMAIN links : links'[i] = links[i]
      /\ links'[Len(links) + 1] = e
  BY <1>1, <1>3
<1> SUFFICES ASSUME Alone PROVE OneDevice' /\ IdsOnce' /\ PairsOnce' /\ OneSight' /\ Sole("links", m)'
  BY <1>3, AloneStep
<1>6. Sole("createLink", m)
  BY <1>2, <1>3 DEF Alone
<1>7. \A i \in DOMAIN links : links[i].uisp # m.at /\ (~redundant => Both(links[i].ends) # Both(m.ends))
  BY <1>6 DEF Sole
<1>8. IdsOnce' /\ PairsOnce'
  <2>1. notified' = notified /\ redundant' = redundant
    BY <1>3 DEF uisp
  <2>2. OneId => OneId'
    BY <1>4, <1>5, <1>7 DEF OneId
  <2>3. OnePair /\ ~redundant => OnePair'
    BY <1>4, <1>5, <1>7 DEF OnePair
  <2> QED BY <2>1, <2>2, <2>3 DEF Alone, IdsOnce, PairsOnce
<1>9. OneDevice' /\ OneSight'
  BY <1>3 DEF Alone, OneDevice, OneSight
<1>10. Sole("links", m)'
  BY <1>3, <1>6 DEF Sole, uisp
<1> QED BY <1>8, <1>9, <1>10

LEMMA AloneSweepLinks == ASSUME Inv, AloneInv, NEW p \in Importer, SweepLinks(p) PROVE AloneInv'
<1> DEFINE R == [i \in LostLinks(p) |-> links[i]]
           m == [mem[p] EXCEPT !.rows = R]
<1>1. IsMemory(mem[p])
  BY Remembered
<1>2. m.rows = R
  BY <1>1 DEF IsMemory, Field
<1>3. mem' = [mem EXCEPT ![p] = m] /\ pc' = [pc EXCEPT ![p] = "sweepLinks"]
      /\ pc[p] # "idle" /\ UNCHANGED <<uisp, notified, overlap, meshdb>>
  BY DEF SweepLinks, Goto
<1> HIDE DEF m
<1>4. Sole("sweepLinks", m)
  BY <1>2 DEF Sole
<1> QED BY <1>3, <1>4, AloneQuiet

LEMMA AloneSaveLostLinks == ASSUME Inv, AloneInv, NEW p \in Importer, SaveLostLinks(p) PROVE AloneInv'
<1>1. mem' = mem /\ mem = [mem EXCEPT ![p] = mem[p]] /\ Holding("sweepLinks", mem[p])
  BY Remembered DEF SaveLostLinks
<1>2. PICK m : m = mem[p]
  OBVIOUS
<1>3. /\ mem' = [mem EXCEPT ![p] = m] /\ pc' = [pc EXCEPT ![p] = "sights"]
      /\ pc[p] = "sweepLinks" /\ UNCHANGED <<uisp, notified, overlap, devices, los>>
      /\ links' = [i \in DOMAIN links |-> IF i \in DOMAIN m.rows THEN [m.rows[i] EXCEPT !.status = "Inactive"]
                                          ELSE links[i]]
  BY <1>1, <1>2 DEF SaveLostLinks, Goto
<1>4. \A i \in DOMAIN m.rows : m.rows[i] \in LinkRow
  BY <1>1, <1>2 DEF Holding, IsLink
<1>5. \A row \in LinkRow : [row EXCEPT !.status = "Inactive"].uisp = row.uisp
                           /\ [row EXCEPT !.status = "Inactive"].ends = row.ends
  BY DEF LinkRow
<1> SUFFICES ASSUME Alone PROVE OneDevice' /\ IdsOnce' /\ PairsOnce' /\ OneSight' /\ Sole("sights", m)'
  BY <1>3, AloneStep
<1>6. \A i \in DOMAIN m.rows : m.rows[i].uisp = links[i].uisp /\ m.rows[i].ends = links[i].ends
  BY <1>2, <1>3 DEF Alone, Sole
<1>7. \A i \in DOMAIN links : links'[i].uisp = links[i].uisp /\ links'[i].ends = links[i].ends
  BY <1>3, <1>4, <1>5, <1>6
<1>8. DOMAIN links' = DOMAIN links
  BY <1>3
<1>9. IdsOnce' /\ PairsOnce'
  <2>1. notified' = notified /\ redundant' = redundant
    BY <1>3 DEF uisp
  <2>2. OneId => OneId'
    BY <1>7, <1>8 DEF OneId
  <2>3. \A i \in DOMAIN links : Both(links'[i].ends) = Both(links[i].ends)
    BY <1>7
  <2>4. OnePair => OnePair'
    BY <1>8, <2>3 DEF OnePair
  <2> QED BY <2>1, <2>2, <2>4 DEF Alone, IdsOnce, PairsOnce
<1>10. OneDevice' /\ OneSight'
  BY <1>3 DEF Alone, OneDevice, OneSight
<1>11. Sole("sights", m)'
  BY DEF Sole
<1> QED BY <1>9, <1>10, <1>11

LEMMA AloneSyncSight == ASSUME Inv, AloneInv, NEW p \in Importer, SyncSight(p) PROVE AloneInv'
<1>0. PICK r : r = mem[p]
  OBVIOUS
<1>1. IsMemory(r) /\ Holding("los", r) /\ los \in Seq(LosRow) /\ today \in Day
  BY <1>0, Remembered DEF SyncSight
<1> DEFINE F(i) == IF Sighted(p, r.rows[i]) THEN Sights(Pair(r.rows[i])) ELSE {}
<1>2. PICK i \in r.todo :
        /\ los' = [k \in DOMAIN los |-> IF k \in F(i) THEN Resighted(los[k], r.rows[i]) ELSE los[k]]
        /\ mem' = [mem EXCEPT ![p].todo = @ \ {i}, ![p].at = i, ![p].pair = Pair(r.rows[i])]
        /\ Goto(p, IF Sighted(p, r.rows[i]) /\ F(i) = {} THEN "createLos" ELSE "los")
  BY <1>0 DEF SyncSight
<1>3. IsLink(r.rows[i])
  BY <1>1 DEF Holding
<1>4. \A k \in DOMAIN los : los'[k].pair = los[k].pair
  <2> SUFFICES ASSUME NEW k \in DOMAIN los PROVE los'[k].pair = los[k].pair
    OBVIOUS
  <2>1. Resighted(los[k], r.rows[i]).pair = los[k].pair
    BY <1>1, <1>3, ResightedType
  <2> QED BY <1>2, <2>1
<1>5. DOMAIN los' = DOMAIN los
  BY <1>2
<1>6. PICK b : b = Pair(r.rows[i])
  OBVIOUS
<1> DEFINE m == [r EXCEPT !.todo = @ \ {i}, !.at = i, !.pair = b]
<1>7. PICK s : s = IF Sighted(p, r.rows[i]) /\ F(i) = {} THEN "createLos" ELSE "los"
  OBVIOUS
<1>8. mem' = [mem EXCEPT ![p] = m] /\ pc' = [pc EXCEPT ![p] = s]
  BY <1>0, <1>2, <1>6, <1>7 DEF Goto
<1>9. m.pair = b
  BY <1>1 DEF IsMemory, Field
<1> HIDE DEF m
<1>10. PICK n : n = m
  OBVIOUS
<1>11. Sole(s, n)'
  <2>1. s = "createLos" => \A k \in DOMAIN los : los[k].pair # b
    BY <1>6, <1>7 DEF Sights
  <2>2. s = "createLos" => \A k \in DOMAIN los' : los'[k].pair # n.pair
    BY <1>4, <1>5, <1>9, <1>10, <2>1
  <2>3. s \in {"createLos", "los"}
    BY <1>7
  <2> QED BY <2>2, <2>3 DEF Sole
<1>12. pc[p] # "idle" /\ UNCHANGED <<uisp, notified, overlap, devices, links>>
  BY DEF SyncSight
<1>13. Alone => OneDevice' /\ IdsOnce' /\ PairsOnce' /\ OneSight'
  BY <1>4, <1>5, <1>12 DEF Alone, OneDevice, OneId, OnePair, OneSight, IdsOnce, PairsOnce, uisp
<1> QED BY <1>8, <1>10, <1>11, <1>12, <1>13, AloneStep

LEMMA AloneCreateSight == ASSUME Inv, AloneInv, NEW p \in Importer, CreateSight(p) PROVE AloneInv'
<1>1. mem' = mem /\ mem = [mem EXCEPT ![p] = mem[p]] /\ los \in Seq(LosRow)
  BY Remembered DEF CreateSight
<1>2. PICK m : m = mem[p]
  OBVIOUS
<1> DEFINE e == [pair |-> m.pair, source |-> "Existing Link", date |-> FunctioningDate(m.rows[m.at])]
<1>3. mem' = [mem EXCEPT ![p] = m] /\ pc' = [pc EXCEPT ![p] = "los"]
      /\ pc[p] = "createLos" /\ UNCHANGED <<uisp, notified, overlap, devices, links>> /\ los' = Append(los, e)
  BY <1>1, <1>2 DEF CreateSight, Goto
<1>4. e.pair = m.pair
  OBVIOUS
<1> HIDE DEF e
<1>5. /\ DOMAIN los' = DOMAIN los \cup {Len(los) + 1}
      /\ \A i \in DOMAIN los : los'[i] = los[i]
      /\ los'[Len(los) + 1] = e
  BY <1>1, <1>3
<1> SUFFICES ASSUME Alone PROVE OneDevice' /\ IdsOnce' /\ PairsOnce' /\ OneSight' /\ Sole("los", m)'
  BY <1>3, AloneStep
<1>6. \A i \in DOMAIN los : los[i].pair # m.pair
  BY <1>2, <1>3 DEF Alone, Sole
<1>7. OneSight'
  BY <1>4, <1>5, <1>6 DEF Alone, OneSight
<1>8. OneDevice' /\ IdsOnce' /\ PairsOnce'
  BY <1>3 DEF Alone, OneDevice, OneId, OnePair, IdsOnce, PairsOnce, uisp
<1>9. Sole("los", m)'
  BY DEF Sole
<1> QED BY <1>7, <1>8, <1>9

(* The steps after which an import has nothing to hold.                    *)
LEMMA AloneEnd ==
  ASSUME Inv, AloneInv, NEW p \in Importer,
         SweepDevices(p) \/ ReadLinks(p) \/ EndSights(p) \/ Finish(p) \/ Fail(p)
  PROVE  AloneInv'
<1>1. mem = [mem EXCEPT ![p] = mem[p]]
  BY Remembered
<1>2. PICK s \in {"sweep", "los", "finish", "idle"} : pc' = [pc EXCEPT ![p] = s]
  BY DEF SweepDevices, ReadLinks, EndSights, Finish, Fail, Goto
<1>3. PICK m : mem' = [mem EXCEPT ![p] = m]
  <2>1. CASE SweepDevices(p)
    <3>1. mem' = [mem EXCEPT ![p] = [mem[p] EXCEPT !.rows = [i \in Lost(p) |-> devices[i]]]]
      BY <2>1 DEF SweepDevices
    <3> QED BY <3>1
  <2>2. CASE ReadLinks(p) \/ Finish(p) \/ Fail(p)
    BY <2>2 DEF ReadLinks, Finish, Fail
  <2>3. CASE EndSights(p)
    BY <1>1, <2>3 DEF EndSights
  <2> QED BY <2>1, <2>2, <2>3
<1>4. pc[p] # "idle" /\ UNCHANGED <<uisp, notified, overlap, meshdb>>
  BY DEF SweepDevices, ReadLinks, EndSights, Finish, Fail
<1>5. Sole(s, m)
  BY <1>2 DEF Sole
<1> QED BY <1>2, <1>3, <1>4, <1>5, AloneQuiet

LEMMA AloneChange ==
  ASSUME Inv, AloneInv,
         UNCHANGED vars \/ (\E d \in UDev : ChangeDevice(d)) \/ (\E l \in ULink : ChangeLink(l)) \/ NextDay
  PROVE  AloneInv'
<1>1. UNCHANGED <<devices, links, los, pc, mem, notified, overlap>> /\ (redundant => redundant')
  <2>1. CASE UNCHANGED vars
    BY <2>1 DEF vars, uisp, meshdb
  <2>2. ASSUME NEW d \in UDev, ChangeDevice(d)
        PROVE  UNCHANGED <<devices, links, los, pc, mem, notified, overlap, redundant>>
    BY <2>2 DEF ChangeDevice, Change, meshdb
  <2>3. ASSUME NEW l \in ULink, ChangeLink(l)
        PROVE  UNCHANGED <<devices, links, los, pc, mem, notified, overlap>> /\ (redundant => redundant')
    <3>1. UNCHANGED <<devices, links, los, pc, mem, notified, overlap>>
      BY <2>3 DEF ChangeLink, Change, meshdb
    <3>2. redundant' = (redundant \/ RedundantLinks(ulink'))
      BY <2>3 DEF ChangeLink
    <3> QED BY <3>1, <3>2
  <2>4. CASE NextDay
    BY <2>4 DEF NextDay, meshdb
  <2> QED BY <2>1, <2>2, <2>3, <2>4
<1>2. (~redundant => Distinct(Present))'
  <2>1. ASSUME NEW l \in ULink, ChangeLink(l), ~redundant' PROVE Distinct(Present)'
    <3>1. ~RedundantLinks(ulink')
      BY <2>1 DEF ChangeLink
    <3>2. Distinct({k \in ULink : ulink'[k] # "absent"})
      BY <3>1, OneAtATime
    <3> QED BY <3>2 DEF Present
  <2>2. CASE UNCHANGED <<ulink, redundant>>
    BY <2>2 DEF AloneInv, Present, Distinct
  <2> QED BY <2>1, <2>2 DEF vars, uisp, ChangeDevice, NextDay
<1>3. Alone => Alone'
  BY <1>1 DEF Alone, OneDevice, OneId, OnePair, OneSight, IdsOnce, PairsOnce, Sole
<1> QED BY <1>1, <1>2, <1>3 DEF AloneInv

LEMMA NextAlone == Inv /\ AloneInv /\ [Next]_vars => AloneInv'
<1> SUFFICES ASSUME Inv, AloneInv, [Next]_vars PROVE AloneInv'
  OBVIOUS
<1>1. ASSUME NEW p \in Importer,
             FetchDevices(p) \/ LookUpDevice(p) \/ UpdateDevice(p) \/ CreateDevice(p) \/ SaveLostDevices(p)
      PROVE  AloneInv'
  BY <1>1, AloneFetchDevices, AloneLookUpDevice, AloneUpdateDevice, AloneCreateDevice, AloneSaveLostDevices
<1>2. ASSUME NEW p \in Importer,
             FetchLinks(p) \/ FindEnds(p) \/ LookUpLink(p) \/ UpdateLink(p) \/ CreateLink(p)
               \/ SweepLinks(p) \/ SaveLostLinks(p)
      PROVE  AloneInv'
  BY <1>2, AloneFetchLinks, AloneFindEnds, AloneLookUpLink, AloneUpdateLink, AloneCreateLink,
     AloneSweepLinks, AloneSaveLostLinks
<1>3. ASSUME NEW p \in Importer, SyncSight(p) \/ CreateSight(p) PROVE AloneInv'
  BY <1>3, AloneSyncSight, AloneCreateSight
<1> QED BY <1>1, <1>2, <1>3, AloneEnd, AloneChange DEF Next

(* As long as imports run one after the other, whatever fails and whatever *)
(* UISP changes: a device is one row and so is a line of sight; an id of a *)
(* link is on one row unless the administrators have been told that it may *)
(* be on several; two devices are joined by one row unless they have had   *)
(* redundant links (sync_handlers.py l.92-96, l.254-292, l.308,            *)
(* l.376-380).                                                             *)
THEOREM ObjectsAreOneRow == Spec => []OneRow
<1>1. Init => Inv /\ AloneInv
  BY InitInv, InitAlone
<1>2. (Inv /\ AloneInv) /\ [Next]_vars => (Inv /\ AloneInv)'
  BY NextInv, NextAlone
<1>3. AloneInv => OneRow
  BY TidyTables DEF AloneInv, Alone, IdsOnce, PairsOnce, OneRow
<1> QED BY <1>1, <1>2, <1>3, PTL DEF Spec

-----------------------------------------------------------------------------
(***************************************************************************)
(* What an import that is alone has done so far.  UISP stays as it is and  *)
(* nobody else writes, so what a pass has brought into MeshDB stays as it  *)
(* is until the import ends.                                               *)
(***************************************************************************)
Lone(p) == \A q \in Importer \ {p} : pc[q] = "idle"

DevicesMirrored(p) == \A d \in UDev : Wanted(p, d) => DeviceMirrored(d)

DevicesDone(p) ==
  /\ DevicesMirrored(p)
  /\ \A i \in DOMAIN devices : udev[devices[i].uisp] = Null => devices[i].status = "Inactive"

DevicesSoFar(p, s, m) ==
  /\ s \in {"devices", "update", "create", "sweep"} => m.devs = udev
  /\ s \in {"devices", "update", "create"} =>
       \A d \in UDev : Wanted(p, d) => \/ d \in m.todo \/ DeviceMirrored(d)
                                       \/ s # "devices" /\ d = m.at
  /\ s = "update" => DOMAIN m.rows = Existing(m.at) /\ Existing(m.at) # {}
  /\ s = "sweep" =>
       /\ DevicesMirrored(p)
       /\ \A i \in DOMAIN m.rows : m.rows[i] = devices[i] /\ udev[devices[i].uisp] = Null
       /\ \A i \in DOMAIN devices :
            udev[devices[i].uisp] = Null /\ devices[i].status # "Inactive" => i \in DOMAIN m.rows
  /\ s \notin {"devices", "update", "create", "sweep"} => DevicesDone(p)

(* A link whose devices are there once, and of the wanted number.          *)
Due(p, l) ==
  /\ ulink[l] # "absent" /\ \A k \in {1, 2} : Cardinality(Existing(Ends[l][k])) = 1
  /\ Target[p] # Null => \E k \in {1, 2} : \E i \in Existing(Ends[l][k]) : devices[i].nn = Target[p]

LinksMirrored(p) == \A l \in ULink : Due(p, l) => LinkMirrored(l)

LinksDone(p) ==
  /\ LinksMirrored(p)
  /\ \A i \in DOMAIN links : ulink[links[i].uisp] = "absent" => links[i].status # "Active"

LinksSoFar(p, s, m) ==
  /\ s \in {"links", "findLink", "updateLink", "createLink"} =>
       /\ m.ls = Present /\ m.up = {l \in ULink : ulink[l] = "active"}
       /\ \A l \in m.todo : ulink[l] # "absent"
       /\ \A l \in ULink : Due(p, l) => \/ l \in m.todo \/ LinkMirrored(l)
                                        \/ s # "links" /\ l = m.at
  /\ s \in {"findLink", "updateLink", "createLink"} => ulink[m.at] # "absent"
  /\ s = "updateLink" =>
       /\ DOMAIN m.rows # {}
       /\ \A i \in DOMAIN m.rows : links[i].uisp = m.at \/ ulink[links[i].uisp] = "absent"
  /\ s = "sweepLinks" =>
       /\ LinksMirrored(p)
       /\ \A i \in DOMAIN m.rows : m.rows[i] = links[i] /\ ulink[links[i].uisp] = "absent"
       /\ \A i \in DOMAIN links :
            ulink[links[i].uisp] = "absent" /\ links[i].status = "Active" => i \in DOMAIN m.rows
  /\ s \in {"sights", "los", "createLos", "finish"} => LinksDone(p)

(* The last days of the links among I between the buildings of a pair.     *)
Between(p, I, pair) == {i \in I : Sighted(p, links[i]) /\ Pair(links[i]) = pair}

Dates(p, I, pair) == {FunctioningDate(links[i]) : i \in Between(p, I, pair)} \ {Null}

Followed(p, I) ==
  \A i \in I : Sighted(p, links[i]) =>
    /\ Sights(Pair(links[i])) # {}
    /\ \A k \in Sights(Pair(links[i])) :
         /\ links[i].status = "Active" => los[k].source = "Existing Link"
         /\ los[k].source = "Existing Link" =>
              los[k].date \in Dates(p, I, Pair(links[i])) \/ Dates(p, I, Pair(links[i])) = {}

SightsSoFar(p, s, m) ==
  /\ s \in {"los", "createLos"} => m.rows = links
  /\ s = "los" => Followed(p, DOMAIN links \ m.todo)
  /\ s = "createLos" =>
       /\ m.at \in DOMAIN links /\ m.at \notin m.todo /\ m.pair = Pair(links[m.at])
       /\ Sighted(p, links[m.at]) /\ Sights(m.pair) = {}
       /\ Followed(p, DOMAIN links \ (m.todo \cup {m.at}))
  /\ s = "finish" => Followed(p, DOMAIN links)

SoFar(p, s, m) == DevicesSoFar(p, s, m) /\ LinksSoFar(p, s, m) /\ SightsSoFar(p, s, m)

ProgressInv ==
  \A p \in Importer : steady[p] /\ pc[p] # "idle" => Lone(p) /\ SoFar(p, pc[p], mem[p])

(* A step of an import: that it is for is what it was for.                 *)
LEMMA ProgressStep ==
  ASSUME Inv, ProgressInv, NEW p \in Importer, pc[p] # "idle", NEW s, NEW m,
         pc' = [pc EXCEPT ![p] = s], mem' = [mem EXCEPT ![p] = m], UNCHANGED <<uisp, steady>>,
         s = "idle" \/ (SoFar(p, pc[p], mem[p]) => SoFar(p, s, m)')
  PROVE  ProgressInv'
<1> SUFFICES ASSUME NEW q \in Importer, steady'[q], pc'[q] # "idle"
             PROVE  Lone(q)' /\ SoFar(q, pc[q], mem[q])'
  BY DEF ProgressInv
<1>1. pc'[p] = s /\ mem'[p] = m /\ \A r \in Importer \ {p} : pc'[r] = pc[r]
  BY DEF Inv, TablesOK, Shape
<1>2. q = p
  <2> SUFFICES ASSUME q # p PROVE FALSE
    OBVIOUS
  <2>1. steady[q] /\ pc[q] # "idle"
    BY <1>1
  <2> QED BY <2>1 DEF ProgressInv, Lone
<1>3. steady[p] /\ Lone(p) /\ SoFar(p, pc[p], mem[p])
  BY <1>2 DEF ProgressInv
<1>4. Lone(p)'
  BY <1>1, <1>3 DEF Lone
<1>5. SoFar(p, s, m)'
  BY <1>1, <1>2, <1>3
<1> QED BY <1>1, <1>2, <1>4, <1>5

(* While devices and UISP stay, so does what is so of them.                *)
LEMMA DevicesStay ==
  ASSUME UNCHANGED <<uisp, devices>>, NEW p
  PROVE  /\ \A d : (Wanted(p, d) <=> Wanted(p, d)') /\ (DeviceMirrored(d) <=> DeviceMirrored(d)')
         /\ DevicesMirrored(p) <=> DevicesMirrored(p)'
         /\ DevicesDone(p) <=> DevicesDone(p)'
         /\ \A l : Due(p, l) <=> Due(p, l)'
         /\ \A d : Existing(d)' = Existing(d)
         /\ Present' = Present
<1>1. UNCHANGED <<today, udev, ulink, devices>>
  BY DEF uisp
<1>2. \A d : Existing(d)' = Existing(d)
  BY <1>1 DEF Existing
<1>3. \A d : (Wanted(p, d) <=> Wanted(p, d)') /\ (DeviceMirrored(d) <=> DeviceMirrored(d)')
  BY <1>1, <1>2 DEF Wanted, DeviceMirrored
<1>4. DevicesMirrored(p) <=> DevicesMirrored(p)'
  BY <1>3 DEF DevicesMirrored
<1>5. DevicesDone(p) <=> DevicesDone(p)'
  BY <1>1, <1>4 DEF DevicesDone
<1>6. \A l : Due(p, l) <=> Due(p, l)'
  BY <1>1, <1>2 DEF Due
<1>7. Present' = Present
  BY <1>1 DEF Present
<1> QED BY <1>2, <1>3, <1>4, <1>5, <1>6, <1>7

LEMMA LinksStay ==
  ASSUME UNCHANGED <<uisp, devices, links>>, NEW p
  PROVE  /\ \A l : LinkMirrored(l) <=> LinkMirrored(l)'
         /\ LinksMirrored(p) <=> LinksMirrored(p)'
         /\ LinksDone(p) <=> LinksDone(p)'
<1>1. UNCHANGED <<today, udev, ulink, devices, links>>
  BY DEF uisp
<1>2. \A l : LinkMirrored(l) <=> LinkMirrored(l)'
  BY <1>1 DEF LinkMirrored
<1>3. LinksMirrored(p) <=> LinksMirrored(p)'
  BY <1>2, DevicesStay DEF LinksMirrored
<1> QED BY <1>1, <1>2, <1>3 DEF LinksDone

LEMMA ProgressFetchDevices == ASSUME Inv, NEW p \in Importer, FetchDevices(p) PROVE ProgressInv'
<1>1. IsMemory(mem[p])
  BY Remembered
<1>2. PICK m : m = [mem[p] EXCEPT !.devs = udev, !.todo = {d \in UDev : Wanted(p, d)}]
  OBVIOUS
<1>3. m.devs = udev /\ m.todo = {d \in UDev : Wanted(p, d)}
  BY <1>1, <1>2 DEF IsMemory, Field
<1>4. mem' = [mem EXCEPT ![p] = m] /\ pc' = [pc EXCEPT ![p] = "devices"] /\ UNCHANGED <<uisp, devices>>
  BY <1>2 DEF FetchDevices, Goto, meshdb
<1> SUFFICES ASSUME NEW q \in Importer, steady'[q], pc'[q] # "idle"
             PROVE  Lone(q)' /\ SoFar(q, pc[q], mem[q])'
  BY DEF ProgressInv
<1>5. q = p /\ \A r \in Importer : pc[r] = "idle"
  BY DEF FetchDevices
<1>6. pc'[p] = "devices" /\ mem'[p] = m /\ \A r \in Importer \ {p} : pc'[r] = pc[r]
  BY <1>4 DEF Inv, TablesOK, Shape
<1>7. Lone(p)'
  BY <1>5, <1>6 DEF Lone
<1>8. udev' = udev /\ \A d \in UDev : Wanted(p, d)' => d \in m.todo
  BY <1>3, <1>4, DevicesStay DEF uisp
<1>9. DevicesSoFar(p, "devices", m)'
  BY <1>3, <1>8 DEF DevicesSoFar
<1>10. LinksSoFar(p, "devices", m)' /\ SightsSoFar(p, "devices", m)'
  BY DEF LinksSoFar, SightsSoFar
<1> QED BY <1>5, <1>6, <1>7, <1>9, <1>10 DEF SoFar

(* What an import has done of links and of lines of sight before it comes  *)
(* to them is nothing.                                                     *)
LEMMA ProgressDevices ==
  ASSUME Inv, ProgressInv, NEW p \in Importer, pc[p] # "idle",
         NEW s \in {"devices", "update", "create", "sweep", "fetch"}, NEW m,
         pc' = [pc EXCEPT ![p] = s], mem' = [mem EXCEPT ![p] = m], UNCHANGED <<uisp, steady>>,
         DevicesSoFar(p, pc[p], mem[p]) => DevicesSoFar(p, s, m)'
  PROVE  ProgressInv'
<1>1. LinksSoFar(p, s, m)' /\ SightsSoFar(p, s, m)'
  BY DEF LinksSoFar, SightsSoFar
<1>2. SoFar(p, pc[p], mem[p]) => SoFar(p, s, m)'
  BY <1>1 DEF SoFar
<1> QED BY <1>2, ProgressStep

LEMMA ProgressLookUpDevice ==
  ASSUME Inv, ProgressInv, NEW p \in Importer, LookUpDevice(p) PROVE ProgressInv'
<1>1. IsMemory(mem[p]) /\ pc[p] = "devices"
  BY Remembered DEF LookUpDevice
<1>2. PICK d \in mem[p].todo :
        /\ mem' = [mem EXCEPT ![p].todo = @ \ {d}, ![p].at = d,
                              ![p].rows = [i \in Existing(d) |-> devices[i]]]
        /\ Goto(p, IF Existing(d) = {} THEN "create" ELSE "update")
  BY DEF LookUpDevice
<1>3. PICK m : m = [mem[p] EXCEPT !.todo = @ \ {d}, !.at = d, !.rows = [i \in Existing(d) |-> devices[i]]]
  OBVIOUS
<1>4. PICK s : s = IF Existing(d) = {} THEN "create" ELSE "update"
  OBVIOUS
<1>5. m.at = d /\ m.todo = mem[p].todo \ {d} /\ m.devs = mem[p].devs /\ DOMAIN m.rows = Existing(d)
  BY <1>1, <1>3 DEF IsMemory, Field
<1>6. mem' = [mem EXCEPT ![p] = m] /\ pc' = [pc EXCEPT ![p] = s]
  BY <1>2, <1>3, <1>4 DEF Goto
<1>7. s = "create" \/ (s = "update" /\ Existing(d) # {})
  BY <1>4
<1>8. UNCHANGED <<uisp, steady>> /\ UNCHANGED <<uisp, devices>>
  BY DEF LookUpDevice, meshdb
<1>9. udev' = udev /\ Existing(d)' = Existing(d)
  BY <1>8, DevicesStay DEF uisp
<1>10. DevicesSoFar(p, "devices", mem[p]) => DevicesSoFar(p, s, m)'
  <2> SUFFICES ASSUME DevicesSoFar(p, "devices", mem[p]) PROVE DevicesSoFar(p, s, m)'
    OBVIOUS
  <2>1. mem[p].devs = udev
    BY DEF DevicesSoFar
  <2>2. \A e \in UDev : Wanted(p, e)' => (e \in m.todo \/ DeviceMirrored(e)' \/ e = m.at)
    BY <1>5, <1>8, DevicesStay DEF DevicesSoFar
  <2> QED BY <1>5, <1>7, <1>9, <2>1, <2>2 DEF DevicesSoFar
<1>11. s \in {"devices", "update", "create", "sweep", "fetch"}
  BY <1>7
<1> QED BY <1>1, <1>6, <1>8, <1>10, <1>11, ProgressDevices

(* A device is as UISP says once its rows are updated or it is made.       *)
LEMMA UpdatedMirrors ==
  ASSUME NEW row \in DeviceRow, NEW u
  PROVE  /\ Updated(row, u).uisp = row.uisp /\ Updated(row, u).nn = u.nn
         /\ u.active => Updated(row, u).status = "Active"
         /\ ~u.active /\ LongGone(u.seen) => Updated(row, u).status = "Inactive"
<1>1. /\ Updated(row, u).uisp = row.uisp /\ Updated(row, u).nn = u.nn
      /\ Updated(row, u).status = StatusFrom(row.status, u.active, u.seen)
  BY DEF Updated, DeviceRow
<1> QED BY <1>1 DEF StatusFrom

LEMMA ProgressUpdateDevice ==
  ASSUME Inv, ProgressInv, NEW p \in Importer, UpdateDevice(p) PROVE ProgressInv'
<1>1. PICK m : m = mem[p]
  OBVIOUS
<1>2. /\ mem' = [mem EXCEPT ![p] = m] /\ pc' = [pc EXCEPT ![p] = "devices"] /\ pc[p] = "update"
      /\ UNCHANGED <<uisp, steady>> /\ Holding("update", m) /\ devices \in Seq(DeviceRow)
      /\ devices' = [i \in DOMAIN devices |->
           IF i \in DOMAIN m.rows THEN Updated(m.rows[i], m.devs[m.at]) ELSE devices[i]]
  <2>1. mem = [mem EXCEPT ![p] = mem[p]] /\ Holding(pc[p], mem[p]) /\ devices \in Seq(DeviceRow)
    BY Remembered
  <2> QED BY <1>1, <2>1 DEF UpdateDevice, Goto
<1>3. \A i \in DOMAIN m.rows : i \in DOMAIN devices /\ m.rows[i] = devices[i]
  BY <1>2 DEF Holding
<1>4. \A i \in DOMAIN devices : devices[i] \in DeviceRow
  BY <1>2
<1> SUFFICES ASSUME DevicesSoFar(p, "update", m) PROVE DevicesSoFar(p, "devices", m)'
  BY <1>1, <1>2, ProgressDevices
<1>5. m.devs = udev /\ udev' = udev /\ today' = today /\ DOMAIN m.rows = Existing(m.at) /\ Existing(m.at) # {}
  BY <1>2 DEF DevicesSoFar, uisp
<1>6. DeviceMirrored(m.at)'
  <2>1. PICK i \in DOMAIN devices : i \in DOMAIN m.rows /\ devices[i].uisp = m.at
    BY <1>5 DEF Existing
  <2>2. devices'[i] = Updated(devices[i], udev[m.at])
    BY <1>2, <1>3, <1>5, <2>1
  <2>3. /\ devices'[i].uisp = m.at /\ devices'[i].nn = udev[m.at].nn
        /\ udev[m.at].active => devices'[i].status = "Active"
        /\ ~udev[m.at].active /\ LongGone(udev[m.at].seen) => devices'[i].status = "Inactive"
    BY <1>4, <2>1, <2>2, UpdatedMirrors
  <2>4. i \in DOMAIN devices'
    BY <1>2, <2>1
  <2> QED BY <1>5, <2>3, <2>4 DEF DeviceMirrored, Existing, LongGone
<1>7. \A d \in UDev : d # m.at /\ DeviceMirrored(d) => DeviceMirrored(d)'
  <2> SUFFICES ASSUME NEW d \in UDev, d # m.at, DeviceMirrored(d) PROVE DeviceMirrored(d)'
    OBVIOUS
  <2>1. \A i \in Existing(d) : i \in DOMAIN devices /\ i \notin DOMAIN m.rows /\ devices[i].uisp = d
    BY <1>5 DEF Existing
  <2>2. \A i \in Existing(d) : devices'[i] = devices[i] /\ i \in DOMAIN devices'
    BY <1>2, <2>1
  <2>3. \A i \in Existing(d) : i \in Existing(d)'
    BY <2>1, <2>2 DEF Existing
  <2> QED BY <1>5, <2>2, <2>3 DEF DeviceMirrored
<1>8. \A d \in UDev : Wanted(p, d)' => d \in m.todo \/ DeviceMirrored(d)'
  <2>1. \A d \in UDev : Wanted(p, d)' => Wanted(p, d)
    BY <1>5 DEF Wanted
  <2> QED BY <1>6, <1>7, <2>1 DEF DevicesSoFar
<1> QED BY <1>5, <1>8 DEF DevicesSoFar

LEMMA ProgressCreateDevice ==
  ASSUME Inv, ProgressInv, NEW p \in Importer, CreateDevice(p) PROVE ProgressInv'
<1>1. PICK m : m = mem[p]
  OBVIOUS
<1> DEFINE u == m.devs[m.at]
           e == [uisp |-> m.at, nn |-> u.nn, status |-> IF u.active THEN "Active" ELSE "Inactive",
                 abandon |-> IF u.active THEN Null ELSE u.seen]
<1>2. /\ mem' = [mem EXCEPT ![p] = m] /\ pc' = [pc EXCEPT ![p] = "devices"] /\ pc[p] = "create"
      /\ UNCHANGED <<uisp, steady>> /\ devices \in Seq(DeviceRow) /\ devices' = Append(devices, e)
  <2>1. mem = [mem EXCEPT ![p] = mem[p]] /\ devices \in Seq(DeviceRow)
    BY Remembered
  <2> QED BY <1>1, <2>1 DEF CreateDevice, Goto
<1>3. /\ DOMAIN devices' = DOMAIN devices \cup {Len(devices) + 1}
      /\ \A i \in DOMAIN devices : devices'[i] = devices[i]
      /\ devices'[Len(devices) + 1] = e
  BY <1>2
<1>4. e.uisp = m.at /\ e.nn = u.nn /\ e.status = IF u.active THEN "Active" ELSE "Inactive"
  OBVIOUS
<1> HIDE DEF e
<1> SUFFICES ASSUME DevicesSoFar(p, "create", m) PROVE DevicesSoFar(p, "devices", m)'
  BY <1>1, <1>2, ProgressDevices
<1>5. m.devs = udev /\ udev' = udev /\ today' = today
  BY <1>2 DEF DevicesSoFar, uisp
<1>6. DeviceMirrored(m.at)'
  <2>1. Len(devices) + 1 \in Existing(m.at)'
    BY <1>3, <1>4 DEF Existing
  <2> QED BY <1>3, <1>4, <1>5, <2>1 DEF DeviceMirrored
<1>7. \A d \in UDev : DeviceMirrored(d) => DeviceMirrored(d)'
  <2>1. \A d \in UDev : Existing(d) \subseteq Existing(d)'
    BY <1>3 DEF Existing
  <2>2. \A d \in UDev : \A i \in Existing(d) : devices'[i] = devices[i]
    BY <1>3 DEF Existing
  <2> QED BY <1>5, <2>1, <2>2 DEF DeviceMirrored
<1>8. \A d \in UDev : Wanted(p, d)' => d \in m.todo \/ DeviceMirrored(d)'
  <2>1. \A d \in UDev : Wanted(p, d)' => Wanted(p, d)
    BY <1>5 DEF Wanted
  <2> QED BY <1>6, <1>7, <2>1 DEF DevicesSoFar
<1> QED BY <1>5, <1>8 DEF DevicesSoFar

LEMMA ProgressSweepDevices ==
  ASSUME Inv, ProgressInv, NEW p \in Importer, SweepDevices(p) PROVE ProgressInv'
<1>1. IsMemory(mem[p]) /\ pc[p] = "devices" /\ mem[p].todo = {} /\ devices \in Seq(DeviceRow)
  BY Remembered DEF SweepDevices
<1>2. PICK m : m = [mem[p] EXCEPT !.rows = [i \in Lost(p) |-> devices[i]]]
  OBVIOUS
<1>3. m.devs = mem[p].devs /\ m.rows = [i \in Lost(p) |-> devices[i]]
  BY <1>1, <1>2 DEF IsMemory, Field
<1>4. mem' = [mem EXCEPT ![p] = m] /\ pc' = [pc EXCEPT ![p] = "sweep"]
  BY <1>2 DEF SweepDevices, Goto
<1>5. UNCHANGED <<uisp, steady>> /\ UNCHANGED <<uisp, devices>>
  BY DEF SweepDevices, meshdb
<1> SUFFICES ASSUME DevicesSoFar(p, "devices", mem[p]) PROVE DevicesSoFar(p, "sweep", m)'
  BY <1>1, <1>4, <1>5, ProgressDevices
<1>6. mem[p].devs = udev /\ udev' = udev /\ devices' = devices
  BY <1>5 DEF DevicesSoFar, uisp
<1>7. DevicesMirrored(p)
  BY <1>1 DEF DevicesSoFar, DevicesMirrored
<1>8. DevicesMirrored(p)'
  BY <1>5, <1>7, DevicesStay
<1>9. DOMAIN m.rows = Lost(p) /\ \A i \in Lost(p) : m.rows[i] = devices[i]
  BY <1>3
<1>10. \A i \in DOMAIN devices : i \in Lost(p) <=> udev[devices[i].uisp] = Null /\ devices[i].status # "Inactive"
  BY <1>6 DEF Lost
<1>11. Lost(p) \subseteq DOMAIN devices
  BY DEF Lost
<1> QED BY <1>3, <1>6, <1>8, <1>9, <1>10, <1>11 DEF DevicesSoFar

LEMMA ProgressSaveLostDevices ==
  ASSUME Inv, ProgressInv, NEW p \in Importer, SaveLostDevices(p) PROVE ProgressInv'
<1>1. PICK m : m = mem[p]
  OBVIOUS
<1>2. PICK n : n = [NoMemory EXCEPT !.devs = m.devs]
  OBVIOUS
<1>3. /\ mem' = [mem EXCEPT ![p] = n] /\ pc' = [pc EXCEPT ![p] = "fetch"] /\ pc[p] = "sweep"
      /\ UNCHANGED <<uisp, steady>> /\ devices \in Seq(DeviceRow)
      /\ devices' = [i \in DOMAIN devices |-> IF i \in DOMAIN m.rows
                                              THEN [m.rows[i] EXCEPT !.status = "Inactive"]
                                              ELSE devices[i]]
  BY <1>1, <1>2, Remembered DEF SaveLostDevices, Goto
<1> SUFFICES ASSUME DevicesSoFar(p, "sweep", m) PROVE DevicesSoFar(p, "fetch", n)'
  BY <1>1, <1>3, ProgressDevices
<1>4. udev' = udev /\ today' = today
  BY <1>3 DEF uisp
<1>5. \A i \in DOMAIN m.rows : m.rows[i] = devices[i] /\ udev[devices[i].uisp] = Null
  BY DEF DevicesSoFar
<1>6. \A i \in DOMAIN devices :
        udev[devices[i].uisp] = Null /\ devices[i].status # "Inactive" => i \in DOMAIN m.rows
  BY DEF DevicesSoFar
<1>7. DOMAIN devices' = DOMAIN devices
  BY <1>3
<1>8. \A i \in DOMAIN devices : IF i \in DOMAIN m.rows
                                THEN devices'[i].uisp = devices[i].uisp /\ devices'[i].status = "Inactive"
                                ELSE devices'[i] = devices[i]
  <2> SUFFICES ASSUME NEW i \in DOMAIN devices, i \in DOMAIN m.rows
               PROVE  devices'[i].uisp = devices[i].uisp /\ devices'[i].status = "Inactive"
    BY <1>3
  <2>1. devices'[i] = [m.rows[i] EXCEPT !.status = "Inactive"] /\ m.rows[i] = devices[i]
    BY <1>3, <1>5
  <2>2. m.rows[i] \in DeviceRow
    BY <1>3, <2>1
  <2>3. \A row \in DeviceRow : [row EXCEPT !.status = "Inactive"].status = "Inactive"
                               /\ [row EXCEPT !.status = "Inactive"].uisp = row.uisp
    BY DEF DeviceRow
  <2> QED BY <2>1, <2>2, <2>3
<1>9. DevicesMirrored(p)'
  <2> SUFFICES ASSUME NEW d \in UDev, Wanted(p, d)' PROVE DeviceMirrored(d)'
    BY DEF DevicesMirrored
  <2>1. Wanted(p, d) /\ udev[d] # Null
    BY <1>4 DEF Wanted
  <2>2. DeviceMirrored(d)
    BY <2>1 DEF DevicesSoFar, DevicesMirrored
  <2>3. \A i \in Existing(d) : i \in Existing(d)' /\ devices'[i] = devices[i]
    BY <1>5, <1>7, <1>8, <2>1 DEF Existing
  <2> QED BY <1>4, <2>2, <2>3 DEF DeviceMirrored
<1>10. \A i \in DOMAIN devices' : udev'[devices'[i].uisp] = Null => devices'[i].status = "Inactive"
  BY <1>4, <1>6, <1>7, <1>8
<1> QED BY <1>9, <1>10 DEF DevicesSoFar, DevicesDone

(* Links are brought in while devices stay as they are.                    *)
LEMMA ProgressLinks ==
  ASSUME Inv, ProgressInv, NEW p \in Importer,
         pc[p] \in {"fetch", "links", "findLink", "updateLink", "createLink", "sweepLinks"},
         NEW s \in {"links", "findLink", "updateLink", "createLink", "sweepLinks", "sights"}, NEW m,
         pc' = [pc EXCEPT ![p] = s], mem' = [mem EXCEPT ![p] = m], UNCHANGED <<uisp, steady>>,
         devices' = devices,
         LinksSoFar(p, pc[p], mem[p]) => LinksSoFar(p, s, m)'
  PROVE  ProgressInv'
<1>1. SightsSoFar(p, s, m)'
  BY DEF SightsSoFar
<1>2. DevicesSoFar(p, pc[p], mem[p]) => DevicesSoFar(p, s, m)'
  <2>1. DevicesSoFar(p, pc[p], mem[p]) => DevicesDone(p)
    BY DEF DevicesSoFar
  <2>2. DevicesDone(p) => DevicesDone(p)'
    BY DevicesStay
  <2>3. DevicesDone(p)' => DevicesSoFar(p, s, m)'
    BY DEF DevicesSoFar
  <2> QED BY <2>1, <2>2, <2>3
<1>3. SoFar(p, pc[p], mem[p]) => SoFar(p, s, m)'
  BY <1>1, <1>2 DEF SoFar
<1>4. pc[p] # "idle"
  OBVIOUS
<1> QED BY <1>3, <1>4, ProgressStep

LEMMA ProgressFetchLinks ==
  ASSUME Inv, ProgressInv, NEW p \in Importer, FetchLinks(p) PROVE ProgressInv'
<1>1. IsMemory(mem[p]) /\ pc[p] = "fetch"
  BY Remembered DEF FetchLinks
<1>2. PICK m : m = [mem[p] EXCEPT !.ls = Present, !.todo = Present, !.up = {l \in ULink : ulink[l] = "active"}]
  OBVIOUS
<1>3. m.ls = Present /\ m.todo = Present /\ m.up = {l \in ULink : ulink[l] = "active"}
  BY <1>1, <1>2 DEF IsMemory, Field
<1>4. mem' = [mem EXCEPT ![p] = m] /\ pc' = [pc EXCEPT ![p] = "links"]
  BY <1>2 DEF FetchLinks, Present, Goto
<1>5. UNCHANGED <<uisp, steady>> /\ devices' = devices
  BY DEF FetchLinks, meshdb
<1>6. LinksSoFar(p, "links", m)'
  <2>1. ulink' = ulink /\ Present' = Present
    BY <1>5, DevicesStay DEF uisp
  <2>2. \A l \in ULink : Due(p, l)' => l \in m.todo
    BY <1>3, <2>1 DEF Due, Present
  <2>3. \A l \in m.todo : ulink[l] # "absent"
    BY <1>3 DEF Present
  <2> QED BY <1>3, <2>1, <2>2, <2>3 DEF LinksSoFar
<1>7. "links" \in {"links", "findLink", "updateLink", "createLink", "sweepLinks", "sights"}
  OBVIOUS
<1> QED BY <1>1, <1>4, <1>5, <1>6, <1>7, ProgressLinks

(* The rows of a device that is there once.                                *)
LEMMA Sole1 ==
  ASSUME NEW d, devices \in Seq(DeviceRow), Cardinality(Existing(d)) = 1
  PROVE  Existing(d) # {} /\ \A i \in Existing(d) : i = CHOOSE j \in Existing(d) : TRUE
<1>1. IsFiniteSet(Existing(d))
  <2>1. DOMAIN devices = 1 .. Len(devices) /\ Len(devices) \in Nat
    OBVIOUS
  <2>2. IsFiniteSet(1 .. Len(devices))
    BY <2>1, FS_Interval
  <2> QED BY <2>1, <2>2, FS_Subset DEF Existing
<1>2. PICK x : Existing(d) = {x}
  BY <1>1, FS_Singleton
<1> QED BY <1>2

LEMMA DueLink ==
  ASSUME devices \in Seq(DeviceRow), NEW p, NEW l, Due(p, l)
  PROVE  LET A == Existing(Ends[l][1])
             B == Existing(Ends[l][2])
             a == CHOOSE i \in A : TRUE
             b == CHOOSE i \in B : TRUE
         IN /\ A # {} /\ B # {} /\ Cardinality(A) = 1 /\ Cardinality(B) = 1
            /\ Target[p] # Null => Target[p] \in {devices[a].nn, devices[b].nn}
<1>1. Cardinality(Existing(Ends[l][1])) = 1 /\ Cardinality(Existing(Ends[l][2])) = 1
  BY DEF Due
<1>2. /\ Existing(Ends[l][1]) # {} /\ \A i \in Existing(Ends[l][1]) : i = CHOOSE j \in Existing(Ends[l][1]) : TRUE
      /\ Existing(Ends[l][2]) # {} /\ \A i \in Existing(Ends[l][2]) : i = CHOOSE j \in Existing(Ends[l][2]) : TRUE
  BY <1>1, Sole1
<1>3. ASSUME Target[p] # Null
      PROVE  \/ \E i \in Existing(Ends[l][1]) : devices[i].nn = Target[p]
             \/ \E i \in Existing(Ends[l][2]) : devices[i].nn = Target[p]
  BY <1>3 DEF Due
<1> QED BY <1>1, <1>2, <1>3

LEMMA ProgressFindEnds ==
  ASSUME Inv, ProgressInv, NEW p \in Importer, FindEnds(p) PROVE ProgressInv'
<1>1. IsMemory(mem[p]) /\ pc[p] = "links" /\ pc = [pc EXCEPT ![p] = "links"] /\ devices \in Seq(DeviceRow)
      /\ mem[p].todo \subseteq ULink
  <2>1. pc[p] = "links"
    BY DEF FindEnds
  <2>2. pc = [pc EXCEPT ![p] = "links"]
    BY <2>1 DEF Inv, TablesOK
  <2> QED BY <2>1, <2>2, Remembered DEF Holding
<1>2. UNCHANGED <<uisp, steady>> /\ devices' = devices /\ links' = links /\ ulink' = ulink
  BY DEF FindEnds, meshdb, uisp
<1> DEFINE A(l) == Existing(Ends[l][1])
           B(l) == Existing(Ends[l][2])
           a(l) == CHOOSE i \in A(l) : TRUE
           b(l) == CHOOSE i \in B(l) : TRUE
           ofTarget(l) == Target[p] # Null => Target[p] \in {devices[a(l)].nn, devices[b(l)].nn}
<1>3. PICK l \in mem[p].todo :
        \/ /\ A(l) = {} \/ (Cardinality(A(l)) = 1 /\ B(l) = {}) \/ (Cardinality(A(l)) = 1 /\ Cardinality(B(l)) = 1 /\ ~ofTarget(l))
           /\ mem' = [mem EXCEPT ![p].todo = @ \ {l}]
           /\ UNCHANGED <<pc, died>>
        \/ /\ mem' = [mem EXCEPT ![p] = NoMemory]
           /\ Goto(p, "idle")
        \/ /\ mem' = [mem EXCEPT ![p].todo = @ \ {l}, ![p].at = l, ![p].ends = <<a(l), b(l)>>]
           /\ Goto(p, "findLink")
  BY DEF FindEnds
<1>4. ASSUME LinksSoFar(p, "links", mem[p])
      PROVE  /\ mem[p].ls = Present /\ mem[p].up = {k \in ULink : ulink[k] = "active"}
             /\ \A k \in mem[p].todo : ulink[k] # "absent"
             /\ \A k \in ULink : Due(p, k)' => k \in mem[p].todo \/ LinkMirrored(k)'
  <2>1. \A k : (Due(p, k) <=> Due(p, k)') /\ (LinkMirrored(k) <=> LinkMirrored(k)')
    BY <1>2, DevicesStay, LinksStay
  <2> QED BY <1>4, <2>1 DEF LinksSoFar
<1>5. Present' = Present
  BY <1>2, DevicesStay
<1>6. CASE /\ A(l) = {} \/ (Cardinality(A(l)) = 1 /\ B(l) = {}) \/ (Cardinality(A(l)) = 1 /\ Cardinality(B(l)) = 1 /\ ~ofTarget(l))
           /\ mem' = [mem EXCEPT ![p].todo = @ \ {l}]
           /\ UNCHANGED <<pc, died>>
  <2>1. PICK m : m = [mem[p] EXCEPT !.todo = @ \ {l}]
    OBVIOUS
  <2>2. m.todo = mem[p].todo \ {l} /\ m.ls = mem[p].ls /\ m.up = mem[p].up
    BY <1>1, <2>1 DEF IsMemory, Field
  <2>3. mem' = [mem EXCEPT ![p] = m] /\ pc' = [pc EXCEPT ![p] = "links"]
    BY <1>1, <1>6, <2>1
  <2>4. ~Due(p, l)
    BY <1>1, <1>6, DueLink
  <2>5. ~Due(p, l)'
    BY <1>2, <2>4, DevicesStay
  <2>6. LinksSoFar(p, "links", mem[p]) => LinksSoFar(p, "links", m)'
    <3> SUFFICES ASSUME LinksSoFar(p, "links", mem[p]) PROVE LinksSoFar(p, "links", m)'
      OBVIOUS
    <3>1. \A k \in ULink : Due(p, k)' => k \in m.todo \/ LinkMirrored(k)'
      BY <1>4, <2>2, <2>5
    <3> QED BY <1>2, <1>4, <1>5, <2>2, <3>1 DEF LinksSoFar
  <2>7. "links" \in {"links", "findLink", "updateLink", "createLink", "sweepLinks", "sights"}
    OBVIOUS
  <2> QED BY <1>1, <1>2, <2>3, <2>6, <2>7, ProgressLinks
<1>7. CASE mem' = [mem EXCEPT ![p] = NoMemory] /\ Goto(p, "idle")
  BY <1>1, <1>2, <1>7, ProgressStep DEF Goto
<1>8. CASE /\ mem' = [mem EXCEPT ![p].todo = @ \ {l}, ![p].at = l, ![p].ends = <<a(l), b(l)>>]
           /\ Goto(p, "findLink")
  <2> HIDE DEF a, b, A, B, ofTarget
  <2>1. PICK m : m = [mem[p] EXCEPT !.todo = @ \ {l}, !.at = l, !.ends = <<a(l), b(l)>>]
    OBVIOUS
  <2>2. m.todo = mem[p].todo \ {l} /\ m.ls = mem[p].ls /\ m.up = mem[p].up /\ m.at = l
    BY <1>1, <2>1 DEF IsMemory, Field
  <2>3. mem' = [mem EXCEPT ![p] = m] /\ pc' = [pc EXCEPT ![p] = "findLink"]
    BY <1>8, <2>1 DEF Goto
  <2>4. LinksSoFar(p, "links", mem[p]) => LinksSoFar(p, "findLink", m)'
    <3> SUFFICES ASSUME LinksSoFar(p, "links", mem[p]) PROVE LinksSoFar(p, "findLink", m)'
      OBVIOUS
    <3>1. \A k \in ULink : Due(p, k)' => k \in m.todo \/ LinkMirrored(k)' \/ k = m.at
      BY <1>4, <2>2
    <3>2. ulink[m.at] # "absent" /\ \A k \in m.todo : ulink[k] # "absent"
      BY <1>4, <2>2
    <3> QED BY <1>2, <1>4, <1>5, <2>2, <3>1, <3>2 DEF LinksSoFar
  <2>5. "findLink" \in {"links", "findLink", "updateLink", "createLink", "sweepLinks", "sights"}
    OBVIOUS
  <2> QED BY <1>1, <1>2, <2>3, <2>4, <2>5, ProgressLinks
<1> QED BY <1>3, <1>6, <1>7, <1>8

LEMMA ProgressLookUpLink ==
  ASSUME Inv, ProgressInv, NEW p \in Importer, LookUpLink(p) PROVE ProgressInv'
<1>1. IsMemory(mem[p]) /\ pc[p] = "findLink"
  BY Remembered DEF LookUpLink
<1>2. UNCHANGED <<uisp, steady>> /\ devices' = devices /\ links' = links /\ ulink' = ulink
  BY DEF LookUpLink, meshdb, uisp
<1>3. PICK r : r = mem[p]
  OBVIOUS
<1>4. PICK F : F = Matching(p, r.at, r.ends[1], r.ends[2])
  OBVIOUS
<1>5. PICK m : m = [r EXCEPT !.rows = [i \in F |-> links[i]]]
  OBVIOUS
<1>6. PICK s : s = IF F = {} THEN "createLink" ELSE "updateLink"
  OBVIOUS
<1>7. mem' = [mem EXCEPT ![p] = m] /\ pc' = [pc EXCEPT ![p] = s]
  BY <1>3, <1>4, <1>5, <1>6 DEF LookUpLink, Goto
<1>8. DOMAIN m.rows = F /\ m.todo = r.todo /\ m.ls = r.ls /\ m.up = r.up /\ m.at = r.at
  BY <1>1, <1>3, <1>5 DEF IsMemory, Field
<1>9. s = "createLink" \/ (s = "updateLink" /\ F # {})
  BY <1>6
<1>10. \A i \in F : i \in DOMAIN links /\ (links[i].uisp = r.at \/ links[i].uisp \notin r.ls)
  BY <1>3, <1>4 DEF Matching, Orphans
<1>11. \A i \in DOMAIN links : links[i].uisp \in ULink
  <2>1. \A i \in DOMAIN links : links[i] \in LinkRow
    BY DEF Inv, IsLink
  <2> QED BY <2>1 DEF LinkRow
<1>12. Present' = Present /\ \A k : (Due(p, k) <=> Due(p, k)') /\ (LinkMirrored(k) <=> LinkMirrored(k)')
  BY <1>2, DevicesStay, LinksStay
<1>13. LinksSoFar(p, "findLink", r) => LinksSoFar(p, s, m)'
  <2> SUFFICES ASSUME LinksSoFar(p, "findLink", r) PROVE LinksSoFar(p, s, m)'
    OBVIOUS
  <2>1. /\ r.ls = Present /\ r.up = {k \in ULink : ulink[k] = "active"} /\ ulink[r.at] # "absent"
        /\ \A k \in r.todo : ulink[k] # "absent"
        /\ \A k \in ULink : Due(p, k)' => k \in r.todo \/ LinkMirrored(k)' \/ k = r.at
    BY <1>12 DEF LinksSoFar
  <2>2. \A i \in DOMAIN m.rows : links[i].uisp = m.at \/ ulink[links[i].uisp] = "absent"
    BY <1>8, <1>10, <1>11, <2>1 DEF Present
  <2> QED BY <1>2, <1>8, <1>9, <1>12, <2>1, <2>2 DEF LinksSoFar
<1>14. s \in {"links", "findLink", "updateLink", "createLink", "sweepLinks", "sights"}
  BY <1>9
<1> QED BY <1>1, <1>2, <1>3, <1>7, <1>13, <1>14, ProgressLinks

LEMMA ProgressUpdateLink ==
  ASSUME Inv, ProgressInv, NEW p \in Importer, UpdateLink(p) PROVE ProgressInv'
<1>1. PICK m : m = mem[p]
  OBVIOUS
<1>2. /\ mem' = [mem EXCEPT ![p] = m] /\ pc' = [pc EXCEPT ![p] = "links"] /\ pc[p] = "updateLink"
      /\ UNCHANGED <<uisp, steady>> /\ devices' = devices /\ Holding("updateLink", m)
      /\ links' = [i \in DOMAIN links |->
                     IF i \in DOMAIN m.rows
                     THEN UpdatedLink(m.rows[i], m.at, m.ends, m.at \in m.up, LinkSeen(m.at)) ELSE links[i]]
  <2>1. mem = [mem EXCEPT ![p] = mem[p]] /\ Holding(pc[p], mem[p])
    BY Remembered
  <2> QED BY <1>1, <2>1 DEF UpdateLink, Goto
<1>3. \A i \in DOMAIN m.rows : i \in DOMAIN links /\ m.rows[i] = links[i]
  BY <1>2 DEF Holding
<1> SUFFICES ASSUME LinksSoFar(p, "updateLink", m) PROVE LinksSoFar(p, "links", m)'
  BY <1>1, <1>2, ProgressLinks
<1>4. ulink' = ulink /\ DOMAIN links' = DOMAIN links /\ Present' = Present
  BY <1>2, DevicesStay DEF uisp
<1>5. /\ m.ls = Present /\ m.up = {l \in ULink : ulink[l] = "active"} /\ m.at \in ULink
      /\ \A l \in m.todo : ulink[l] # "absent"
      /\ ulink[m.at] # "absent" /\ DOMAIN m.rows # {}
      /\ \A i \in DOMAIN m.rows : links[i].uisp = m.at \/ ulink[links[i].uisp] = "absent"
  BY <1>2 DEF LinksSoFar, Holding
<1>6. LinkMirrored(m.at)'
  <2>1. PICK i \in DOMAIN links : i \in DOMAIN m.rows
    BY <1>3, <1>5
  <2>2. links'[i] = UpdatedLink(m.rows[i], m.at, m.ends, m.at \in m.up, LinkSeen(m.at))
    BY <1>2, <2>1
  <2>3. links'[i].uisp = m.at /\ (m.at \in m.up => links'[i].status = "Active")
    BY <2>2 DEF UpdatedLink, StatusFrom
  <2>4. ({devices[links[i].ends[1]].uisp, devices[links[i].ends[2]].uisp}
           = {Ends[links[i].uisp][1], Ends[links[i].uisp][2]})'
    <3>1. Inv' /\ i \in DOMAIN links'
      BY <1>4, <2>1, UpdateLinkInv
    <3>2. IsLink(links[i])'
      BY <3>1 DEF Inv
    <3> QED BY <3>2 DEF IsLink, Joins
  <2>5. i \in DOMAIN links' /\ (ulink'[m.at] = "active" => links'[i].status = "Active")
    BY <1>4, <1>5, <2>1, <2>3
  <2> QED BY <2>3, <2>4, <2>5 DEF LinkMirrored
<1>7. \A l \in ULink : Due(p, l)' => l \in m.todo \/ LinkMirrored(l)'
  <2> SUFFICES ASSUME NEW l \in ULink, Due(p, l)', l # m.at, l \notin m.todo PROVE LinkMirrored(l)'
    BY <1>6
  <2>1. Due(p, l) /\ ulink[l] # "absent"
    <3>1. Due(p, l)
      BY <1>2, DevicesStay
    <3> QED BY <3>1 DEF Due
  <2>2. LinkMirrored(l)
    BY <2>1 DEF LinksSoFar
  <2>3. \A i \in DOMAIN links : links[i].uisp = l => links'[i] = links[i] /\ i \in DOMAIN links'
    BY <1>2, <1>4, <1>5, <2>1
  <2> QED BY <1>2, <1>4, <2>2, <2>3 DEF LinkMirrored
<1> QED BY <1>4, <1>5, <1>7 DEF LinksSoFar

LEMMA ProgressCreateLink ==
  ASSUME Inv, ProgressInv, NEW p \in Importer, CreateLink(p) PROVE ProgressInv'
<1>1. PICK m : m = mem[p]
  OBVIOUS
<1> DEFINE e == [uisp |-> m.at, ends |-> m.ends, abandon |-> Null,
                 status |-> IF m.at \in m.up THEN "Active" ELSE "Inactive"]
<1>2. /\ mem' = [mem EXCEPT ![p] = m] /\ pc' = [pc EXCEPT ![p] = "links"] /\ pc[p] = "createLink"
      /\ UNCHANGED <<uisp, steady>> /\ devices' = devices /\ m.at \in ULink
      /\ links \in Seq(LinkRow) /\ links' = Append(links, e)
  <2>1. mem = [mem EXCEPT ![p] = mem[p]] /\ Holding(pc[p], mem[p]) /\ links \in Seq(LinkRow)
    BY Remembered
  <2>2. pc[p] = "createLink"
    BY DEF CreateLink
  <2>3. m.at \in ULink
    BY <1>1, <2>1, <2>2 DEF Holding
  <2> QED BY <1>1, <2>1, <2>3 DEF CreateLink, Goto
<1>3. /\ DOMAIN links' = DOMAIN links \cup {Len(links) + 1}
      /\ \A i \in DOMAIN links : links'[i] = links[i]
      /\ links'[Len(links) + 1] = e
  BY <1>2
<1>4. e.uisp = m.at /\ (m.at \in m.up => e.status = "Active")
  OBVIOUS
<1> HIDE DEF e
<1> SUFFICES ASSUME LinksSoFar(p, "createLink", m) PROVE LinksSoFar(p, "links", m)'
  BY <1>1, <1>2, ProgressLinks
<1>5. ulink' = ulink /\ Present' = Present
  BY <1>2, DevicesStay DEF uisp
<1>6. /\ m.ls = Present /\ m.up = {l \in ULink : ulink[l] = "active"}
      /\ \A l \in m.todo : ulink[l] # "absent"
  BY DEF LinksSoFar
<1>7. LinkMirrored(m.at)'
  <2>1. PICK i : i = Len(links) + 1
    OBVIOUS
  <2>2. i \in DOMAIN links' /\ links'[i].uisp = m.at /\ (ulink'[m.at] = "active" => links'[i].status = "Active")
    BY <1>2, <1>3, <1>4, <1>5, <1>6, <2>1
  <2>3. IsLink(links[i])'
    BY <2>2, CreateLinkInv DEF Inv
  <2> QED BY <2>2, <2>3 DEF LinkMirrored, IsLink, Joins
<1>8. \A l \in ULink : Due(p, l)' => l \in m.todo \/ LinkMirrored(l)'
  <2> SUFFICES ASSUME NEW l \in ULink, Due(p, l)', l # m.at, l \notin m.todo PROVE LinkMirrored(l)'
    BY <1>7
  <2>1. Due(p, l)
    BY <1>2, DevicesStay
  <2>2. LinkMirrored(l)
    BY <2>1 DEF LinksSoFar
  <2>3. \A i \in DOMAIN links : links'[i] = links[i] /\ i \in DOMAIN links'
    BY <1>3
  <2> QED BY <1>2, <1>5, <2>2, <2>3 DEF LinkMirrored
<1> QED BY <1>5, <1>6, <1>8 DEF LinksSoFar

LEMMA ProgressSweepLinks ==
  ASSUME Inv, ProgressInv, NEW p \in Importer, SweepLinks(p) PROVE ProgressInv'
<1>1. IsMemory(mem[p]) /\ pc[p] = "links" /\ mem[p].todo = {}
  BY Remembered DEF SweepLinks
<1>2. PICK m : m = [mem[p] EXCEPT !.rows = [i \in LostLinks(p) |-> links[i]]]
  OBVIOUS
<1>3. m.rows = [i \in LostLinks(p) |-> links[i]]
  BY <1>1, <1>2 DEF IsMemory, Field
<1>4. mem' = [mem EXCEPT ![p] = m] /\ pc' = [pc EXCEPT ![p] = "sweepLinks"]
  BY <1>2 DEF SweepLinks, Goto
<1>5. UNCHANGED <<uisp, steady>> /\ devices' = devices /\ UNCHANGED <<uisp, devices, links>>
  BY DEF SweepLinks, meshdb
<1> SUFFICES ASSUME LinksSoFar(p, "links", mem[p]) PROVE LinksSoFar(p, "sweepLinks", m)'
  BY <1>1, <1>4, <1>5, ProgressLinks
<1>6. LinksMirrored(p)
  BY <1>1 DEF LinksSoFar, LinksMirrored
<1>7. LinksMirrored(p)'
  BY <1>5, <1>6, LinksStay
<1>8. DOMAIN m.rows = LostLinks(p) /\ \A i \in LostLinks(p) : m.rows[i] = links[i]
  BY <1>3
<1>9. \A i \in DOMAIN links : links[i].uisp \in ULink
  <2>1. \A i \in DOMAIN links : links[i] \in LinkRow
    BY DEF Inv, IsLink
  <2> QED BY <2>1 DEF LinkRow
<1>10. mem[p].ls = Present
  BY DEF LinksSoFar
<1>11. \A i \in DOMAIN links : i \in LostLinks(p) <=> ulink[links[i].uisp] = "absent" /\ links[i].status = "Active"
  BY <1>9, <1>10 DEF LostLinks, Present
<1>12. LostLinks(p) \subseteq DOMAIN links /\ ulink' = ulink /\ links' = links
  BY <1>5 DEF LostLinks, uisp
<1> QED BY <1>7, <1>8, <1>11, <1>12 DEF LinksSoFar

LEMMA ProgressSaveLostLinks ==
  ASSUME Inv, ProgressInv, NEW p \in Importer, SaveLostLinks(p) PROVE ProgressInv'
<1>1. PICK m : m = mem[p]
  OBVIOUS
<1>2. /\ mem' = [mem EXCEPT ![p] = m] /\ pc' = [pc EXCEPT ![p] = "sights"] /\ pc[p] = "sweepLinks"
      /\ UNCHANGED <<uisp, steady>> /\ devices' = devices /\ links \in Seq(LinkRow)
      /\ links' = [i \in DOMAIN links |-> IF i \in DOMAIN m.rows
                                          THEN [m.rows[i] EXCEPT !.status = "Inactive"]
                                          ELSE links[i]]
  <2>1. mem = [mem EXCEPT ![p] = mem[p]] /\ links \in Seq(LinkRow)
    BY Remembered
  <2> QED BY <1>1, <2>1 DEF SaveLostLinks, Goto
<1> SUFFICES ASSUME LinksSoFar(p, "sweepLinks", m) PROVE LinksSoFar(p, "sights", m)'
  BY <1>1, <1>2, ProgressLinks
<1>3. ulink' = ulink /\ DOMAIN links' = DOMAIN links
  BY <1>2 DEF uisp
<1>4. \A i \in DOMAIN m.rows : m.rows[i] = links[i] /\ ulink[links[i].uisp] = "absent"
  BY DEF LinksSoFar
<1>5. \A i \in DOMAIN links : ulink[links[i].uisp] = "absent" /\ links[i].status = "Active" => i \in DOMAIN m.rows
  BY DEF LinksSoFar
<1>6. \A i \in DOMAIN links : IF i \in DOMAIN m.rows
                              THEN links'[i].uisp = links[i].uisp /\ links'[i].status = "Inactive"
                              ELSE links'[i] = links[i]
  <2> SUFFICES ASSUME NEW i \in DOMAIN links, i \in DOMAIN m.rows
               PROVE  links'[i].uisp = links[i].uisp /\ links'[i].status = "Inactive"
    BY <1>2
  <2>1. links'[i] = [m.rows[i] EXCEPT !.status = "Inactive"] /\ m.rows[i] = links[i]
    BY <1>2, <1>4
  <2>2. m.rows[i] \in LinkRow
    BY <1>2, <2>1
  <2>3. \A row \in LinkRow : [row EXCEPT !.status = "Inactive"].status = "Inactive"
                             /\ [row EXCEPT !.status = "Inactive"].uisp = row.uisp
    BY DEF LinkRow
  <2> QED BY <2>1, <2>2, <2>3
<1>7. LinksMirrored(p)'
  <2> SUFFICES ASSUME NEW l \in ULink, Due(p, l)' PROVE LinkMirrored(l)'
    BY DEF LinksMirrored
  <2>1. Due(p, l)
    BY <1>2, DevicesStay
  <2>2. LinkMirrored(l) /\ ulink[l] # "absent"
    BY <2>1 DEF LinksSoFar, LinksMirrored, Due
  <2>3. \A i \in DOMAIN links : links[i].uisp = l => links'[i] = links[i] /\ i \in DOMAIN links'
    BY <1>3, <1>4, <1>6, <2>2
  <2> QED BY <1>2, <1>3, <2>2, <2>3 DEF LinkMirrored
<1>8. \A i \in DOMAIN links' : ulink'[links'[i].uisp] = "absent" => links'[i].status # "Active"
  BY <1>3, <1>5, <1>6
<1> QED BY <1>7, <1>8 DEF LinksSoFar, LinksDone

(* Lines of sight follow while devices and links stay as they are.         *)
LEMMA ProgressSights ==
  ASSUME Inv, ProgressInv, NEW p \in Importer, pc[p] \in {"sights", "los", "createLos"},
         NEW s \in {"los", "createLos", "finish"}, NEW m,
         pc' = [pc EXCEPT ![p] = s], mem' = [mem EXCEPT ![p] = m], UNCHANGED <<uisp, steady>>,
         UNCHANGED <<uisp, devices, links>>,
         SightsSoFar(p, pc[p], mem[p]) => SightsSoFar(p, s, m)'
  PROVE  ProgressInv'
<1>1. DevicesSoFar(p, pc[p], mem[p]) => DevicesSoFar(p, s, m)'
  <2>1. DevicesSoFar(p, pc[p], mem[p]) => DevicesDone(p)
    BY DEF DevicesSoFar
  <2>2. DevicesDone(p) => DevicesDone(p)'
    BY DevicesStay
  <2>3. DevicesDone(p)' => DevicesSoFar(p, s, m)'
    BY DEF DevicesSoFar
  <2> QED BY <2>1, <2>2, <2>3
<1>2. LinksSoFar(p, pc[p], mem[p]) => LinksSoFar(p, s, m)'
  <2>1. LinksSoFar(p, pc[p], mem[p]) => LinksDone(p)
    BY DEF LinksSoFar
  <2>2. LinksDone(p) => LinksDone(p)'
    BY LinksStay
  <2>3. LinksDone(p)' => LinksSoFar(p, s, m)'
    BY DEF LinksSoFar
  <2> QED BY <2>1, <2>2, <2>3
<1>3. SoFar(p, pc[p], mem[p]) => SoFar(p, s, m)'
  BY <1>1, <1>2 DEF SoFar
<1>4. pc[p] # "idle"
  OBVIOUS
<1> QED BY <1>3, <1>4, ProgressStep

LEMMA SightedStay ==
  ASSUME UNCHANGED <<uisp, devices, links>>, NEW p
  PROVE  /\ links' = links
         /\ \A link : /\ Sighted(p, link) <=> Sighted(p, link)'
                      /\ Pair(link)' = Pair(link) /\ FunctioningDate(link)' = FunctioningDate(link)
         /\ \A I, pair : Dates(p, I, pair)' = Dates(p, I, pair)
<1>1. UNCHANGED <<today, devices, links>>
  BY DEF uisp
<1>2. \A link : NNs(link)' = NNs(link)
  BY <1>1 DEF NNs
<1>3. \A link : Pair(link)' = Pair(link)
  BY <1>2 DEF Pair
<1>4. \A link : Sighted(p, link) <=> Sighted(p, link)'
  BY <1>2, <1>3 DEF Sighted
<1>5. \A link : FunctioningDate(link)' = FunctioningDate(link)
  BY <1>1 DEF FunctioningDate
<1>6. \A I, pair : Between(p, I, pair)' = Between(p, I, pair)
  BY <1>1, <1>3, <1>4 DEF Between
<1>7. \A I, pair : Dates(p, I, pair)' = Dates(p, I, pair)
  BY <1>1, <1>5, <1>6 DEF Dates
<1> QED BY <1>1, <1>3, <1>4, <1>5, <1>7

(* What is to hold of the next lines of sight, while links stay.           *)
FollowedBy(p, K, link, pair) ==
  /\ \E k \in DOMAIN los' : los'[k].pair = pair
  /\ \A k \in DOMAIN los' : los'[k].pair = pair =>
       /\ link.status = "Active" => los'[k].source = "Existing Link"
       /\ los'[k].source = "Existing Link" =>
            los'[k].date \in Dates(p, K, pair) \/ Dates(p, K, pair) = {}

LEMMA FollowedNext ==
  ASSUME UNCHANGED <<uisp, devices, links>>, NEW p, NEW K,
         \A j \in K : Sighted(p, links[j]) => FollowedBy(p, K, links[j], Pair(links[j]))
  PROVE  Followed(p, K)'
<1> SUFFICES ASSUME NEW j \in K, Sighted(p, links[j])'
             PROVE  (/\ Sights(Pair(links[j])) # {}
                     /\ \A k \in Sights(Pair(links[j])) :
                          /\ links[j].status = "Active" => los[k].source = "Existing Link"
                          /\ los[k].source = "Existing Link" =>
                               los[k].date \in Dates(p, K, Pair(links[j])) \/ Dates(p, K, Pair(links[j])) = {})'
  BY DEF Followed
<1>1. PICK pair : pair = Pair(links[j])
  OBVIOUS
<1>2. links' = links /\ Sighted(p, links[j]) /\ Pair(links[j])' = pair /\ Dates(p, K, pair)' = Dates(p, K, pair)
  BY <1>1, SightedStay
<1>3. Sights(pair)' = {k \in DOMAIN los' : los'[k].pair = pair}
  BY DEF Sights
<1>4. Sights(Pair(links[j]))' = {k \in DOMAIN los' : los'[k].pair = pair}
  BY <1>2, <1>3
<1>5. Dates(p, K, Pair(links[j]))' = Dates(p, K, pair)
  BY <1>2
<1>6. FollowedBy(p, K, links[j], pair) /\ links' = links
  BY <1>1, <1>2
<1> QED BY <1>4, <1>5, <1>6 DEF FollowedBy

(* One more link, and its last day.                                        *)
LEMMA OneMore ==
  ASSUME NEW p, NEW I, NEW i
  PROVE  /\ \A pair : ~(Sighted(p, links[i]) /\ Pair(links[i]) = pair) =>
              Dates(p, I \cup {i}, pair) = Dates(p, I, pair)
         /\ \A pair : FunctioningDate(links[i]) = Null => Dates(p, I \cup {i}, pair) = Dates(p, I, pair)
         /\ Sighted(p, links[i]) /\ FunctioningDate(links[i]) # Null =>
              FunctioningDate(links[i]) \in Dates(p, I \cup {i}, Pair(links[i]))
BY DEF Dates, Between

LEMMA ProgressReadLinks ==
  ASSUME Inv, ProgressInv, NEW p \in Importer, ReadLinks(p) PROVE ProgressInv'
<1>1. PICK m : m = [NoMemory EXCEPT !.rows = links, !.todo = DOMAIN links]
  OBVIOUS
<1>2. m.rows = links /\ m.todo = DOMAIN links
  BY <1>1 DEF NoMemory
<1>3. mem' = [mem EXCEPT ![p] = m] /\ pc' = [pc EXCEPT ![p] = "los"] /\ pc[p] = "sights"
  BY <1>1 DEF ReadLinks, Goto
<1>4. UNCHANGED <<uisp, steady>> /\ UNCHANGED <<uisp, devices, links>>
  BY DEF ReadLinks, meshdb
<1>5. DOMAIN links' \ m.todo = {} /\ m.rows = links'
  BY <1>2, <1>4
<1>6. Followed(p, {})'
  BY DEF Followed
<1>7. SightsSoFar(p, "los", m)'
  BY <1>5, <1>6 DEF SightsSoFar
<1> QED BY <1>3, <1>4, <1>7, ProgressSights

LEMMA ProgressEndSights ==
  ASSUME Inv, ProgressInv, NEW p \in Importer, EndSights(p) PROVE ProgressInv'
<1>1. PICK m : m = mem[p]
  OBVIOUS
<1>2. mem' = [mem EXCEPT ![p] = m] /\ pc' = [pc EXCEPT ![p] = "finish"] /\ pc[p] = "los" /\ m.todo = {}
  BY <1>1, Remembered DEF EndSights, Goto
<1>3. UNCHANGED <<uisp, steady>> /\ UNCHANGED <<uisp, devices, links>> /\ los' = los
  BY DEF EndSights, meshdb
<1> SUFFICES ASSUME SightsSoFar(p, "los", m) PROVE SightsSoFar(p, "finish", m)'
  BY <1>1, <1>2, <1>3, ProgressSights
<1>4. PICK K : K = DOMAIN links
  OBVIOUS
<1>5. Followed(p, K)
  <2>1. DOMAIN links \ m.todo = K
    BY <1>2, <1>4
  <2> QED BY <2>1 DEF SightsSoFar
<1>6. Followed(p, K)'
  <2>1. \A j \in K : Sighted(p, links[j]) => FollowedBy(p, K, links[j], Pair(links[j]))
    BY <1>3, <1>5 DEF Followed, FollowedBy, Sights
  <2> QED BY <1>3, <2>1, FollowedNext
<1>7. K = DOMAIN links'
  BY <1>3, <1>4
<1> QED BY <1>6, <1>7 DEF SightsSoFar

LEMMA ResightedSays ==
  ASSUME NEW row \in LosRow, NEW link
  PROVE  /\ Resighted(row, link).pair = row.pair
         /\ Resighted(row, link).source = IF link.status = "Active" THEN "Existing Link" ELSE row.source
         /\ Resighted(row, link).date =
              IF Resighted(row, link).source = "Existing Link" /\ FunctioningDate(link) # Null
              THEN FunctioningDate(link) ELSE row.date
<1>1. PICK f : f = FunctioningDate(link)
  OBVIOUS
<1>2. PICK s : s = IF link.status = "Active" THEN "Existing Link" ELSE row.source
  OBVIOUS
<1>3. PICK d : d = IF s = "Existing Link" /\ f # Null THEN f ELSE row.date
  OBVIOUS
<1>4. Resighted(row, link) = [row EXCEPT !.source = s, !.date = d]
  BY <1>1, <1>2, <1>3 DEF Resighted
<1>5. /\ [row EXCEPT !.source = s, !.date = d].pair = row.pair
      /\ [row EXCEPT !.source = s, !.date = d].source = s /\ [row EXCEPT !.source = s, !.date = d].date = d
  BY DEF LosRow
<1> QED BY <1>1, <1>2, <1>3, <1>4, <1>5

(* The lines of sight of a link are written over, in the order of links.   *)
LEMMA SyncFollows ==
  ASSUME NEW p, NEW J, NEW i, los \in Seq(LosRow), today # Null, UNCHANGED <<uisp, devices, links>>,
         Followed(p, J), Sighted(p, links[i]), Sights(Pair(links[i])) # {},
         los' = [k \in DOMAIN los |-> IF k \in Sights(Pair(links[i])) THEN Resighted(los[k], links[i]) ELSE los[k]]
  PROVE  Followed(p, J \cup {i})'
<1>1. PICK K, pair : K = J \cup {i} /\ pair = Pair(links[i])
  OBVIOUS
<1>2. PICK f : f = FunctioningDate(links[i])
  OBVIOUS
<1>3. DOMAIN los' = DOMAIN los /\ \A k \in DOMAIN los : los[k] \in LosRow
  OBVIOUS
<1>4. \A k \in DOMAIN los :
        IF los[k].pair = pair
        THEN /\ los'[k].pair = pair
             /\ los'[k].source = IF links[i].status = "Active" THEN "Existing Link" ELSE los[k].source
             /\ los'[k].date = IF los'[k].source = "Existing Link" /\ f # Null THEN f ELSE los[k].date
        ELSE los'[k] = los[k]
  <2> SUFFICES ASSUME NEW k \in DOMAIN los, los[k].pair = pair
               PROVE  /\ los'[k].pair = pair
                      /\ los'[k].source = IF links[i].status = "Active" THEN "Existing Link" ELSE los[k].source
                      /\ los'[k].date = IF los'[k].source = "Existing Link" /\ f # Null THEN f ELSE los[k].date
    BY <1>1 DEF Sights
  <2>1. los'[k] = Resighted(los[k], links[i])
    BY <1>1 DEF Sights
  <2>2. PICK row : row = los[k]
    OBVIOUS
  <2>3. /\ Resighted(row, links[i]).pair = row.pair
        /\ Resighted(row, links[i]).source = IF links[i].status = "Active" THEN "Existing Link" ELSE row.source
        /\ Resighted(row, links[i]).date =
             IF Resighted(row, links[i]).source = "Existing Link" /\ FunctioningDate(links[i]) # Null
             THEN FunctioningDate(links[i]) ELSE row.date
    BY <1>3, <2>2, ResightedSays
  <2> QED BY <1>2, <2>1, <2>2, <2>3
<1>5. \A j \in J : Sighted(p, links[j]) =>
        /\ \E k \in DOMAIN los : los[k].pair = Pair(links[j])
        /\ \A k \in DOMAIN los : los[k].pair = Pair(links[j]) =>
             /\ links[j].status = "Active" => los[k].source = "Existing Link"
             /\ los[k].source = "Existing Link" =>
                  los[k].date \in Dates(p, J, Pair(links[j])) \/ Dates(p, J, Pair(links[j])) = {}
  BY DEF Followed, Sights
<1>6. \A other : other # pair \/ f = Null => Dates(p, K, other) = Dates(p, J, other)
  BY <1>1, <1>2, OneMore
<1>7. \A j \in K : Sighted(p, links[j]) => FollowedBy(p, K, links[j], Pair(links[j]))
  <2> SUFFICES ASSUME NEW j \in K, Sighted(p, links[j]) PROVE FollowedBy(p, K, links[j], Pair(links[j]))
    OBVIOUS
  <2>1. CASE Pair(links[j]) # pair
    <3>1. j \in J /\ Dates(p, K, Pair(links[j])) = Dates(p, J, Pair(links[j]))
      BY <1>1, <1>6, <2>1
    <3>2. \A k \in DOMAIN los' : los'[k].pair = Pair(links[j]) <=> los[k].pair = Pair(links[j])
      BY <1>3, <1>4, <2>1
    <3>3. \A k \in DOMAIN los' : los[k].pair = Pair(links[j]) => los'[k] = los[k]
      BY <1>3, <1>4, <2>1
    <3>4. \E k \in DOMAIN los' : los'[k].pair = Pair(links[j])
      BY <1>3, <1>5, <3>1, <3>2
    <3>5. ASSUME NEW k \in DOMAIN los', los'[k].pair = Pair(links[j])
          PROVE  /\ links[j].status = "Active" => los'[k].source = "Existing Link"
                 /\ los'[k].source = "Existing Link" =>
                      los'[k].date \in Dates(p, K, Pair(links[j])) \/ Dates(p, K, Pair(links[j])) = {}
      BY <1>3, <1>5, <3>1, <3>2, <3>3, <3>5
    <3> QED BY <3>4, <3>5 DEF FollowedBy
  <2>2. CASE Pair(links[j]) = pair
    <3>1. \E k \in DOMAIN los' : los'[k].pair = pair
      BY <1>1, <1>3, <1>4 DEF Sights
    <3> SUFFICES ASSUME NEW k \in DOMAIN los', los'[k].pair = pair
                 PROVE  /\ links[j].status = "Active" => los'[k].source = "Existing Link"
                        /\ los'[k].source = "Existing Link" => los'[k].date \in Dates(p, K, pair) \/ Dates(p, K, pair) = {}
      BY <2>2, <3>1 DEF FollowedBy
    <3>2. k \in DOMAIN los /\ los[k].pair = pair
      BY <1>3, <1>4
    <3>3. links[j].status = "Active" => los'[k].source = "Existing Link"
      <4>1. CASE j = i
        BY <1>4, <3>2, <4>1
      <4>2. CASE j \in J
        BY <1>4, <1>5, <2>2, <3>2, <4>2
      <4> QED BY <1>1, <4>1, <4>2
    <3>4. ASSUME los'[k].source = "Existing Link" PROVE los'[k].date \in Dates(p, K, pair) \/ Dates(p, K, pair) = {}
      <4>1. CASE f # Null
        <5>1. los'[k].date = f
          BY <1>4, <3>2, <3>4, <4>1
        <5>2. f \in Dates(p, K, pair)
          BY <1>1, <1>2, <4>1, OneMore
        <5> QED BY <5>1, <5>2
      <4>2. CASE f = Null
        <5>1. Dates(p, K, pair) = Dates(p, J, pair) /\ los'[k].date = los[k].date
          BY <1>4, <1>6, <3>2, <4>2
        <5>2. los[k].source = "Existing Link"
          <6>1. links[i].status # "Active"
            BY <1>2, <4>2 DEF FunctioningDate
          <6> QED BY <1>4, <3>2, <3>4, <6>1
        <5>3. CASE \E g \in J : Sighted(p, links[g]) /\ Pair(links[g]) = pair
          BY <1>5, <3>2, <5>1, <5>2, <5>3
        <5>4. CASE ~\E g \in J : Sighted(p, links[g]) /\ Pair(links[g]) = pair
          <6>1. Dates(p, J, pair) = {}
            BY <5>4 DEF Dates, Between
          <6> QED BY <5>1, <6>1
        <5> QED BY <5>3, <5>4
      <4> QED BY <4>1, <4>2
    <3> QED BY <3>3, <3>4
  <2> QED BY <2>1, <2>2
<1>8. Followed(p, K)'
  BY <1>7, FollowedNext
<1> QED BY <1>1, <1>8

(* A link without lines of sight leaves them as they are.                  *)
LEMMA SkipFollows ==
  ASSUME NEW p, NEW J, NEW i, UNCHANGED <<uisp, devices, links>>, los' = los, Followed(p, J), ~Sighted(p, links[i])
  PROVE  Followed(p, J \cup {i})'
<1>1. PICK K : K = J \cup {i}
  OBVIOUS
<1>2. \A pair : Dates(p, K, pair) = Dates(p, J, pair)
  BY <1>1, OneMore
<1>3. \A j \in K : Sighted(p, links[j]) => FollowedBy(p, K, links[j], Pair(links[j]))
  <2> SUFFICES ASSUME NEW j \in K, Sighted(p, links[j]) PROVE FollowedBy(p, K, links[j], Pair(links[j]))
    OBVIOUS
  <2>1. j \in J
    BY <1>1
  <2> QED BY <1>2, <2>1 DEF Followed, FollowedBy, Sights
<1>4. Followed(p, K)'
  BY <1>3, FollowedNext
<1> QED BY <1>1, <1>4

LEMMA ProgressSyncSight ==
  ASSUME Inv, ProgressInv, NEW p \in Importer, SyncSight(p) PROVE ProgressInv'
<1>1. PICK r : r = mem[p]
  OBVIOUS
<1>2. /\ IsMemory(r) /\ r.todo \subseteq DOMAIN r.rows /\ pc[p] = "los" /\ los \in Seq(LosRow) /\ today \in Day
  <2>1. pc[p] = "los"
    BY DEF SyncSight
  <2> QED BY <1>1, <2>1, Remembered DEF Holding
<1>3. UNCHANGED <<uisp, steady>> /\ UNCHANGED <<uisp, devices, links>>
  BY DEF SyncSight
<1> DEFINE F(i) == IF Sighted(p, r.rows[i]) THEN Sights(Pair(r.rows[i])) ELSE {}
<1>4. PICK i \in r.todo :
        /\ los' = [k \in DOMAIN los |-> IF k \in F(i) THEN Resighted(los[k], r.rows[i]) ELSE los[k]]
        /\ mem' = [mem EXCEPT ![p].todo = @ \ {i}, ![p].at = i, ![p].pair = Pair(r.rows[i])]
        /\ Goto(p, IF Sighted(p, r.rows[i]) /\ F(i) = {} THEN "createLos" ELSE "los")
  BY <1>1 DEF SyncSight
<1>5. PICK pair, found : pair = Pair(r.rows[i]) /\ found = F(i)
  OBVIOUS
<1>6. PICK s : s = IF Sighted(p, r.rows[i]) /\ found = {} THEN "createLos" ELSE "los"
  OBVIOUS
<1>7. PICK m : m = [r EXCEPT !.todo = @ \ {i}, !.at = i, !.pair = pair]
  OBVIOUS
<1>8. m.todo = r.todo \ {i} /\ m.at = i /\ m.pair = pair /\ m.rows = r.rows
  BY <1>2, <1>7 DEF IsMemory, Field
<1>9. mem' = [mem EXCEPT ![p] = m]
  BY <1>1, <1>4, <1>5, <1>7
<1>10. pc' = [pc EXCEPT ![p] = s]
  BY <1>4, <1>5, <1>6 DEF Goto
<1>11. s \in {"los", "createLos", "finish"}
  BY <1>6
<1> SUFFICES ASSUME SightsSoFar(p, "los", r) PROVE SightsSoFar(p, s, m)'
  BY <1>1, <1>2, <1>3, <1>9, <1>10, <1>11, ProgressSights
<1>12. r.rows = links /\ i \in DOMAIN links /\ links' = links
  BY <1>2, <1>3 DEF SightsSoFar
<1>13. PICK J : J = DOMAIN links \ r.todo
  OBVIOUS
<1>14. Followed(p, J) /\ DOMAIN links \ m.todo = J \cup {i} /\ DOMAIN links \ (m.todo \cup {i}) = J
  BY <1>2, <1>8, <1>12, <1>13 DEF SightsSoFar
<1>15. CASE ~Sighted(p, links[i])
  <2>1. found = {} /\ s = "los"
    BY <1>5, <1>6, <1>12, <1>15
  <2>2. los' = los
    BY <1>2, <1>4, <1>5, <2>1
  <2>3. Followed(p, J \cup {i})'
    BY <1>3, <1>14, <1>15, <2>2, SkipFollows
  <2>4. DOMAIN links' \ m.todo = J \cup {i} /\ m.rows = links'
    BY <1>8, <1>12, <1>14
  <2> QED BY <2>1, <2>3, <2>4 DEF SightsSoFar
<1>16. CASE Sighted(p, links[i]) /\ found # {}
  <2>1. found = Sights(Pair(links[i])) /\ s = "los"
    BY <1>5, <1>6, <1>12, <1>16
  <2>2. los' = [k \in DOMAIN los |-> IF k \in found THEN Resighted(los[k], links[i]) ELSE los[k]]
    BY <1>4, <1>5, <1>12
  <2>3. today # Null
    BY <1>2, ImportAssumption
  <2>4. Followed(p, J \cup {i})'
    BY <1>2, <1>3, <1>14, <1>16, <2>1, <2>2, <2>3, SyncFollows
  <2>5. DOMAIN links' \ m.todo = J \cup {i} /\ m.rows = links'
    BY <1>8, <1>12, <1>14
  <2> QED BY <2>1, <2>4, <2>5 DEF SightsSoFar
<1>17. CASE Sighted(p, links[i]) /\ found = {}
  <2>1. s = "createLos" /\ Sights(pair) = {} /\ pair = Pair(links[i])
    BY <1>5, <1>6, <1>12, <1>17
  <2>2. los' = los
    BY <1>2, <1>4, <1>5, <1>17
  <2>3. Sighted(p, links[m.at])' /\ m.pair = Pair(links[m.at])'
    BY <1>3, <1>8, <1>12, <1>17, <2>1, SightedStay
  <2>4. Sights(m.pair)' = {}
    BY <1>8, <2>1, <2>2 DEF Sights
  <2>5. Followed(p, J)'
    <3>1. \A j \in J : Sighted(p, links[j]) => FollowedBy(p, J, links[j], Pair(links[j]))
      BY <1>14, <2>2 DEF Followed, FollowedBy, Sights
    <3> QED BY <1>3, <3>1, FollowedNext
  <2>6. DOMAIN links' \ (m.todo \cup {m.at}) = J /\ m.rows = links' /\ m.at \in DOMAIN links' /\ m.at \notin m.todo
    BY <1>8, <1>12, <1>14
  <2> QED BY <2>1, <2>3, <2>4, <2>5, <2>6 DEF SightsSoFar
<1> QED BY <1>15, <1>16, <1>17

LEMMA ProgressCreateSight ==
  ASSUME Inv, ProgressInv, NEW p \in Importer, CreateSight(p) PROVE ProgressInv'
<1>1. PICK m : m = mem[p]
  OBVIOUS
<1>2. mem' = [mem EXCEPT ![p] = m] /\ pc' = [pc EXCEPT ![p] = "los"] /\ pc[p] = "createLos" /\ los \in Seq(LosRow)
  <2>1. mem = [mem EXCEPT ![p] = mem[p]] /\ los \in Seq(LosRow)
    BY Remembered
  <2> QED BY <1>1, <2>1 DEF CreateSight, Goto
<1>3. UNCHANGED <<uisp, steady>> /\ UNCHANGED <<uisp, devices, links>>
  BY DEF CreateSight
<1> SUFFICES ASSUME SightsSoFar(p, "createLos", m) PROVE SightsSoFar(p, "los", m)'
  BY <1>1, <1>2, <1>3, ProgressSights
<1>4. PICK J, i, pair : J = DOMAIN links \ (m.todo \cup {m.at}) /\ i = m.at /\ pair = m.pair
  OBVIOUS
<1>5. /\ m.rows = links /\ i \in DOMAIN links /\ i \notin m.todo /\ pair = Pair(links[i])
      /\ Sighted(p, links[i]) /\ Sights(pair) = {} /\ Followed(p, J)
  BY <1>4 DEF SightsSoFar
<1>6. PICK f : f = FunctioningDate(links[i])
  OBVIOUS
<1>7. PICK e : e = [pair |-> pair, source |-> "Existing Link", date |-> f]
  OBVIOUS
<1>8. los' = Append(los, e)
  BY <1>1, <1>4, <1>5, <1>6, <1>7 DEF CreateSight
<1>9. PICK n : DOMAIN los' = DOMAIN los \cup {n} /\ (\A k \in DOMAIN los : los'[k] = los[k]) /\ los'[n] = e
  <2>1. /\ DOMAIN los' = DOMAIN los \cup {Len(los) + 1}
        /\ \A k \in DOMAIN los : los'[k] = los[k]
        /\ los'[Len(los) + 1] = e
    BY <1>2, <1>8
  <2> QED BY <2>1
<1>10. PICK K : K = J \cup {i}
  OBVIOUS
<1>11. \A j \in J : Sighted(p, links[j]) => Pair(links[j]) # pair
  BY <1>5 DEF Followed
<1>12. \A other : other # pair \/ f = Null => Dates(p, K, other) = Dates(p, J, other)
  BY <1>5, <1>6, <1>10, OneMore
<1>13. Dates(p, J, pair) = {}
  BY <1>11 DEF Dates, Between
<1>14. e.pair = pair /\ e.source = "Existing Link" /\ e.date = f
  BY <1>7
<1>15. f # Null => f \in Dates(p, K, pair)
  BY <1>5, <1>6, <1>10, OneMore
<1>16. \A j \in K : Sighted(p, links[j]) => FollowedBy(p, K, links[j], Pair(links[j]))
  <2> SUFFICES ASSUME NEW j \in K, Sighted(p, links[j]) PROVE FollowedBy(p, K, links[j], Pair(links[j]))
    OBVIOUS
  <2>1. CASE Pair(links[j]) # pair
    <3>1. j \in J /\ Dates(p, K, Pair(links[j])) = Dates(p, J, Pair(links[j]))
      BY <1>5, <1>10, <1>12, <2>1
    <3>2. \A k \in DOMAIN los' : los'[k].pair = Pair(links[j]) => k \in DOMAIN los /\ los'[k] = los[k]
      BY <1>9, <1>14, <2>1
    <3>3. /\ \E k \in DOMAIN los : los[k].pair = Pair(links[j])
          /\ \A k \in DOMAIN los : los[k].pair = Pair(links[j]) =>
               /\ links[j].status = "Active" => los[k].source = "Existing Link"
               /\ los[k].source = "Existing Link" =>
                    los[k].date \in Dates(p, J, Pair(links[j])) \/ Dates(p, J, Pair(links[j])) = {}
      BY <1>5, <3>1 DEF Followed, Sights
    <3>4. \E k \in DOMAIN los' : los'[k].pair = Pair(links[j])
      BY <1>9, <3>3
    <3>5. ASSUME NEW k \in DOMAIN los', los'[k].pair = Pair(links[j])
          PROVE  /\ links[j].status = "Active" => los'[k].source = "Existing Link"
                 /\ los'[k].source = "Existing Link" =>
                      los'[k].date \in Dates(p, K, Pair(links[j])) \/ Dates(p, K, Pair(links[j])) = {}
      <4>1. k \in DOMAIN los /\ los'[k] = los[k] /\ los[k].pair = Pair(links[j])
        BY <3>2, <3>5
      <4>2. PICK D : D = Dates(p, J, Pair(links[j])) /\ D = Dates(p, K, Pair(links[j]))
        BY <3>1
      <4>3. /\ links[j].status = "Active" => los[k].source = "Existing Link"
            /\ los[k].source = "Existing Link" => los[k].date \in D \/ D = {}
        BY <3>3, <4>1, <4>2
      <4> QED BY <4>1, <4>2, <4>3
    <3> QED BY <3>4, <3>5 DEF FollowedBy
  <2>2. CASE Pair(links[j]) = pair
    <3>1. \A k \in DOMAIN los' : los'[k].pair = pair => los'[k] = e
      BY <1>5, <1>9 DEF Sights
    <3>2. \E k \in DOMAIN los' : los'[k].pair = pair
      BY <1>9, <1>14
    <3>3. e.source = "Existing Link" /\ (e.date \in Dates(p, K, pair) \/ Dates(p, K, pair) = {})
      BY <1>12, <1>13, <1>15, <1>14
    <3> QED BY <2>2, <3>1, <3>2, <3>3 DEF FollowedBy
  <2> QED BY <2>1, <2>2
<1>17. Followed(p, K)'
  BY <1>3, <1>16, FollowedNext
<1>18. DOMAIN links' \ m.todo = K /\ m.rows = links'
  BY <1>3, <1>4, <1>5, <1>10
<1> QED BY <1>17, <1>18 DEF SightsSoFar

(* An import that ends or fails, and any change of UISP.                   *)
LEMMA ProgressEnd ==
  ASSUME Inv, ProgressInv, NEW p \in Importer, Finish(p) \/ Fail(p) PROVE ProgressInv'
<1>1. PICK m : m = NoMemory
  OBVIOUS
<1>2. /\ mem' = [mem EXCEPT ![p] = m] /\ pc' = [pc EXCEPT ![p] = "idle"] /\ pc[p] # "idle"
      /\ UNCHANGED <<uisp, steady>>
  BY <1>1 DEF Finish, Fail, Goto
<1> QED BY <1>2, ProgressStep

LEMMA ProgressChange ==
  ASSUME Inv, ProgressInv,
         UNCHANGED vars \/ (\E d \in UDev : ChangeDevice(d)) \/ (\E l \in ULink : ChangeLink(l)) \/ NextDay
  PROVE  ProgressInv'
<1>1. CASE UNCHANGED vars
  <2>1. UNCHANGED <<uisp, devices, links, los, pc, mem, steady>> /\ UNCHANGED <<uisp, devices, links>>
        /\ UNCHANGED <<uisp, devices>> /\ UNCHANGED <<today, udev, ulink>>
    BY <1>1 DEF vars, meshdb, uisp
  <2>2. ASSUME NEW p \in Importer PROVE SoFar(p, pc[p], mem[p]) => SoFar(p, pc[p], mem[p])'
    <3>1. DevicesSoFar(p, pc[p], mem[p]) => DevicesSoFar(p, pc[p], mem[p])'
      BY <2>1, DevicesStay DEF DevicesSoFar
    <3>2. LinksSoFar(p, pc[p], mem[p]) => LinksSoFar(p, pc[p], mem[p])'
      BY <2>1, DevicesStay, LinksStay DEF LinksSoFar
    <3>3. \A I : Followed(p, I) => Followed(p, I)'
      <4> SUFFICES ASSUME NEW I, Followed(p, I) PROVE Followed(p, I)'
        OBVIOUS
      <4>1. \A j \in I : Sighted(p, links[j]) => FollowedBy(p, I, links[j], Pair(links[j]))
        BY <2>1 DEF Followed, FollowedBy, Sights
      <4> QED BY <2>1, <4>1, FollowedNext
    <3>4. SightsSoFar(p, pc[p], mem[p]) => SightsSoFar(p, pc[p], mem[p])'
      BY <2>1, <3>3, SightedStay DEF SightsSoFar, Sights
    <3> QED BY <3>1, <3>2, <3>4 DEF SoFar
  <2> QED BY <2>1, <2>2 DEF ProgressInv, Lone
<1>2. CASE (\E d \in UDev : ChangeDevice(d)) \/ (\E l \in ULink : ChangeLink(l)) \/ NextDay
  <2>1. steady' = [p \in Importer |-> FALSE]
    BY <1>2 DEF ChangeDevice, ChangeLink, Change, NextDay
  <2> QED BY <2>1 DEF ProgressInv
<1> QED BY <1>1, <1>2

LEMMA NextProgress == Inv /\ ProgressInv /\ [Next]_vars => ProgressInv'
<1> SUFFICES ASSUME Inv, ProgressInv, [Next]_vars PROVE ProgressInv'
  OBVIOUS
<1>1. ASSUME NEW p \in Importer,
             FetchDevices(p) \/ LookUpDevice(p) \/ UpdateDevice(p) \/ CreateDevice(p)
               \/ SweepDevices(p) \/ SaveLostDevices(p)
      PROVE  ProgressInv'
  BY <1>1, ProgressFetchDevices, ProgressLookUpDevice, ProgressUpdateDevice, ProgressCreateDevice,
     ProgressSweepDevices, ProgressSaveLostDevices
<1>2. ASSUME NEW p \in Importer,
             FetchLinks(p) \/ FindEnds(p) \/ LookUpLink(p) \/ UpdateLink(p) \/ CreateLink(p) \/ SweepLinks(p) \/ SaveLostLinks(p)
      PROVE  ProgressInv'
  BY <1>2, ProgressFetchLinks, ProgressFindEnds, ProgressLookUpLink, ProgressUpdateLink, ProgressCreateLink,
     ProgressSweepLinks, ProgressSaveLostLinks
<1>3. ASSUME NEW p \in Importer,
             ReadLinks(p) \/ SyncSight(p) \/ CreateSight(p) \/ EndSights(p) \/ Finish(p) \/ Fail(p)
      PROVE  ProgressInv'
  BY <1>3, ProgressReadLinks, ProgressSyncSight, ProgressCreateSight, ProgressEndSights, ProgressEnd
<1> QED BY <1>1, <1>2, <1>3, ProgressChange DEF Next

LEMMA InitProgress == Init => ProgressInv
BY DEF Init, ProgressInv

(* An import that was alone while UISP stayed as it was leaves the devices *)
(* that it is for, and the links between devices that are one row each, as *)
(* UISP has them, and what UISP does not know inactive, whatever earlier   *)
(* imports left behind (sync_handlers.py l.177-192, l.334-347,             *)
(* update_objects.py l.35-60).                                             *)
THEOREM ImportMirrors == Spec => []Mirrored
<1>1. Init => Inv /\ ProgressInv
  BY InitInv, InitProgress
<1>2. (Inv /\ ProgressInv) /\ [Next]_vars => (Inv /\ ProgressInv)'
  BY NextInv, NextProgress
<1>3. ProgressInv => Mirrored
  <2> SUFFICES ASSUME ProgressInv, NEW p \in Importer, pc[p] = "finish", steady[p]
               PROVE  DevicesDone(p) /\ LinksDone(p)
    BY DEF Mirrored, DevicesDone, DevicesMirrored, LinksDone, LinksMirrored, Due
  <2>1. DevicesSoFar(p, "finish", mem[p]) /\ LinksSoFar(p, "finish", mem[p])
    BY DEF ProgressInv, SoFar
  <2> QED BY <2>1 DEF DevicesSoFar, LinksSoFar
<1> QED BY <1>1, <1>2, <1>3, PTL DEF Spec

(* Such an import leaves a line of sight between the buildings of each     *)
(* link that it is for, whose date is the last day of one of the links     *)
(* between the two, in whatever order they are taken                      *)
(* (sync_handlers.py l.350-420).                                           *)
THEOREM SightsAreFollowed == Spec => []SightsFollow
<1>1. Init => Inv /\ ProgressInv
  BY InitInv, InitProgress
<1>2. (Inv /\ ProgressInv) /\ [Next]_vars => (Inv /\ ProgressInv)'
  BY NextInv, NextProgress
<1>3. ProgressInv => SightsFollow
  <2> SUFFICES ASSUME ProgressInv, NEW p \in Importer, pc[p] = "finish", steady[p], NEW i \in DOMAIN links,
                      Sighted(p, links[i])
               PROVE  LET between == {links[j] : j \in {k \in DOMAIN links :
                                        Sighted(p, links[k]) /\ Pair(links[k]) = Pair(links[i])}}
                          dates == {FunctioningDate(link) : link \in between} \ {Null}
                      IN
                      /\ Sights(Pair(links[i])) # {}
                      /\ \A k \in Sights(Pair(links[i])) :
                           /\ links[i].status = "Active" => los[k].source = "Existing Link"
                           /\ los[k].source = "Existing Link" => los[k].date \in dates \/ dates = {}
    BY DEF SightsFollow
  <2>1. Followed(p, DOMAIN links)
    BY DEF ProgressInv, SoFar, SightsSoFar
  <2>2. {FunctioningDate(link) : link \in {links[j] : j \in {k \in DOMAIN links :
           Sighted(p, links[k]) /\ Pair(links[k]) = Pair(links[i])}}} \ {Null}
          = Dates(p, DOMAIN links, Pair(links[i]))
    BY DEF Dates, Between
  <2> QED BY <2>1, <2>2 DEF Followed
<1> QED BY <1>1, <1>2, <1>3, PTL DEF Spec
=============================================================================
