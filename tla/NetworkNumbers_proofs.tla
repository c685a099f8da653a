----------------------- MODULE NetworkNumbers_proofs -----------------------
(***************************************************************************)
(* Theorems about NetworkNumbers, for any number of sessions, nodes,       *)
(* installs and buildings; but for the last, which is of one session and   *)
(* false of more.                                                          *)
(***************************************************************************)
EXTENDS NetworkNumbers, TLAPS

(* The labels at which a session holds a Node object, and those at which a *)
(* form holds its install's and building's rows.                           *)
HasNode == {"edit", "number", "scanInstalls", "scanNodes", "claimCheck", "claimDonor",
            "save", "saveCheck", "saveDonor", "write"}

HoldsInstall == (HasNode \ {"edit"}) \cup {"node"}

(* What a session remembers at each label. *)
Memory(p) ==
  /\ pc[p] \in HasNode => obj[p].id \in Node
  /\ pc[p] = "lock" /\ ~IsForm(p) => obj[p].id \in Node
  /\ pc[p] \in {"node", "number"} => IsForm(p)
  /\ pc[p] \in {"idle", "edit", "close"} => inum[p] = Null
  /\ pc[p] = "editInstall" => inum[p] \in Installs
  /\ IsForm(p) /\ pc[p] \in HoldsInstall =>
       /\ inum[p] \in Installs
       /\ installLock[inum[p]] = p
       /\ primaryLock[BuildingOf[inum[p]]] = p

MemoryInv == \A p \in Proc : Memory(p)

LEMMA InitType == Init => TypeOK /\ MemoryInv
<1> SUFFICES ASSUME Init PROVE TypeOK /\ MemoryInv
  OBVIOUS
<1>1. PICK db \in Start : nodes = db.nodes /\ installs = db.installs /\ primary = db.primary
  BY DEF Init
<1>2. /\ nodes \in [Node -> NodeRow] /\ installs \in [Installs -> InstallRow]
      /\ primary \in [Building -> Node \cup {Null}]
  BY <1>1, StartAssumption
<1>3. NoObject \in NodeObject /\ NoInstall \in InstallRow /\ Null \in Number
  BY DEF NodeObject, NoObject, NodeStatus, Number, NoInstall, InstallRow, InstallStatus
<1>5. TypeOK
  <2>1. /\ nodesW \in [Node -> NodeRow] /\ installsW \in [Installs -> InstallRow]
        /\ primaryW \in [Building -> Node \cup {Null}]
    BY <1>2 DEF Init
  <2>2. /\ nodeLock \in [Node -> Proc \cup {NoProc}]
        /\ installLock \in [Installs -> Proc \cup {NoProc}]
        /\ primaryLock \in [Building -> Proc \cup {NoProc}]
        /\ advisory \in Proc \cup {NoProc}
    BY DEF Init
  <2>3. /\ pc \in [Proc -> Label] /\ obj \in [Proc -> NodeObject]
        /\ inum \in [Proc -> Number] /\ row \in [Proc -> InstallRow]
        /\ seen \in [Proc -> SUBSET Installs] /\ reply \in [Proc -> Reply]
    BY <1>3 DEF Init, Label, Reply
  <2> QED BY <1>2, <2>1, <2>2, <2>3 DEF TypeOK
<1>4. MemoryInv
  BY DEF Init, MemoryInv, Memory, HasNode, HoldsInstall, IsForm
<1> QED BY <1>4, <1>5


-----------------------------------------------------------------------------
(* A step of p leaves the memory and the locks of the others alone.        *)
Others(p) ==
  \A q \in Proc \ {p} :
    /\ pc'[q] = pc[q] /\ obj'[q] = obj[q] /\ inum'[q] = inum[q]
    /\ \A i \in Installs : installLock[i] = q => installLock'[i] = q
    /\ \A b \in Building : primaryLock[b] = q => primaryLock'[b] = q

LEMMA OthersMemory ==
  ASSUME NEW p \in Proc, MemoryInv, Others(p), Memory(p)'
  PROVE  MemoryInv'
<1> SUFFICES ASSUME NEW q \in Proc PROVE Memory(q)'
  BY DEF MemoryInv
<1>1. CASE q = p
  BY <1>1
<1>2. CASE q # p
  <2>1. Memory(q)
    BY DEF MemoryInv
  <2>2. /\ pc'[q] = pc[q] /\ obj'[q] = obj[q] /\ inum'[q] = inum[q]
        /\ \A i \in Installs : installLock[i] = q => installLock'[i] = q
        /\ \A b \in Building : primaryLock[b] = q => primaryLock'[b] = q
    BY <1>2 DEF Others
  <2>3. inum[q] \in Installs => BuildingOf[inum[q]] \in Building
    BY BuildingAssumption
  <2> QED BY <2>1, <2>2, <2>3 DEF Memory, IsForm
<1> QED BY <1>1, <1>2

LEMMA ObjectType ==
  ASSUME NEW o \in NodeObject
  PROVE  /\ \A k \in Number : [o EXCEPT !.nn = k] \in NodeObject /\ [o EXCEPT !.nn = k].id = o.id
         /\ Revived(o) \in NodeObject /\ Revived(o).id = o.id
BY DEF NodeObject, Revived, NodeStatus

LEMMA MergeType ==
  ASSUME NEW R, NEW S, NEW new \in [R -> S], NEW old \in [R -> S], NEW lock \in [R -> Proc \cup {NoProc}],
         NEW p \in Proc
  PROVE  /\ Merge(new, old, lock, p) \in [R -> S]
         /\ \A r \in R : Merge(new, old, lock, p)[r] = IF lock[r] = p THEN new[r] ELSE old[r]
BY DEF Merge

LEMMA UnlockedType ==
  ASSUME TypeOK, NEW p \in Proc, Unlocked(p)
  PROVE  /\ nodeLock' \in [Node -> Proc \cup {NoProc}]
         /\ installLock' \in [Installs -> Proc \cup {NoProc}]
         /\ primaryLock' \in [Building -> Proc \cup {NoProc}]
         /\ \A n \in Node : nodeLock'[n] = IF nodeLock[n] = p THEN NoProc ELSE nodeLock[n]
         /\ \A i \in Installs : installLock'[i] = IF installLock[i] = p THEN NoProc ELSE installLock[i]
         /\ \A b \in Building : primaryLock'[b] = IF primaryLock[b] = p THEN NoProc ELSE primaryLock[b]
<1>1. /\ nodeLock \in [Node -> Proc \cup {NoProc}] /\ nodeLock' = Unlock(nodeLock, p)
  BY DEF TypeOK, Unlocked
<1>2. /\ installLock \in [Installs -> Proc \cup {NoProc}] /\ installLock' = Unlock(installLock, p)
  BY DEF TypeOK, Unlocked
<1>3. /\ primaryLock \in [Building -> Proc \cup {NoProc}] /\ primaryLock' = Unlock(primaryLock, p)
  BY DEF TypeOK, Unlocked
<1>4. /\ nodeLock' \in [Node -> Proc \cup {NoProc}]
      /\ \A n \in Node : nodeLock'[n] = IF nodeLock[n] = p THEN NoProc ELSE nodeLock[n]
  BY <1>1 DEF Unlock
<1>5. /\ installLock' \in [Installs -> Proc \cup {NoProc}]
      /\ \A i \in Installs : installLock'[i] = IF installLock[i] = p THEN NoProc ELSE installLock[i]
  BY <1>2 DEF Unlock
<1>6. /\ primaryLock' \in [Building -> Proc \cup {NoProc}]
      /\ \A b \in Building : primaryLock'[b] = IF primaryLock[b] = p THEN NoProc ELSE primaryLock[b]
  BY <1>3 DEF Unlock
<1> QED BY <1>4, <1>5, <1>6

LEMMA FinishType ==
  ASSUME TypeOK, NEW p \in Proc, NEW a \in Reply, NEW l \in Label, Finish(p, a, l)
  PROVE  /\ pc' \in [Proc -> Label] /\ pc'[p] = l /\ \A q \in Proc \ {p} : pc'[q] = pc[q]
         /\ reply' \in [Proc -> Reply] /\ advisory' \in Proc \cup {NoProc}
BY DEF TypeOK, Finish, Goto

LEMMA GotoType ==
  ASSUME TypeOK, NEW p \in Proc, NEW l \in Label, Goto(p, l)
  PROVE  pc' \in [Proc -> Label] /\ pc'[p] = l /\ \A q \in Proc \ {p} : pc'[q] = pc[q]
BY DEF TypeOK, Goto

-----------------------------------------------------------------------------
LEMMA PostFormType ==
  ASSUME NEW p \in Proc, NEW i \in Installs \cup {0}, TypeOK, MemoryInv, PostForm(p, i)
  PROVE  TypeOK' /\ MemoryInv'
<1>1. TypeOK'
  BY NumberAssumption DEF TypeOK, PostForm, Goto, Label, Number, committed, latest, locks
<1>2. MemoryInv'
  BY NumberAssumption DEF MemoryInv, Memory, TypeOK, PostForm, Goto, HasNode, HoldsInstall, IsForm, locks
<1> QED BY <1>1, <1>2

LEMMA AcquireLockType ==
  ASSUME NEW p \in Proc, TypeOK, MemoryInv, AcquireLock(p)
  PROVE  TypeOK' /\ MemoryInv'
<1>1. TypeOK'
  BY DEF TypeOK, AcquireLock, Goto, Label, committed, latest, locks
<1>2. MemoryInv'
  BY DEF MemoryInv, Memory, TypeOK, AcquireLock, Goto, HasNode, HoldsInstall, IsForm, locks
<1> QED BY <1>1, <1>2

LEMMA LockInstallType ==
  ASSUME NEW p \in Proc, TypeOK, MemoryInv, LockInstall(p)
  PROVE  TypeOK' /\ MemoryInv'
<1>1. TypeOK'
  BY BuildingAssumption DEF TypeOK, LockInstall, Goto, Label, committed, latest, locks, Finish, Answer, Reply
<1>2. CASE inum[p] \notin Installs
  <2>1. Others(p)
    BY <1>2 DEF Others, TypeOK, LockInstall, locks, Answer, Finish, Goto
  <2>2. Memory(p)'
    BY <1>2 DEF Memory, TypeOK, LockInstall, locks, Answer, Finish, Goto, HasNode, HoldsInstall, IsForm
  <2> QED BY <1>1, <2>1, <2>2, OthersMemory
<1>3. CASE inum[p] \in Installs
  <2>1. Others(p)
    BY <1>3, ProcAssumption, BuildingAssumption DEF Others, TypeOK, LockInstall, Goto
  <2>2. Memory(p)'
    BY <1>3, BuildingAssumption, NumberAssumption
    DEF Memory, TypeOK, LockInstall, Goto, HasNode, HoldsInstall, IsForm
  <2> QED BY <1>1, <2>1, <2>2, OthersMemory
<1> QED BY <1>2, <1>3

(* Three shapes of a step that touches no row: the view ends, the object    *)
(* in memory is replaced, or only the label moves.                          *)
LEMMA FinishStep ==
  ASSUME NEW p \in Proc, TypeOK, MemoryInv, NEW a \in Reply, NEW l \in {"commit", "rollback"},
         Finish(p, a, l), UNCHANGED <<committed, latest, locks, obj, inum, row, seen>>
  PROVE  TypeOK' /\ MemoryInv'
<1>1. /\ pc' \in [Proc -> Label] /\ pc'[p] = l /\ \A q \in Proc \ {p} : pc'[q] = pc[q]
      /\ reply' \in [Proc -> Reply] /\ advisory' \in Proc \cup {NoProc}
  BY FinishType DEF Label
<1>2. TypeOK'
  BY <1>1 DEF TypeOK, committed, latest, locks
<1>3. Others(p) /\ Memory(p)'
  BY <1>1 DEF Others, Memory, locks, HasNode, HoldsInstall
<1> QED BY <1>2, <1>3, OthersMemory

LEMMA ObjectStep ==
  ASSUME NEW p \in Proc, TypeOK, MemoryInv, NEW o \in NodeObject, o.id \in Node, NEW l \in HasNode,
         obj' = [obj EXCEPT ![p] = o], Goto(p, l),
         UNCHANGED <<committed, latest, locks, advisory, inum, row, seen, reply>>,
         l = "number" => IsForm(p), l = "edit" => inum[p] = Null,
         IsForm(p) => pc[p] \in HoldsInstall
  PROVE  TypeOK' /\ MemoryInv'
<1>1. pc' \in [Proc -> Label] /\ pc'[p] = l /\ \A q \in Proc \ {p} : pc'[q] = pc[q]
  BY GotoType DEF Label, HasNode
<1>2. obj' \in [Proc -> NodeObject] /\ obj'[p] = o /\ \A q \in Proc \ {p} : obj'[q] = obj[q]
  BY DEF TypeOK
<1>3. TypeOK'
  BY <1>1, <1>2 DEF TypeOK, committed, latest, locks
<1>4. Others(p)
  BY <1>1, <1>2 DEF Others, locks
<1>5. Memory(p)'
  BY <1>1, <1>2 DEF MemoryInv, Memory, locks, HasNode, HoldsInstall, IsForm
<1> QED BY <1>3, <1>4, <1>5, OthersMemory

LEMMA LabelStep ==
  ASSUME NEW p \in Proc, TypeOK, MemoryInv, NEW l \in HasNode \cup {"lock"}, Goto(p, l),
         UNCHANGED <<committed, latest, locks, advisory, obj, inum, row, reply>>,
         seen' \in [Proc -> SUBSET Installs],
         l # "edit", l # "number", pc[p] \in HasNode \ {"edit"}
  PROVE  TypeOK' /\ MemoryInv'
<1>1. pc' \in [Proc -> Label] /\ pc'[p] = l /\ \A q \in Proc \ {p} : pc'[q] = pc[q]
  BY GotoType DEF Label, HasNode
<1>2. TypeOK'
  BY <1>1 DEF TypeOK, committed, latest, locks
<1>3. Others(p)
  BY <1>1 DEF Others, locks
<1>4. Memory(p)'
  BY <1>1 DEF MemoryInv, Memory, locks, HasNode, HoldsInstall, IsForm
<1> QED BY <1>2, <1>3, <1>4, OthersMemory

LEMMA ChooseNodeType ==
  ASSUME NEW p \in Proc, TypeOK, MemoryInv, ChooseNode(p)
  PROVE  TypeOK' /\ MemoryInv'
<1> DEFINE i == inum[p]
<1>1. pc[p] = "node" /\ i \in Installs /\ IsForm(p)
  BY DEF MemoryInv, Memory, ChooseNode, HoldsInstall
<1>2. UNCHANGED <<committed, latest, locks, inum, row, seen>>
  BY DEF ChooseNode
<1>3. CASE UNCHANGED obj /\ (Answer(p, "409") \/ Answer(p, "200"))
  BY <1>2, <1>3, FinishStep DEF Answer, Reply
<1>4. ASSUME NEW o \in NodeObject, o.id \in Node, NEW l \in {"number", "save"},
             obj' = [obj EXCEPT ![p] = o], Goto(p, l), UNCHANGED <<advisory, reply>>
      PROVE  TypeOK' /\ MemoryInv'
  BY <1>1, <1>2, <1>4, ObjectStep DEF HasNode, HoldsInstall
<1>5. ASSUME Reusable(i) # Null, obj' = [obj EXCEPT ![p] = Revived(ObjectOf(Reusable(i)))],
             UNCHANGED <<advisory, reply>>, Goto(p, "number") \/ Goto(p, "save")
      PROVE  TypeOK' /\ MemoryInv'
  <2>1. Reusable(i) \in Node
    BY <1>1, <1>5, BuildingAssumption DEF Reusable, TypeOK, InstallRow
  <2> DEFINE o == ObjectOf(Reusable(i))
  <2>2. o \in NodeObject /\ o.id \in Node
    BY <2>1 DEF ObjectOf, NodeObject, TypeOK, NodeRow
  <2>3. Revived(o) \in NodeObject /\ Revived(o).id \in Node
    BY <2>2, ObjectType
  <2>4. obj' = [obj EXCEPT ![p] = Revived(o)]
    BY <1>5
  <2> HIDE DEF o
  <2> QED BY <1>4, <1>5, <2>3, <2>4
<1>6. ASSUME NEW n \in Fresh, UNCHANGED <<advisory, reply>>, Goto(p, "number"),
             obj' = [obj EXCEPT ![p] = [id |-> n, adding |-> TRUE, nn |-> Null, status |-> "PLANNED"]]
      PROVE  TypeOK' /\ MemoryInv'
  <2> DEFINE o == [id |-> n, adding |-> TRUE, nn |-> Null, status |-> "PLANNED"]
  <2>1. o \in NodeObject /\ o.id \in Node
    BY DEF NodeObject, NodeStatus, Number, Fresh
  <2>2. obj' = [obj EXCEPT ![p] = o]
    BY <1>6
  <2> HIDE DEF o
  <2> QED BY <1>4, <1>6, <2>1, <2>2
<1> QED BY <1>3, <1>5, <1>6 DEF ChooseNode

LEMMA ChooseNumberType ==
  ASSUME NEW p \in Proc, TypeOK, MemoryInv, ChooseNumber(p)
  PROVE  TypeOK' /\ MemoryInv'
<1>1. /\ pc[p] = "number" /\ inum[p] \in Installs /\ obj[p].id \in Node /\ IsForm(p)
      /\ obj[p] \in NodeObject
  BY DEF MemoryInv, Memory, ChooseNumber, HoldsInstall, HasNode, TypeOK
<1>2. CASE OwnNumberUsable(inum[p])
  <2> DEFINE o == [obj[p] EXCEPT !.nn = inum[p]]
  <2>1. o \in NodeObject /\ o.id \in Node
    BY <1>1, ObjectType, NumberAssumption DEF Number
  <2>2. obj' = [obj EXCEPT ![p] = o] /\ Goto(p, "save")
    BY <1>2 DEF ChooseNumber
  <2>3. UNCHANGED <<committed, latest, locks, advisory, inum, row, seen, reply>>
    BY DEF ChooseNumber
  <2> HIDE DEF o
  <2> QED BY <1>1, <2>1, <2>2, <2>3, ObjectStep DEF HasNode, HoldsInstall
<1>3. CASE ~OwnNumberUsable(inum[p])
  BY <1>1, <1>3, LabelStep DEF ChooseNumber, HasNode, TypeOK
<1> QED BY <1>2, <1>3

LEMMA ScanInstallsType ==
  ASSUME NEW p \in Proc, TypeOK, MemoryInv, ScanInstalls(p)
  PROVE  TypeOK' /\ MemoryInv'
<1>1. seen' \in [Proc -> SUBSET Installs]
  BY DEF TypeOK, ScanInstalls, Unavailable
<1> QED BY <1>1, LabelStep DEF ScanInstalls, HasNode

LEMMA ScanNodesType ==
  ASSUME NEW p \in Proc, TypeOK, MemoryInv, ScanNodes(p)
  PROVE  TypeOK' /\ MemoryInv'
<1>1. pc[p] = "scanNodes" /\ obj[p].id \in Node /\ obj[p] \in NodeObject
  BY DEF MemoryInv, Memory, ScanNodes, HasNode, TypeOK
<1>2. UNCHANGED <<committed, latest, locks, inum, row, seen>>
  BY DEF ScanNodes
<1>3. CASE Raise(p, "StopIteration") /\ UNCHANGED obj
  BY <1>2, <1>3, FinishStep DEF Raise, Reply
<1>4. ASSUME NEW k \in FreeNumbers(p), obj' = [obj EXCEPT ![p].nn = k], Goto(p, "claimCheck"),
             UNCHANGED <<advisory, reply>>
      PROVE  TypeOK' /\ MemoryInv'
  <2> DEFINE o == [obj[p] EXCEPT !.nn = k]
  <2>1. k \in Number
    BY NumberAssumption DEF FreeNumbers, Number
  <2>2. o \in NodeObject /\ o.id \in Node
    BY <1>1, <2>1, ObjectType
  <2>3. obj' = [obj EXCEPT ![p] = o]
    BY <1>4
  <2> HIDE DEF o
  <2> QED BY <1>1, <1>2, <1>4, <2>2, <2>3, ObjectStep DEF HasNode, HoldsInstall
<1> QED BY <1>3, <1>4 DEF ScanNodes

LEMMA CheckNumberType ==
  ASSUME NEW p \in Proc, TypeOK, MemoryInv, CheckNumber(p)
  PROVE  TypeOK' /\ MemoryInv'
<1>1. UNCHANGED <<committed, latest, locks, obj, inum, row, seen>>
  BY DEF CheckNumber
<1>2. CASE ValueError(p)
  BY <1>1, <1>2, FinishStep DEF ValueError, Answer, Raise, Reply
<1>3. CASE (Goto(p, "claimDonor") \/ Goto(p, "saveDonor")) /\ UNCHANGED <<advisory, reply>>
  BY <1>1, <1>3, LabelStep DEF CheckNumber, HasNode, TypeOK
<1> QED BY <1>2, <1>3 DEF CheckNumber

LEMMA SaveNodeType ==
  ASSUME NEW p \in Proc, TypeOK, MemoryInv, SaveNode(p)
  PROVE  TypeOK' /\ MemoryInv'
<1>1. pc[p] = "save" /\ UNCHANGED <<committed, latest, locks, obj, inum, row, seen>>
  BY DEF SaveNode
<1>2. CASE Raise(p, "ValidationError")
  BY <1>1, <1>2, FinishStep DEF Raise, Reply
<1>3. CASE /\ Goto(p, "lock") \/ Goto(p, "write") \/ Goto(p, "saveCheck")
           /\ UNCHANGED <<advisory, reply>>
  BY <1>1, <1>3, LabelStep DEF HasNode, TypeOK
<1> QED BY <1>2, <1>3 DEF SaveNode

LEMMA ClaimDonorType ==
  ASSUME NEW p \in Proc, TypeOK, MemoryInv, ClaimDonor(p)
  PROVE  TypeOK' /\ MemoryInv'
<1> DEFINE k == obj[p].nn
<1>1. /\ pc[p] \in {"claimDonor", "saveDonor"} /\ UNCHANGED <<committed, obj, inum, row, seen>>
  BY DEF ClaimDonor
<1>2. CASE k \notin Installs
  <2>1. UNCHANGED <<latest, locks, advisory, reply>> /\ (Goto(p, "save") \/ Goto(p, "write"))
    BY <1>2 DEF ClaimDonor
  <2> QED BY <1>1, <2>1, LabelStep DEF HasNode, TypeOK
<1>3. CASE k \in Installs
  <2>1. /\ installLock[k] \in {NoProc, p} /\ installLock' = [installLock EXCEPT ![k] = p]
        /\ UNCHANGED <<nodeLock, primaryLock, nodesW, primaryW>>
    BY <1>3 DEF ClaimDonor, Claim
  <2>2. installsW' \in [Installs -> InstallRow]
    <3>1. Retired(k) \in [Installs -> InstallRow]
      BY <1>3 DEF Retired, TypeOK, InstallRow, InstallStatus
    <3>2. installsW' = installsW \/ installsW' = Retired(k)
      BY <1>3 DEF ClaimDonor
    <3> QED BY <3>1, <3>2 DEF TypeOK
  <2>3. \/ UNCHANGED <<advisory, reply>> /\ (Goto(p, "save") \/ Goto(p, "write"))
        \/ ValueError(p)
    BY <1>3 DEF ClaimDonor
  <2>4. /\ pc' \in [Proc -> Label] /\ pc'[p] \in {"save", "write", "commit", "rollback"}
        /\ \A q \in Proc \ {p} : pc'[q] = pc[q]
        /\ reply' \in [Proc -> Reply] /\ advisory' \in Proc \cup {NoProc}
    <3>1. CASE UNCHANGED <<advisory, reply>> /\ (Goto(p, "save") \/ Goto(p, "write"))
      BY <3>1, GotoType DEF Label, TypeOK
    <3>2. CASE ValueError(p)
      BY <3>2, FinishType DEF ValueError, Answer, Raise, Label, Reply
    <3> QED BY <2>3, <3>1, <3>2
  <2>5. TypeOK'
    BY <1>1, <2>1, <2>2, <2>4 DEF TypeOK, committed
  <2>6. Others(p)
    BY <1>1, <2>1, <2>4, ProcAssumption DEF Others, TypeOK
  <2>7. Memory(p)'
    BY <1>1, <2>1, <2>4, BuildingAssumption DEF MemoryInv, Memory, TypeOK, HasNode, HoldsInstall, IsForm
  <2> QED BY <2>5, <2>6, <2>7, OthersMemory
<1> QED BY <1>2, <1>3

LEMMA WriteNodeType ==
  ASSUME NEW p \in Proc, TypeOK, MemoryInv, WriteNode(p)
  PROVE  TypeOK' /\ MemoryInv'
<1>1. /\ pc[p] = "write" /\ obj[p].id \in Node /\ obj[p] \in NodeObject
      /\ UNCHANGED <<committed, installLock, primaryLock, obj, inum, row, seen>>
      /\ IsForm(p) => inum[p] \in Installs /\ BuildingOf[inum[p]] \in Building
  BY BuildingAssumption DEF MemoryInv, Memory, WriteNode, HoldsInstall, HasNode, TypeOK
<1>2. CASE StoreRows(p) /\ Answer(p, "saved")
  <2>1. [nn |-> obj[p].nn, status |-> obj[p].status] \in NodeRow
    BY <1>1 DEF NodeObject, NodeRow
  <2>2. nodesW' \in [Node -> NodeRow] /\ nodeLock' \in [Node -> Proc \cup {NoProc}]
    BY <1>2, <2>1 DEF StoreRows, TypeOK
  <2>3. IsForm(p) => Attached(inum[p], obj[p].id) \in InstallRow
    BY <1>1 DEF Attached, InstallRow, InstallStatus, TypeOK
  <2>4. /\ installsW' \in [Installs -> InstallRow]
        /\ primaryW' \in [Building -> Node \cup {Null}]
    <3>1. CASE IsForm(p)
      BY <1>1, <1>2, <2>3, <3>1 DEF StoreRows, TypeOK
    <3>2. CASE ~IsForm(p)
      BY <1>2, <3>2 DEF StoreRows, TypeOK
    <3> QED BY <3>1, <3>2
  <2>5. /\ pc' \in [Proc -> Label] /\ pc'[p] = "commit"
        /\ \A q \in Proc \ {p} : pc'[q] = pc[q]
        /\ reply' \in [Proc -> Reply] /\ advisory' \in Proc \cup {NoProc}
    BY <1>2, FinishType DEF Answer, Label, Reply
  <2>6. TypeOK'
    BY <1>1, <2>2, <2>4, <2>5 DEF TypeOK, committed
  <2>7. Others(p) /\ Memory(p)'
    BY <1>1, <2>5 DEF Others, Memory, HasNode, HoldsInstall
  <2> QED BY <2>6, <2>7, OthersMemory
<1>3. CASE DuplicateNumber(p) /\ UNCHANGED <<nodesW, nodeLock, primaryW>>
  <2>1. installsW' \in [Installs -> InstallRow]
    BY <1>1, <1>3 DEF DuplicateNumber, TypeOK
  <2>2. /\ pc' \in [Proc -> Label] /\ pc'[p] \in {"commit", "rollback"}
        /\ \A q \in Proc \ {p} : pc'[q] = pc[q]
        /\ reply' \in [Proc -> Reply] /\ advisory' \in Proc \cup {NoProc}
    <3>1. CASE Answer(p, "500")
      BY <3>1, FinishType DEF Answer, Label, Reply
    <3>2. CASE /\ reply' = [reply EXCEPT ![p] = "IntegrityError"]
               /\ Goto(p, "rollback") /\ UNCHANGED advisory
      BY <3>2, GotoType DEF Label, Reply, TypeOK
    <3> QED BY <1>3, <3>1, <3>2 DEF DuplicateNumber
  <2>3. TypeOK'
    BY <1>1, <1>3, <2>1, <2>2 DEF TypeOK, committed
  <2>4. Others(p) /\ Memory(p)'
    BY <1>1, <2>2 DEF Others, Memory, HasNode, HoldsInstall
  <2> QED BY <2>3, <2>4, OthersMemory
<1> QED BY <1>2, <1>3 DEF WriteNode

(* The end of a transaction. *)
LEMMA ForgetType ==
  ASSUME NEW p \in Proc, TypeOK, Forget(p)
  PROVE  /\ obj' \in [Proc -> NodeObject] /\ inum' \in [Proc -> Number]
         /\ row' \in [Proc -> InstallRow] /\ seen' \in [Proc -> SUBSET Installs]
         /\ reply' \in [Proc -> Reply] /\ inum'[p] = Null
         /\ \A q \in Proc \ {p} : obj'[q] = obj[q] /\ inum'[q] = inum[q]
<1>1. NoObject \in NodeObject /\ NoInstall \in InstallRow /\ Null \in Number
  BY DEF NodeObject, NoObject, NodeStatus, Number, NoInstall, InstallRow, InstallStatus
<1> QED BY <1>1 DEF Forget, TypeOK, Reply

LEMMA CommitType ==
  ASSUME NEW p \in Proc, TypeOK, MemoryInv, Commit(p)
  PROVE  TypeOK' /\ MemoryInv'
<1>1. UNCHANGED <<latest, advisory>> /\ Unlocked(p) /\ Forget(p) /\ Goto(p, "idle")
  BY DEF Commit
<1>2. /\ nodes' \in [Node -> NodeRow] /\ installs' \in [Installs -> InstallRow]
      /\ primary' \in [Building -> Node \cup {Null}]
  BY DEF Merge, Commit, TypeOK
<1>3. /\ nodeLock' \in [Node -> Proc \cup {NoProc}]
      /\ installLock' \in [Installs -> Proc \cup {NoProc}]
      /\ primaryLock' \in [Building -> Proc \cup {NoProc}]
      /\ \A i \in Installs : installLock[i] # p => installLock'[i] = installLock[i]
      /\ \A b \in Building : primaryLock[b] # p => primaryLock'[b] = primaryLock[b]
  BY <1>1, UnlockedType
<1>4. pc' \in [Proc -> Label] /\ pc'[p] = "idle" /\ \A q \in Proc \ {p} : pc'[q] = pc[q]
  BY <1>1, GotoType DEF Label
<1>5. TypeOK'
  BY <1>1, <1>2, <1>3, <1>4, ForgetType DEF TypeOK, latest
<1>6. Others(p) /\ Memory(p)'
  BY <1>1, <1>3, <1>4, ForgetType DEF Others, Memory, HasNode, HoldsInstall
<1> QED BY <1>5, <1>6, OthersMemory

LEMMA RollbackType ==
  ASSUME NEW p \in Proc, TypeOK, MemoryInv, Rollback(p)
  PROVE  TypeOK' /\ MemoryInv'
<1>1. /\ UNCHANGED <<committed, advisory>> /\ Unlocked(p) /\ Forget(p)
      /\ Goto(p, "idle") \/ Goto(p, "close")
  BY DEF Rollback
<1>2. /\ nodesW' \in [Node -> NodeRow] /\ installsW' \in [Installs -> InstallRow]
      /\ primaryW' \in [Building -> Node \cup {Null}]
  BY DEF Merge, Rollback, TypeOK
<1>3. /\ nodeLock' \in [Node -> Proc \cup {NoProc}]
      /\ installLock' \in [Installs -> Proc \cup {NoProc}]
      /\ primaryLock' \in [Building -> Proc \cup {NoProc}]
      /\ \A i \in Installs : installLock[i] # p => installLock'[i] = installLock[i]
      /\ \A b \in Building : primaryLock[b] # p => primaryLock'[b] = primaryLock[b]
  BY <1>1, UnlockedType
<1>4. /\ pc' \in [Proc -> Label] /\ pc'[p] \in {"idle", "close"}
      /\ \A q \in Proc \ {p} : pc'[q] = pc[q]
  BY <1>1, GotoType DEF Label
<1>5. TypeOK'
  BY <1>1, <1>2, <1>3, <1>4, ForgetType DEF TypeOK, committed
<1>6. Others(p) /\ Memory(p)'
  BY <1>1, <1>3, <1>4, ForgetType DEF Others, Memory, HasNode, HoldsInstall
<1> QED BY <1>5, <1>6, OthersMemory

LEMMA CloseSessionType ==
  ASSUME NEW p \in Proc, TypeOK, MemoryInv, CloseSession(p)
  PROVE  TypeOK' /\ MemoryInv'
<1>1. TypeOK'
  BY DEF TypeOK, CloseSession, Goto, Label, committed, latest, locks
<1>2. Others(p) /\ Memory(p)'
  BY DEF Others, MemoryInv, Memory, CloseSession, Goto, TypeOK, HasNode, HoldsInstall, locks
<1> QED BY <1>1, <1>2, OthersMemory

-----------------------------------------------------------------------------
LEMMA RequestType ==
  ASSUME NEW p \in Proc, TypeOK, MemoryInv, Request(p)
  PROVE  TypeOK' /\ MemoryInv'
<1>1. CASE \E i \in Installs \cup {0} : PostForm(p, i)
  BY <1>1, PostFormType
<1>2. ASSUME NEW n \in Node, NEW o \in NodeObject, o.id = n, pc[p] = "idle",
             obj' = [obj EXCEPT ![p] = o], Goto(p, "edit"),
             UNCHANGED <<committed, latest, locks, advisory, inum, row, seen, reply>>
      PROVE  TypeOK' /\ MemoryInv'
  <2>1. inum[p] = Null
    BY <1>2 DEF MemoryInv, Memory
  <2> QED BY <1>2, <2>1, ObjectStep DEF HasNode, IsForm
<1>3. ASSUME NEW n \in Node, ReadNode(p, n) PROVE TypeOK' /\ MemoryInv'
  <2> DEFINE o == ObjectOf(n)
  <2>1. o \in NodeObject /\ o.id = n
    BY DEF ObjectOf, NodeObject, TypeOK, NodeRow
  <2>2. obj' = [obj EXCEPT ![p] = o] /\ pc[p] = "idle" /\ Goto(p, "edit")
        /\ UNCHANGED <<committed, latest, locks, advisory, inum, row, seen, reply>>
    BY <1>3 DEF ReadNode
  <2> HIDE DEF o
  <2> QED BY <1>2, <2>1, <2>2
<1>4. ASSUME NEW n \in Node, NewNode(p, n) PROVE TypeOK' /\ MemoryInv'
  <2> DEFINE o == [id |-> n, adding |-> TRUE, nn |-> Null, status |-> "PLANNED"]
  <2>1. o \in NodeObject /\ o.id = n
    BY DEF NodeObject, NodeStatus, Number
  <2>2. obj' = [obj EXCEPT ![p] = o] /\ pc[p] = "idle" /\ Goto(p, "edit")
        /\ UNCHANGED <<committed, latest, locks, advisory, inum, row, seen, reply>>
    BY <1>4 DEF NewNode
  <2> HIDE DEF o
  <2> QED BY <1>2, <2>1, <2>2
<1>5. ASSUME NEW s \in NodeStatus, NEW k \in Vanity \cup {obj[p].nn}, EditNode(p, s, k)
      PROVE  TypeOK' /\ MemoryInv'
  <2> DEFINE o == [obj[p] EXCEPT !.status = s, !.nn = k]
  <2>1. obj[p] \in NodeObject /\ obj[p].id \in Node /\ inum[p] = Null
    BY <1>5 DEF EditNode, MemoryInv, Memory, HasNode, TypeOK
  <2>2. k \in Number
    BY <2>1, NumberAssumption DEF NodeObject, Number
  <2>3. o \in NodeObject /\ o.id \in Node
    BY <2>1, <2>2 DEF NodeObject
  <2>4. obj' = [obj EXCEPT ![p] = o] /\ Goto(p, "save")
        /\ UNCHANGED <<committed, latest, locks, advisory, inum, row, seen, reply>>
    BY <1>5 DEF EditNode
  <2> HIDE DEF o
  <2> QED BY <2>1, <2>3, <2>4, ObjectStep DEF HasNode, IsForm
<1>6. ASSUME NEW i \in Installs, ReadInstall(p, i) PROVE TypeOK' /\ MemoryInv'
  <2>1. TypeOK'
    BY <1>6, NumberAssumption DEF TypeOK, ReadInstall, Goto, Label, Number, committed, latest, locks
  <2>2. Others(p) /\ Memory(p)'
    BY <1>6 DEF Others, Memory, ReadInstall, Goto, TypeOK, HasNode, HoldsInstall, locks
  <2> QED BY <2>1, <2>2, OthersMemory
<1>7. ASSUME NEW s \in InstallStatus, SaveInstall(p, s) PROVE TypeOK' /\ MemoryInv'
  <2>1. /\ inum[p] \in Installs /\ row[p] \in InstallRow
        /\ [row[p] EXCEPT !.status = s] \in InstallRow
    BY <1>7 DEF SaveInstall, MemoryInv, Memory, TypeOK, InstallRow
  <2>2. installs' \in [Installs -> InstallRow] /\ installsW' \in [Installs -> InstallRow]
    BY <1>7, <2>1 DEF SaveInstall, TypeOK
  <2>3. /\ Forget(p) /\ Goto(p, "idle")
        /\ UNCHANGED <<nodes, primary, nodesW, primaryW, locks, advisory>>
    BY <1>7 DEF SaveInstall
  <2>4. pc' \in [Proc -> Label] /\ pc'[p] = "idle" /\ \A q \in Proc \ {p} : pc'[q] = pc[q]
    BY <2>3, GotoType DEF Label
  <2>5. TypeOK'
    BY <2>2, <2>3, <2>4, ForgetType DEF TypeOK, locks
  <2>6. Others(p) /\ Memory(p)'
    BY <2>3, <2>4, ForgetType DEF Others, Memory, HasNode, HoldsInstall, locks
  <2> QED BY <2>5, <2>6, OthersMemory
<1> QED BY <1>1, <1>3, <1>4, <1>5, <1>6, <1>7 DEF Request

LEMMA NextType == TypeOK /\ MemoryInv /\ [Next]_vars => TypeOK' /\ MemoryInv'
<1> SUFFICES ASSUME TypeOK, MemoryInv, [Next]_vars PROVE TypeOK' /\ MemoryInv'
  OBVIOUS
<1>1. CASE UNCHANGED vars
  BY <1>1 DEF vars, TypeOK, MemoryInv, Memory, IsForm, committed, latest, locks
<1>2. ASSUME NEW p \in Proc, Waiting(p) PROVE TypeOK' /\ MemoryInv'
  BY <1>2, AcquireLockType, LockInstallType, ClaimDonorType, WriteNodeType DEF Waiting
<1>3. ASSUME NEW p \in Proc, Working(p) PROVE TypeOK' /\ MemoryInv'
  BY <1>3, ChooseNodeType, ChooseNumberType, ScanInstallsType, ScanNodesType, CheckNumberType,
     SaveNodeType, CommitType, RollbackType, CloseSessionType DEF Working
<1> QED BY <1>1, <1>2, <1>3, RequestType DEF Next

(* Every variable keeps its type, in every behaviour of the code. *)
THEOREM TypeCorrect == Spec => []TypeOK
<1>1. Spec => [](TypeOK /\ MemoryInv)
  BY InitType, NextType, PTL DEF Spec
<1> QED BY <1>1, PTL

-----------------------------------------------------------------------------
(***************************************************************************)
(* Numbers are unique, and active nodes have one.  The committed rows      *)
(* alone do not show it: what a session has written and not yet committed  *)
(* must be apart from every version of every other row, and the number in  *)
(* a session's memory must be a number by the time it is written.          *)
(***************************************************************************)
Versions(n) == {nodes[n], nodesW[n]}

UnlockedIsCommitted == \A n \in Node : nodeLock[n] = NoProc => nodesW[n] = nodes[n]

VersionsApart ==
  \A m, n \in Node : \A v \in Versions(m), w \in Versions(n) :
     m # n /\ v.nn # Null => v.nn # w.nn

VersionsNumbered == \A n \in Node : \A v \in Versions(n) : v.status = "ACTIVE" => ~Unset(v.nn)

MayWrite(p) ==
  /\ pc[p] \in {"claimCheck", "claimDonor", "saveCheck", "saveDonor"} => ~Unset(obj[p].nn)
  /\ pc[p] = "write" => ~Unset(obj[p].nn) \/ obj[p].status # "ACTIVE"

NodeInv ==
  /\ UnlockedIsCommitted /\ VersionsApart /\ VersionsNumbered
  /\ \A p \in Proc : MayWrite(p)

LEMMA InitNodes == Init => NodeInv
<1> SUFFICES ASSUME Init PROVE NodeInv
  OBVIOUS
<1>1. nodesW = nodes /\ Unique(nodes) /\ NumberedIfActive(nodes)
  BY StartAssumption DEF Init, Consistent
<1>2. \A p \in Proc : MayWrite(p)
  BY DEF Init, MayWrite
<1> QED BY <1>1, <1>2 DEF NodeInv, UnlockedIsCommitted, VersionsApart, VersionsNumbered, Versions,
           Unique, NumberedIfActive

(* A step that leaves the nodes alone keeps NodeInv if p's memory allows.  *)
LEMMA NodesUntouched ==
  ASSUME NEW p \in Proc, TypeOK, NodeInv, UNCHANGED <<nodes, nodesW, nodeLock>>,
         \A q \in Proc \ {p} : pc'[q] = pc[q] /\ obj'[q] = obj[q],
         MayWrite(p)'
  PROVE  NodeInv'
<1>1. \A q \in Proc : MayWrite(q)'
  <2> SUFFICES ASSUME NEW q \in Proc, q # p PROVE MayWrite(q)'
    OBVIOUS
  <2>1. MayWrite(q)
    BY DEF NodeInv
  <2> QED BY <2>1 DEF MayWrite
<1> QED BY <1>1 DEF NodeInv, UnlockedIsCommitted, VersionsApart, VersionsNumbered, Versions

(* A commit or a rollback keeps one of the versions there were.            *)
LEMMA NodesSettled ==
  ASSUME NEW p \in Proc, TypeOK, NodeInv,
         \A n \in Node : nodes'[n] \in Versions(n) /\ nodesW'[n] \in Versions(n),
         UnlockedIsCommitted', Forget(p), Goto(p, "idle") \/ Goto(p, "close")
  PROVE  NodeInv'
<1>1. \A q \in Proc : MayWrite(q)'
  <2> SUFFICES ASSUME NEW q \in Proc PROVE MayWrite(q)'
    OBVIOUS
  <2>1. CASE q = p
    BY <2>1 DEF MayWrite, Goto, TypeOK
  <2>2. CASE q # p
    BY <2>2 DEF NodeInv, MayWrite, Goto, Forget, TypeOK
  <2> QED BY <2>1, <2>2
<1>2. \A n \in Node : \A v \in Versions(n)' : v \in Versions(n)
  BY DEF Versions
<1>3. VersionsApart'
  BY <1>2 DEF NodeInv, VersionsApart
<1>4. VersionsNumbered'
  BY <1>2 DEF NodeInv, VersionsNumbered
<1> QED BY <1>1, <1>3, <1>4 DEF NodeInv

LEMMA WriteNodes ==
  ASSUME NEW p \in Proc, TypeOK, MemoryInv, NodeInv, WriteNode(p)
  PROVE  NodeInv'
<1> DEFINE o == obj[p]
           new == [nn |-> o.nn, status |-> o.status]
<1>1. /\ pc[p] = "write" /\ o.id \in Node /\ o \in NodeObject
      /\ UNCHANGED <<committed, obj>> /\ MayWrite(p)
  BY DEF WriteNode, MemoryInv, Memory, HasNode, TypeOK, NodeInv
<1>2. MayWrite(p)' /\ \A q \in Proc \ {p} : pc'[q] = pc[q] /\ obj'[q] = obj[q]
  BY <1>1 DEF WriteNode, MayWrite, Answer, Finish, Goto, DuplicateNumber, TypeOK
<1>3. CASE DuplicateNumber(p) /\ UNCHANGED <<nodesW, nodeLock, primaryW>>
  BY <1>1, <1>2, <1>3, NodesUntouched DEF committed
<1>4. CASE ~IndexTaken(o) /\ ~IndexBusy(o) /\ StoreRows(p)
  <2>1. /\ nodes' = nodes
        /\ nodesW' = [nodesW EXCEPT ![o.id] = new] /\ nodeLock' = [nodeLock EXCEPT ![o.id] = p]
    BY <1>1, <1>4 DEF StoreRows, committed
  <2>2. \A n \in Node : \A v \in Versions(n)' : v \in Versions(n) \/ (n = o.id /\ v = new)
    BY <1>1, <2>1 DEF Versions, TypeOK
  <2>4. \A m \in Node \ {o.id} : \A v \in Versions(m) : new.nn = Null \/ v.nn # new.nn
    <3> SUFFICES ASSUME NEW m \in Node \ {o.id}, NEW v \in Versions(m), o.nn # Null
                 PROVE  v.nn # o.nn
      OBVIOUS
    <3>1. nodes[m].nn # o.nn
      BY <1>4 DEF IndexTaken
    <3>2. CASE nodeLock[m] = NoProc
      BY <3>1, <3>2 DEF NodeInv, UnlockedIsCommitted, Versions
    <3>3. CASE nodeLock[m] # NoProc
      BY <1>4, <3>1, <3>3 DEF IndexBusy, Versions
    <3> QED BY <3>2, <3>3
  <2>5. VersionsApart'
    <3> SUFFICES ASSUME NEW m \in Node, NEW n \in Node, NEW v \in Versions(m)',
                        NEW w \in Versions(n)', m # n, v.nn # Null
                 PROVE  v.nn # w.nn
      BY DEF VersionsApart
    <3> HIDE DEF o, new
    <3>1. CASE v \in Versions(m) /\ w \in Versions(n)
      BY <3>1 DEF NodeInv, VersionsApart
    <3>2. CASE m = o.id /\ v = new
      <4>1. w \in Versions(n)
        BY <2>2, <3>2
      <4> QED BY <2>4, <3>2, <4>1
    <3>3. CASE n = o.id /\ w = new
      <4>1. v \in Versions(m)
        BY <2>2, <3>3
      <4> QED BY <2>4, <3>3, <4>1
    <3> QED BY <2>2, <3>1, <3>2, <3>3
  <2>6. VersionsNumbered'
    <3>1. new.status = "ACTIVE" => ~Unset(new.nn)
      BY <1>1 DEF MayWrite
    <3> HIDE DEF o, new
    <3> QED BY <2>2, <3>1 DEF NodeInv, VersionsNumbered
  <2>7. UnlockedIsCommitted'
    BY <1>1, <2>1, ProcAssumption DEF NodeInv, UnlockedIsCommitted, TypeOK
  <2>8. \A q \in Proc : MayWrite(q)'
    BY <1>2 DEF NodeInv, MayWrite
  <2> QED BY <2>5, <2>6, <2>7, <2>8 DEF NodeInv
<1> QED BY <1>3, <1>4 DEF WriteNode

LEMMA CommitNodes ==
  ASSUME NEW p \in Proc, TypeOK, NodeInv, Commit(p)
  PROVE  NodeInv'
<1>1. nodesW' = nodesW /\ Unlocked(p) /\ Forget(p) /\ Goto(p, "idle")
  BY DEF Commit, latest
<1>2. \A n \in Node : nodes'[n] = IF nodeLock[n] = p THEN nodesW[n] ELSE nodes[n]
  BY DEF Merge, Commit, TypeOK
<1>3. UnlockedIsCommitted'
  BY <1>1, <1>2 DEF NodeInv, UnlockedIsCommitted, Unlocked, Unlock, TypeOK
<1> QED BY <1>1, <1>2, <1>3, NodesSettled DEF Versions

LEMMA RollbackNodes ==
  ASSUME NEW p \in Proc, TypeOK, NodeInv, Rollback(p)
  PROVE  NodeInv'
<1>1. /\ nodes' = nodes /\ Unlocked(p) /\ Forget(p) /\ (Goto(p, "idle") \/ Goto(p, "close"))
  BY DEF Rollback, committed
<1>2. \A n \in Node : nodesW'[n] = IF nodeLock[n] = p THEN nodes[n] ELSE nodesW[n]
  BY DEF Merge, Rollback, TypeOK
<1>3. UnlockedIsCommitted'
  BY <1>1, <1>2 DEF NodeInv, UnlockedIsCommitted, Unlocked, Unlock, TypeOK
<1> QED BY <1>1, <1>2, <1>3, NodesSettled DEF Versions

(* The steps before the write, of each kind of request.                     *)
LEMMA FormNodes ==
  ASSUME NEW p \in Proc, TypeOK, NodeInv,
         \/ \E i \in Installs \cup {0} : PostForm(p, i)
         \/ AcquireLock(p) \/ LockInstall(p) \/ ChooseNode(p) \/ ChooseNumber(p)
  PROVE  NodeInv'
<1>1. CASE \E i \in Installs \cup {0} : PostForm(p, i)
  BY <1>1, NodesUntouched DEF PostForm, Goto, MayWrite, TypeOK, committed, latest, locks
<1>2. CASE AcquireLock(p)
  BY <1>2, NodesUntouched DEF AcquireLock, Goto, MayWrite, TypeOK, committed, latest, locks
<1>3. CASE LockInstall(p)
  BY <1>3, NodesUntouched
     DEF LockInstall, Answer, Finish, Goto, MayWrite, TypeOK, committed, latest, locks
<1>4. CASE ChooseNode(p)
  <2>1. UNCHANGED <<nodes, nodesW, nodeLock>>
    BY <1>4 DEF ChooseNode, committed, latest, locks
  <2>2. pc'[p] \in {"commit", "number", "save"} /\ \A q \in Proc \ {p} : pc'[q] = pc[q]
    BY <1>4 DEF ChooseNode, Answer, Finish, Goto, TypeOK
  <2>3. \A q \in Proc \ {p} : obj'[q] = obj[q]
    BY <1>4 DEF ChooseNode, TypeOK
  <2> QED BY <2>1, <2>2, <2>3, NodesUntouched DEF MayWrite
<1>5. CASE ChooseNumber(p)
  BY <1>5, NodesUntouched DEF ChooseNumber, Goto, MayWrite, TypeOK, committed, latest, locks
<1> QED BY <1>1, <1>2, <1>3, <1>4, <1>5

LEMMA SearchNodes ==
  ASSUME NEW p \in Proc, TypeOK, NodeInv,
         ScanInstalls(p) \/ ScanNodes(p) \/ CheckNumber(p) \/ ClaimDonor(p)
  PROVE  NodeInv'
<1>0. MayWrite(p)
  BY DEF NodeInv
<1>1. CASE ScanInstalls(p)
  BY <1>1, NodesUntouched DEF ScanInstalls, Goto, MayWrite, TypeOK, committed, latest, locks
<1>2. CASE ScanNodes(p)
  <2>1. /\ UNCHANGED <<nodes, nodesW, nodeLock>>
        /\ \A q \in Proc \ {p} : pc'[q] = pc[q] /\ obj'[q] = obj[q]
    BY <1>2 DEF ScanNodes, Raise, Finish, Goto, TypeOK, committed, latest, locks
  <2>2. \A k \in FreeNumbers(p) : ~Unset(k)
    BY NumberAssumption DEF FreeNumbers, Unset
  <2>3. MayWrite(p)'
    <3>1. CASE FreeNumbers(p) # {}
      <4>1. PICK k \in FreeNumbers(p) : obj' = [obj EXCEPT ![p].nn = k]
        BY <1>2, <3>1 DEF ScanNodes
      <4>2. obj'[p].nn = k
        BY <4>1 DEF TypeOK, NodeObject
      <4>3. pc'[p] = "claimCheck"
        BY <1>2, <3>1 DEF ScanNodes, Goto, TypeOK
      <4> QED BY <2>2, <4>2, <4>3 DEF MayWrite
    <3>2. CASE FreeNumbers(p) = {}
      <4>1. pc'[p] = "rollback"
        BY <1>2, <3>2 DEF ScanNodes, Raise, Finish, Goto, TypeOK
      <4> QED BY <4>1 DEF MayWrite
    <3> QED BY <3>1, <3>2
  <2> QED BY <2>1, <2>3, NodesUntouched
<1>3. CASE CheckNumber(p)
  <2>1. /\ UNCHANGED <<nodes, nodesW, nodeLock, obj>>
        /\ \A q \in Proc \ {p} : pc'[q] = pc[q]
        /\ pc[p] \in {"claimCheck", "saveCheck"}
        /\ pc'[p] \in {"claimDonor", "saveDonor", "commit", "rollback"}
    BY <1>3 DEF CheckNumber, ValueError, Answer, Raise, Finish, Goto, TypeOK, committed, latest, locks
  <2> QED BY <1>0, <2>1, NodesUntouched DEF MayWrite
<1>4. CASE ClaimDonor(p)
  <2>1. /\ UNCHANGED <<nodes, nodesW, nodeLock, obj>>
        /\ pc[p] \in {"claimDonor", "saveDonor"}
    BY <1>4 DEF ClaimDonor, Claim, committed, latest, locks
  <2>2. /\ \A q \in Proc \ {p} : pc'[q] = pc[q]
        /\ pc'[p] \in {"save", "write", "commit", "rollback"}
    BY <1>4 DEF ClaimDonor, ValueError, Answer, Raise, Finish, Goto, TypeOK
  <2> QED BY <1>0, <2>1, <2>2, NodesUntouched DEF MayWrite
<1> QED BY <1>1, <1>2, <1>3, <1>4

LEMMA SaveNodes ==
  ASSUME NEW p \in Proc, TypeOK, NodeInv,
         \/ \E n \in Node : ReadNode(p, n) \/ NewNode(p, n)
         \/ \E s \in NodeStatus, k \in Vanity \cup {obj[p].nn} : EditNode(p, s, k)
         \/ SaveNode(p)
  PROVE  NodeInv'
<1>1. CASE \E n \in Node : ReadNode(p, n) \/ NewNode(p, n)
  BY <1>1, NodesUntouched DEF ReadNode, NewNode, Goto, MayWrite, TypeOK, committed, latest, locks
<1>2. CASE \E s \in NodeStatus, k \in Vanity \cup {obj[p].nn} : EditNode(p, s, k)
  BY <1>2, NodesUntouched DEF EditNode, Goto, MayWrite, TypeOK, committed, latest, locks
<1>3. CASE SaveNode(p)
  <2>1. UNCHANGED <<nodes, nodesW, nodeLock, obj>> /\ \A q \in Proc \ {p} : pc'[q] = pc[q]
    BY <1>3 DEF SaveNode, Raise, Finish, Goto, TypeOK, committed, latest, locks
  <2>2. MayWrite(p)'
    BY <1>3 DEF SaveNode, Searches, Raise, Finish, Goto, TypeOK, MayWrite
  <2> QED BY <2>1, <2>2, NodesUntouched
<1> QED BY <1>1, <1>2, <1>3

LEMMA OtherNodes ==
  ASSUME NEW p \in Proc, TypeOK, NodeInv,
         \/ \E i \in Installs : ReadInstall(p, i)
         \/ \E s \in InstallStatus : SaveInstall(p, s)
         \/ CloseSession(p)
  PROVE  NodeInv'
<1>1. CASE \E i \in Installs : ReadInstall(p, i)
  BY <1>1, NodesUntouched DEF ReadInstall, Goto, MayWrite, TypeOK, committed, latest, locks
<1>2. CASE \E s \in InstallStatus : SaveInstall(p, s)
  BY <1>2, NodesUntouched DEF SaveInstall, Forget, Goto, MayWrite, TypeOK, locks
<1>3. CASE CloseSession(p)
  BY <1>3, NodesUntouched DEF CloseSession, Goto, MayWrite, TypeOK, committed, latest, locks
<1> QED BY <1>1, <1>2, <1>3

LEMMA NextNodes == TypeOK /\ MemoryInv /\ NodeInv /\ [Next]_vars => NodeInv'
<1> SUFFICES ASSUME TypeOK, MemoryInv, NodeInv, [Next]_vars PROVE NodeInv'
  OBVIOUS
<1>1. CASE UNCHANGED vars
  BY <1>1 DEF vars, NodeInv, UnlockedIsCommitted, VersionsApart, VersionsNumbered, Versions,
              MayWrite, committed, latest, locks
<1>2. ASSUME NEW p \in Proc, Request(p) PROVE NodeInv'
  BY <1>2, FormNodes, SaveNodes, OtherNodes DEF Request
<1>3. ASSUME NEW p \in Proc, Waiting(p) PROVE NodeInv'
  BY <1>3, FormNodes, SearchNodes, WriteNodes DEF Waiting
<1>4. ASSUME NEW p \in Proc, Working(p) PROVE NodeInv'
  BY <1>4, FormNodes, SearchNodes, SaveNodes, CommitNodes, RollbackNodes, OtherNodes DEF Working
<1> QED BY <1>1, <1>2, <1>3, <1>4 DEF Next

(* The strengthened invariant holds in every behaviour of the code.         *)
THEOREM NodeInvariant == Spec => [](TypeOK /\ NodeInv)
<1>1. Init => TypeOK /\ MemoryInv /\ NodeInv
  BY InitType, InitNodes
<1>2. TypeOK /\ MemoryInv /\ NodeInv /\ [Next]_vars => (TypeOK /\ MemoryInv /\ NodeInv)'
  BY NextType, NextNodes
<1> QED BY <1>1, <1>2, PTL DEF Spec

(* No two nodes have the same network number, in every behaviour.          *)
THEOREM NumbersAreUnique == Spec => []UniqueNumbers
<1>1. TypeOK /\ NodeInv => UniqueNumbers
  BY DEF NodeInv, VersionsApart, Versions, UniqueNumbers, Unique
<1> QED BY <1>1, NodeInvariant, PTL

(* An active node always has a number, in every behaviour.                 *)
THEOREM ActiveNodesAreNumbered == Spec => []ActiveNumbered
<1>1. TypeOK /\ NodeInv => ActiveNumbered
  BY DEF NodeInv, VersionsNumbered, Versions, ActiveNumbered, NumberedIfActive
<1> QED BY <1>1, NodeInvariant, PTL

-----------------------------------------------------------------------------
(***************************************************************************)
(* An active install keeps its number: the row a session is about to       *)
(* commit for an active install is active too, whoever works on it.  Only  *)
(* an editor, who saves whatever status was asked for, can end that.       *)
(***************************************************************************)
StaysActive(i) == installs[i].status = "ACTIVE" => installsW[i].status = "ACTIVE"

ActiveInv == \A i \in Installs : StaysActive(i)

LEMMA InitActive == Init => ActiveInv
BY DEF Init, ActiveInv, StaysActive

LEMMA ClaimActive ==
  ASSUME NEW p \in Proc, TypeOK, ActiveInv, ClaimDonor(p)
  PROVE  ActiveInv'
<1> DEFINE k == obj[p].nn
<1>1. installs' = installs
  BY DEF ClaimDonor, committed
<1>2. CASE installsW' = installsW
  BY <1>1, <1>2 DEF ActiveInv, StaysActive
<1>3. CASE k \in Installs /\ ~Occupied(k) /\ installsW' = Retired(k)
  <2> SUFFICES ASSUME NEW i \in Installs PROVE StaysActive(i)'
    BY DEF ActiveInv
  <2>1. StaysActive(i)
    BY DEF ActiveInv
  <2>2. CASE i = k
    BY <1>1, <1>3, <2>1, <2>2 DEF StaysActive, Occupied
  <2>3. CASE i # k
    BY <1>1, <1>3, <2>1, <2>3 DEF StaysActive, Retired, TypeOK
  <2> QED BY <2>2, <2>3
<1> QED BY <1>2, <1>3 DEF ClaimDonor, latest

LEMMA WriteActive ==
  ASSUME NEW p \in Proc, TypeOK, MemoryInv, ActiveInv, WriteNode(p)
  PROVE  ActiveInv'
<1> DEFINE i == inum[p]
<1>1. installs' = installs /\ (IsForm(p) => i \in Installs)
  BY DEF WriteNode, committed, MemoryInv, Memory, HasNode, HoldsInstall
<1>2. CASE installsW' = installsW
  BY <1>1, <1>2 DEF ActiveInv, StaysActive
<1>3. ASSUME IsForm(p), NEW r, installsW' = [installsW EXCEPT ![i] = r],
             installs[i].status = "ACTIVE" => r.status = "ACTIVE"
      PROVE  ActiveInv'
  <2> SUFFICES ASSUME NEW j \in Installs PROVE StaysActive(j)'
    BY DEF ActiveInv
  <2>1. StaysActive(j)
    BY DEF ActiveInv
  <2> QED BY <1>1, <1>3, <2>1 DEF StaysActive, TypeOK
<1>4. CASE IsForm(p) /\ installsW' = [installsW EXCEPT ![i] = Attached(i, obj[p].id)]
  <2>1. installs[i].status = "ACTIVE" => Attached(i, obj[p].id).status = "ACTIVE"
    BY DEF Attached
  <2> QED BY <1>3, <1>4, <2>1
<1>5. CASE IsForm(p) /\ installsW' = [installsW EXCEPT ![i] = installs[i]]
  BY <1>3, <1>5
<1> QED BY <1>2, <1>4, <1>5 DEF WriteNode, StoreRows, DuplicateNumber

LEMMA EndActive ==
  ASSUME NEW p \in Proc, TypeOK, MemoryInv, ActiveInv,
         Commit(p) \/ Rollback(p) \/ \E s \in InstallStatus : SaveInstall(p, s)
  PROVE  ActiveInv'
<1> SUFFICES ASSUME NEW i \in Installs PROVE StaysActive(i)'
  BY DEF ActiveInv
<1>0. StaysActive(i)
  BY DEF ActiveInv
<1>1. CASE Commit(p)
  <2>1. installs'[i] = (IF installLock[i] = p THEN installsW[i] ELSE installs[i]) /\ installsW' = installsW
    BY <1>1 DEF Commit, Merge, TypeOK, latest
  <2> QED BY <1>0, <2>1 DEF StaysActive
<1>2. CASE Rollback(p)
  <2>1. installsW'[i] = (IF installLock[i] = p THEN installs[i] ELSE installsW[i]) /\ installs' = installs
    BY <1>2 DEF Rollback, Merge, TypeOK, committed
  <2> QED BY <1>0, <2>1 DEF StaysActive
<1>3. CASE \E s \in InstallStatus : SaveInstall(p, s)
  <2>1. PICK r : /\ installs' = [installs EXCEPT ![inum[p]] = r]
                 /\ installsW' = [installsW EXCEPT ![inum[p]] = r]
    BY <1>3 DEF SaveInstall
  <2> QED BY <1>0, <2>1 DEF StaysActive, TypeOK
<1> QED BY <1>1, <1>2, <1>3

(* The steps that touch no install.                                         *)
LEMMA InstallsUntouched ==
  ASSUME NEW p \in Proc,
         \/ \E i \in Installs \cup {0} : PostForm(p, i)
         \/ \E n \in Node : ReadNode(p, n) \/ NewNode(p, n)
         \/ \E s \in NodeStatus, k \in Vanity \cup {obj[p].nn} : EditNode(p, s, k)
         \/ \E i \in Installs : ReadInstall(p, i)
         \/ AcquireLock(p) \/ LockInstall(p) \/ ChooseNode(p) \/ ChooseNumber(p)
         \/ ScanInstalls(p) \/ ScanNodes(p) \/ CheckNumber(p) \/ SaveNode(p) \/ CloseSession(p)
  PROVE  UNCHANGED <<committed, latest>>
<1>1. CASE \E i \in Installs \cup {0} : PostForm(p, i)
  BY <1>1 DEF PostForm
<1>2. CASE \E n \in Node : ReadNode(p, n) \/ NewNode(p, n)
  BY <1>2 DEF ReadNode, NewNode
<1>3. CASE \E s \in NodeStatus, k \in Vanity \cup {obj[p].nn} : EditNode(p, s, k)
  BY <1>3 DEF EditNode
<1>4. CASE \E i \in Installs : ReadInstall(p, i)
  BY <1>4 DEF ReadInstall
<1>5. CASE \/ AcquireLock(p) \/ LockInstall(p) \/ ChooseNode(p) \/ ChooseNumber(p)
           \/ ScanInstalls(p) \/ ScanNodes(p) \/ CheckNumber(p) \/ SaveNode(p) \/ CloseSession(p)
  BY <1>5 DEF AcquireLock, LockInstall, ChooseNode, ChooseNumber, ScanInstalls, ScanNodes,
              CheckNumber, SaveNode, CloseSession
<1> QED BY <1>1, <1>2, <1>3, <1>4, <1>5

LEMMA NextActive == TypeOK /\ MemoryInv /\ ActiveInv /\ [Next]_vars => ActiveInv'
<1> SUFFICES ASSUME TypeOK, MemoryInv, ActiveInv, [Next]_vars PROVE ActiveInv'
  OBVIOUS
<1>1. CASE UNCHANGED <<committed, latest>>
  BY <1>1 DEF ActiveInv, StaysActive, committed, latest
<1>2. CASE UNCHANGED vars
  BY <1>1, <1>2 DEF vars
<1>3. ASSUME NEW p \in Proc, Request(p) PROVE ActiveInv'
  BY <1>1, <1>3, InstallsUntouched, EndActive DEF Request
<1>4. ASSUME NEW p \in Proc, Waiting(p) PROVE ActiveInv'
  BY <1>1, <1>4, InstallsUntouched, ClaimActive, WriteActive DEF Waiting
<1>5. ASSUME NEW p \in Proc, Working(p) PROVE ActiveInv'
  BY <1>1, <1>5, InstallsUntouched, EndActive DEF Working
<1> QED BY <1>2, <1>3, <1>4, <1>5 DEF Next

(* Whatever else the sessions do, an active install loses its number only   *)
(* where an editor saves the row so.                                        *)
SavedByEditor == \E p \in Proc, s \in InstallStatus : SaveInstall(p, s)

LEMMA ActiveStep ==
  ASSUME TypeOK, ActiveInv, [Next]_vars, NEW i \in Installs,
         installs[i].status = "ACTIVE", installs'[i].status = "NN_REASSIGNED"
  PROVE  SavedByEditor
<1>1. ASSUME UNCHANGED <<committed, latest>> PROVE FALSE
  BY <1>1 DEF committed
<1>2. ASSUME UNCHANGED vars PROVE FALSE
  BY <1>1, <1>2 DEF vars
<1>3. ASSUME NEW p \in Proc, Commit(p) PROVE FALSE
  <2>1. installs'[i] = (IF installLock[i] = p THEN installsW[i] ELSE installs[i])
    BY <1>3 DEF Commit, Merge, TypeOK
  <2> QED BY <2>1 DEF ActiveInv, StaysActive
<1>4. ASSUME NEW p \in Proc, ClaimDonor(p) \/ WriteNode(p) \/ Rollback(p) PROVE FALSE
  BY <1>4 DEF ClaimDonor, WriteNode, Rollback, committed
<1>5. ASSUME NEW p \in Proc, Request(p) PROVE SavedByEditor
  BY <1>1, <1>5, InstallsUntouched DEF Request, SavedByEditor
<1>6. ASSUME NEW p \in Proc, Waiting(p) PROVE FALSE
  BY <1>1, <1>4, <1>6, InstallsUntouched DEF Waiting
<1>7. ASSUME NEW p \in Proc, Working(p) PROVE FALSE
  BY <1>1, <1>3, <1>4, <1>7, InstallsUntouched DEF Working
<1> QED BY <1>2, <1>5, <1>6, <1>7 DEF Next

(* Only an editor edits an install.                                         *)
EditorsEdit == \A p \in Proc : pc[p] = "editInstall" => p \in Editor

LEMMA NextEditors == TypeOK /\ EditorsEdit /\ [Next]_vars => EditorsEdit'
<1> SUFFICES ASSUME TypeOK, EditorsEdit, [Next]_vars PROVE EditorsEdit'
  OBVIOUS
<1>1. CASE UNCHANGED vars
  BY <1>1 DEF vars, EditorsEdit
<1>2. ASSUME NEW p \in Proc, \A q \in Proc \ {p} : pc'[q] = pc[q], pc'[p] # "editInstall"
      PROVE  EditorsEdit'
  BY <1>2 DEF EditorsEdit
<1>3. ASSUME NEW p \in Proc, Request(p) PROVE EditorsEdit'
  <2>1. CASE \E i \in Installs : ReadInstall(p, i)
    BY <2>1 DEF ReadInstall, Goto, TypeOK, EditorsEdit
  <2>2. CASE \/ \E i \in Installs \cup {0} : PostForm(p, i)
             \/ \E n \in Node : ReadNode(p, n) \/ NewNode(p, n)
             \/ \E s \in NodeStatus, k \in Vanity \cup {obj[p].nn} : EditNode(p, s, k)
             \/ \E s \in InstallStatus : SaveInstall(p, s)
    BY <1>2, <2>2 DEF PostForm, ReadNode, NewNode, EditNode, SaveInstall, Goto, TypeOK
  <2> QED BY <1>3, <2>1, <2>2 DEF Request
<1>4. ASSUME NEW p \in Proc, Waiting(p) PROVE EditorsEdit'
  BY <1>2, <1>4 DEF Waiting, AcquireLock, LockInstall, ClaimDonor, WriteNode, DuplicateNumber,
     ValueError, Answer, Raise, Finish, Goto, TypeOK
<1>5. ASSUME NEW p \in Proc, Working(p) PROVE EditorsEdit'
  <2>1. CASE ChooseNode(p) \/ ChooseNumber(p) \/ ScanInstalls(p) \/ ScanNodes(p)
    BY <1>2, <2>1 DEF ChooseNode, ChooseNumber, ScanInstalls, ScanNodes, Answer, Raise, Finish,
       Goto, TypeOK
  <2>2. CASE CheckNumber(p) \/ SaveNode(p)
    BY <1>2, <2>2 DEF CheckNumber, SaveNode, ValueError, Answer, Raise, Finish, Goto, TypeOK
  <2>3. CASE Commit(p) \/ Rollback(p) \/ CloseSession(p)
    BY <1>2, <2>3 DEF Commit, Rollback, CloseSession, Goto, TypeOK
  <2> QED BY <1>5, <2>1, <2>2, <2>3 DEF Working
<1> QED BY <1>1, <1>3, <1>4, <1>5 DEF Next

LEMMA InitEditors == Init => EditorsEdit
BY DEF Init, EditorsEdit

(* An active install loses its number only where an editor saves the row    *)
(* so, in every behaviour.                                                  *)
THEOREM OnlyEditorsRetireActive ==
  Spec => [][\A i \in Installs :
               installs[i].status = "ACTIVE" /\ installs'[i].status = "NN_REASSIGNED"
                 => SavedByEditor]_vars
<1>1. Init => TypeOK /\ MemoryInv /\ ActiveInv
  BY InitType, InitActive
<1>2. TypeOK /\ MemoryInv /\ ActiveInv /\ [Next]_vars => (TypeOK /\ MemoryInv /\ ActiveInv)'
  BY NextType, NextActive
<1>3. TypeOK /\ ActiveInv /\ [Next]_vars
        => [\A i \in Installs :
              installs[i].status = "ACTIVE" /\ installs'[i].status = "NN_REASSIGNED"
                => SavedByEditor]_vars
  BY ActiveStep
<1> QED BY <1>1, <1>2, <1>3, PTL DEF Spec

(* Where nobody saves whole install rows, an active install never loses its *)
(* number.                                                                  *)
THEOREM ActiveKeepTheirNumber ==
  ASSUME Editor = {}
  PROVE  Spec => ActiveNeverRecycled
<1>1. Init => TypeOK /\ MemoryInv /\ ActiveInv /\ EditorsEdit
  BY InitType, InitActive, InitEditors
<1>2. TypeOK /\ MemoryInv /\ ActiveInv /\ EditorsEdit /\ [Next]_vars
        => (TypeOK /\ MemoryInv /\ ActiveInv /\ EditorsEdit)'
  BY NextType, NextActive, NextEditors
<1>3. EditorsEdit => ~SavedByEditor
  BY DEF EditorsEdit, SavedByEditor, SaveInstall
<1>4. TypeOK /\ ActiveInv /\ EditorsEdit /\ [Next]_vars
        => [\A i \in Installs :
              installs[i].status = "ACTIVE" => installs'[i].status # "NN_REASSIGNED"]_vars
  BY <1>3, ActiveStep
<1> QED BY <1>1, <1>2, <1>4, PTL DEF Spec, ActiveNeverRecycled

-----------------------------------------------------------------------------
(***************************************************************************)
(* The install whose number a node carries is its own or marked so.  It    *)
(* holds of every version of a node's row against the latest install row,  *)
(* because the lock on the install is taken before its number is written   *)
(* to a node and given back with the node's; and the form, which writes    *)
(* its install once more after that, writes the node the install had when  *)
(* the form locked it.                                                     *)
(***************************************************************************)
ClaimedBy(r, n) == r.status = "NN_REASSIGNED" \/ r.node = n

InstallsSettled == \A i \in Installs : installLock[i] = NoProc => installsW[i] = installs[i]

VersionsClaimed ==
  \A n \in Node : \A v \in Versions(n) : v.nn \in Installs => ClaimedBy(installsW[v.nn], n)

LockedTogether ==
  \A n \in Node : nodeLock[n] # NoProc =>
     /\ pc[nodeLock[n]] = "commit"
     /\ nodesW[n].nn \in Installs => installLock[nodesW[n].nn] = nodeLock[n]

(* What a session that is about to write must have done, and what a form    *)
(* remembers.                                                               *)
HoldsDonor(p) ==
  pc[p] = "write" /\ obj[p].nn \in Installs =>
     installLock[obj[p].nn] = p /\ ClaimedBy(installsW[obj[p].nn], obj[p].id)

KeepsNode(p) ==
  IsForm(p) /\ pc[p] \in HasNode /\ installs[inum[p]].node # Null =>
     obj[p].id = installs[inum[p]].node

DonorInv ==
  /\ InstallsSettled /\ DonorClaimed /\ VersionsClaimed /\ LockedTogether
  /\ \A p \in Proc : HoldsDonor(p) /\ KeepsNode(p)

LEMMA InitDonors == Init => DonorInv
<1> SUFFICES ASSUME Init PROVE DonorInv
  OBVIOUS
<1>1. nodesW = nodes /\ installsW = installs /\ Claimed(nodes, installs)
  BY StartAssumption DEF Init, Consistent
<1>2. \A p \in Proc : HoldsDonor(p) /\ KeepsNode(p)
  BY DEF Init, HoldsDonor, KeepsNode, HasNode
<1>3. InstallsSettled /\ LockedTogether
  BY <1>1 DEF Init, InstallsSettled, LockedTogether
<1>4. DonorClaimed /\ VersionsClaimed
  BY <1>1 DEF DonorClaimed, Claimed, VersionsClaimed, Versions, ClaimedBy
<1> QED BY <1>2, <1>3, <1>4 DEF DonorInv

(* A step of p that changes no row keeps DonorInv if p's memory allows.     *)
LEMMA DonorsUntouched ==
  ASSUME NEW p \in Proc, TypeOK, MemoryInv, DonorInv, UNCHANGED <<committed, latest>>,
         nodeLock' = nodeLock, installLock' = installLock, pc[p] # "commit",
         \A q \in Proc \ {p} : pc'[q] = pc[q] /\ obj'[q] = obj[q] /\ inum'[q] = inum[q],
         HoldsDonor(p)', KeepsNode(p)'
  PROVE  DonorInv'
<1>1. InstallsSettled' /\ DonorClaimed' /\ VersionsClaimed'
  BY DEF DonorInv, InstallsSettled, DonorClaimed, Claimed, VersionsClaimed, Versions,
         committed, latest
<1>2. LockedTogether'
  <2> SUFFICES ASSUME NEW n \in Node, nodeLock[n] # NoProc
               PROVE  /\ pc'[nodeLock[n]] = "commit"
                      /\ nodesW[n].nn \in Installs => installLock[nodesW[n].nn] = nodeLock[n]
    BY DEF LockedTogether, latest
  <2>1. nodeLock[n] \in Proc
    BY DEF TypeOK
  <2>2. pc[nodeLock[n]] = "commit" /\ (nodesW[n].nn \in Installs => installLock[nodesW[n].nn] = nodeLock[n])
    BY DEF DonorInv, LockedTogether
  <2> QED BY <2>1, <2>2
<1>3. ASSUME NEW q \in Proc PROVE HoldsDonor(q)' /\ KeepsNode(q)'
  <2>1. HoldsDonor(q) /\ KeepsNode(q)
    BY DEF DonorInv
  <2>2. CASE q # p
    BY <2>1, <2>2 DEF HoldsDonor, KeepsNode, IsForm, committed, latest
  <2> QED BY <2>2
<1> QED BY <1>1, <1>2, <1>3 DEF DonorInv

(* So does one that locks an install, and may mark it.                      *)
LEMMA DonorsLocked ==
  ASSUME NEW p \in Proc, TypeOK, MemoryInv, DonorInv, NEW k \in Installs,
         installLock[k] \in {NoProc, p}, installLock' = [installLock EXCEPT ![k] = p],
         UNCHANGED <<nodes, installs, nodesW, nodeLock>>,
         installsW' = installsW \/ installsW' = Retired(k), pc[p] # "commit",
         \A q \in Proc \ {p} : pc'[q] = pc[q] /\ obj'[q] = obj[q] /\ inum'[q] = inum[q],
         HoldsDonor(p)', KeepsNode(p)'
  PROVE  DonorInv'
<1>1. \A i \in Installs : installLock'[i] = IF i = k THEN p ELSE installLock[i]
  BY DEF TypeOK
<1>2. \A i \in Installs : i # k => installsW'[i] = installsW[i]
  BY DEF Retired, TypeOK
<1>3. \A i \in Installs : \A n \in Node : ClaimedBy(installsW[i], n) => ClaimedBy(installsW'[i], n)
  BY DEF Retired, TypeOK, ClaimedBy, InstallRow
<1>4. InstallsSettled'
  BY <1>1, <1>2, ProcAssumption DEF DonorInv, InstallsSettled
<1>5. DonorClaimed'
  BY DEF DonorInv, DonorClaimed, Claimed
<1>6. VersionsClaimed'
  BY <1>3 DEF DonorInv, VersionsClaimed, Versions
<1>7. LockedTogether'
  <2> SUFFICES ASSUME NEW n \in Node, nodeLock[n] # NoProc
               PROVE  /\ pc'[nodeLock[n]] = "commit"
                      /\ nodesW[n].nn \in Installs => installLock'[nodesW[n].nn] = nodeLock[n]
    BY DEF LockedTogether
  <2>1. nodeLock[n] \in Proc
    BY DEF TypeOK
  <2>2. /\ pc[nodeLock[n]] = "commit"
        /\ nodesW[n].nn \in Installs => installLock[nodesW[n].nn] = nodeLock[n]
    BY DEF DonorInv, LockedTogether
  <2> QED BY <1>1, <2>1, <2>2
<1>8. ASSUME NEW q \in Proc PROVE HoldsDonor(q)' /\ KeepsNode(q)'
  <2>1. HoldsDonor(q) /\ KeepsNode(q)
    BY DEF DonorInv
  <2>2. CASE q # p
    <3>1. KeepsNode(q)'
      BY <2>1, <2>2 DEF KeepsNode, IsForm
    <3>2. HoldsDonor(q)'
      <4> SUFFICES ASSUME pc[q] = "write", obj[q].nn \in Installs
                   PROVE  installLock'[obj[q].nn] = q /\ ClaimedBy(installsW'[obj[q].nn], obj[q].id)
        BY <2>2 DEF HoldsDonor
      <4>1. installLock[obj[q].nn] = q /\ ClaimedBy(installsW[obj[q].nn], obj[q].id)
        BY <2>1 DEF HoldsDonor
      <4>2. obj[q].nn # k
        BY <2>2, <4>1, ProcAssumption
      <4> QED BY <1>1, <1>2, <4>1, <4>2
    <3> QED BY <3>1, <3>2
  <2> QED BY <2>2
<1> QED BY <1>4, <1>5, <1>6, <1>7, <1>8 DEF DonorInv

(* The steps before the write, of each kind of request.                     *)
LEMMA FormDonors ==
  ASSUME NEW p \in Proc, TypeOK, MemoryInv, DonorInv,
         \/ \E i \in Installs \cup {0} : PostForm(p, i)
         \/ AcquireLock(p) \/ LockInstall(p) \/ ChooseNode(p) \/ ChooseNumber(p)
  PROVE  DonorInv'
<1>1. CASE \E i \in Installs \cup {0} : PostForm(p, i)
  BY <1>1, DonorsUntouched
     DEF PostForm, Goto, HoldsDonor, KeepsNode, HasNode, TypeOK, locks
<1>2. CASE AcquireLock(p)
  BY <1>2, DonorsUntouched
     DEF AcquireLock, Goto, HoldsDonor, KeepsNode, HasNode, IsForm, TypeOK, locks
<1>3. CASE LockInstall(p)
  <2>1. /\ UNCHANGED <<committed, latest, obj, inum>> /\ pc[p] = "install" /\ nodeLock' = nodeLock
        /\ pc'[p] \in {"commit", "node"} /\ \A q \in Proc \ {p} : pc'[q] = pc[q]
    BY <1>3 DEF LockInstall, Answer, Finish, Goto, TypeOK, locks
  <2>2. HoldsDonor(p)' /\ KeepsNode(p)'
    BY <2>1 DEF HoldsDonor, KeepsNode, HasNode
  <2>3. CASE inum[p] \notin Installs
    <3>1. installLock' = installLock
      BY <1>3, <2>3 DEF LockInstall, locks
    <3> QED BY <2>1, <2>2, <3>1, DonorsUntouched
  <2>4. CASE inum[p] \in Installs
    <3>1. installLock[inum[p]] = NoProc /\ installLock' = [installLock EXCEPT ![inum[p]] = p]
      BY <1>3, <2>4 DEF LockInstall
    <3> QED BY <2>1, <2>2, <2>4, <3>1, DonorsLocked DEF committed, latest
  <2> QED BY <2>3, <2>4
<1>4. CASE ChooseNode(p)
  <2> DEFINE i == inum[p]
  <2>1. /\ UNCHANGED <<committed, latest, locks, inum>> /\ pc[p] = "node"
        /\ pc'[p] \in {"commit", "number", "save"} /\ \A q \in Proc \ {p} : pc'[q] = pc[q]
        /\ \A q \in Proc \ {p} : obj'[q] = obj[q]
    BY <1>4 DEF ChooseNode, Answer, Finish, Goto, TypeOK
  <2>2. KeepsNode(p)'
    <3> SUFFICES ASSUME installs[i].node # Null, pc'[p] # "commit"
                 PROVE  obj'[p].id = installs[i].node
      BY <2>1 DEF KeepsNode, HasNode, committed
    <3>1. Reusable(i) = installs[i].node
      BY DEF Reusable
    <3>2. obj' = [obj EXCEPT ![p] = Revived(ObjectOf(Reusable(i)))]
      BY <1>4, <3>1 DEF ChooseNode, Answer, Finish, Goto, TypeOK
    <3>3. Revived(ObjectOf(Reusable(i))).id = Reusable(i)
      BY DEF Revived, ObjectOf
    <3> QED BY <3>1, <3>2, <3>3 DEF TypeOK
  <2>3. HoldsDonor(p)'
    BY <2>1 DEF HoldsDonor
  <2> QED BY <2>1, <2>2, <2>3, DonorsUntouched DEF locks
<1>5. CASE ChooseNumber(p)
  <2>1. /\ UNCHANGED <<committed, latest, locks, inum>> /\ pc[p] = "number"
        /\ pc'[p] \in {"save", "scanInstalls"} /\ \A q \in Proc \ {p} : pc'[q] = pc[q]
        /\ \A q \in Proc \ {p} : obj'[q] = obj[q]
    BY <1>5 DEF ChooseNumber, Goto, TypeOK
  <2>2. obj'[p].id = obj[p].id
    BY <1>5 DEF ChooseNumber, TypeOK, NodeObject
  <2>3. KeepsNode(p)
    BY DEF DonorInv
  <2>4. HoldsDonor(p)' /\ KeepsNode(p)'
    BY <2>1, <2>2, <2>3 DEF HoldsDonor, KeepsNode, HasNode, IsForm, committed
  <2> QED BY <2>1, <2>4, DonorsUntouched DEF locks
<1> QED BY <1>1, <1>2, <1>3, <1>4, <1>5

LEMMA SearchDonors ==
  ASSUME NEW p \in Proc, TypeOK, MemoryInv, DonorInv,
         ScanInstalls(p) \/ ScanNodes(p) \/ CheckNumber(p) \/ SaveNode(p)
  PROVE  DonorInv'
<1>0. KeepsNode(p)
  BY DEF DonorInv
<1>1. /\ UNCHANGED <<committed, latest, locks, inum>> /\ pc[p] \in HasNode /\ pc[p] # "commit"
      /\ \A q \in Proc \ {p} : pc'[q] = pc[q] /\ obj'[q] = obj[q]
  BY DEF ScanInstalls, ScanNodes, CheckNumber, SaveNode, ValueError, Answer, Raise, Finish, Goto,
     TypeOK, HasNode
<1>2. obj'[p].id = obj[p].id
  BY DEF ScanInstalls, ScanNodes, CheckNumber, SaveNode, TypeOK, NodeObject
<1>3. KeepsNode(p)'
  BY <1>0, <1>1, <1>2 DEF KeepsNode, IsForm, committed
<1>4. HoldsDonor(p)'
  <2>1. CASE ScanInstalls(p) \/ ScanNodes(p) \/ CheckNumber(p)
    <3>1. pc'[p] # "write"
      BY <2>1 DEF ScanInstalls, ScanNodes, CheckNumber, ValueError, Answer, Raise, Finish, Goto, TypeOK
    <3> QED BY <3>1 DEF HoldsDonor
  <2>2. CASE SaveNode(p)
    <3>1. pc'[p] = "write" => Unset(obj'[p].nn)
      BY <2>2 DEF SaveNode, Raise, Finish, Goto, TypeOK
    <3>2. \A k : Unset(k) => k \notin Installs
      BY NumberAssumption DEF Unset
    <3> QED BY <3>1, <3>2 DEF HoldsDonor
  <2> QED BY <2>1, <2>2
<1> QED BY <1>1, <1>3, <1>4, DonorsUntouched DEF locks

LEMMA EditDonors ==
  ASSUME NEW p \in Proc, TypeOK, MemoryInv, DonorInv,
         \/ \E n \in Node : ReadNode(p, n) \/ NewNode(p, n)
         \/ \E s \in NodeStatus, k \in Vanity \cup {obj[p].nn} : EditNode(p, s, k)
         \/ CloseSession(p)
  PROVE  DonorInv'
<1>1. /\ UNCHANGED <<committed, latest, locks, inum>> /\ pc[p] \in {"idle", "edit", "close"}
      /\ \A q \in Proc \ {p} : pc'[q] = pc[q] /\ obj'[q] = obj[q]
      /\ pc'[p] \in {"edit", "save", "idle"}
  BY DEF ReadNode, NewNode, EditNode, CloseSession, Goto, TypeOK
<1>2. inum[p] = Null
  BY <1>1 DEF MemoryInv, Memory
<1>3. HoldsDonor(p)' /\ KeepsNode(p)'
  BY <1>1, <1>2 DEF HoldsDonor, KeepsNode, IsForm
<1> QED BY <1>1, <1>3, DonorsUntouched DEF locks

LEMMA ClaimDonors ==
  ASSUME NEW p \in Proc, TypeOK, MemoryInv, DonorInv, ClaimDonor(p)
  PROVE  DonorInv'
<1> DEFINE k == obj[p].nn
<1>1. /\ UNCHANGED <<committed, obj, inum>> /\ pc[p] \in {"claimDonor", "saveDonor"}
      /\ nodesW' = nodesW /\ nodeLock' = nodeLock
      /\ pc'[p] \in {"save", "write", "commit", "rollback"}
      /\ \A q \in Proc \ {p} : pc'[q] = pc[q]
  BY DEF ClaimDonor, Claim, ValueError, Answer, Raise, Finish, Goto, TypeOK, latest, locks
<1>2. KeepsNode(p)
  BY DEF DonorInv
<1>3. KeepsNode(p)'
  BY <1>1, <1>2 DEF KeepsNode, HasNode, IsForm, committed
<1>4. CASE k \notin Installs
  <2>1. UNCHANGED <<latest, locks>>
    BY <1>4 DEF ClaimDonor
  <2>2. HoldsDonor(p)'
    BY <1>1, <1>4 DEF HoldsDonor
  <2> QED BY <1>1, <1>3, <2>1, <2>2, DonorsUntouched DEF locks
<1>5. CASE k \in Installs
  <2>1. installLock[k] \in {NoProc, p} /\ installLock' = [installLock EXCEPT ![k] = p]
    BY <1>5 DEF ClaimDonor, Claim
  <2>2. installsW' = installsW \/ installsW' = Retired(k)
    BY <1>5 DEF ClaimDonor
  <2>3. HoldsDonor(p)'
    <3>1. CASE ~AttachedAlready(p, k) /\ Occupied(k)
      <4>1. pc'[p] # "write"
        BY <1>5, <3>1 DEF ClaimDonor, ValueError, Answer, Raise, Finish, Goto, TypeOK
      <4> QED BY <4>1 DEF HoldsDonor
    <3>2. CASE ~AttachedAlready(p, k) /\ ~Occupied(k)
      <4>1. installsW' = Retired(k)
        BY <1>5, <3>2 DEF ClaimDonor
      <4>2. installsW'[k].status = "NN_REASSIGNED"
        BY <1>5, <4>1 DEF Retired, TypeOK, InstallRow
      <4>3. installLock'[k] = p
        BY <1>5, <2>1 DEF TypeOK
      <4> QED BY <1>1, <4>2, <4>3 DEF HoldsDonor, ClaimedBy
    <3>3. CASE AttachedAlready(p, k)
      <4>1. installsW' = installsW
        BY <1>5, <3>3 DEF ClaimDonor
      <4>2. installLock'[k] = p
        BY <1>5, <2>1 DEF TypeOK
      <4> QED BY <1>1, <3>3, <4>1, <4>2 DEF HoldsDonor, ClaimedBy, AttachedAlready
    <3> QED BY <3>1, <3>2, <3>3
  <2> HIDE DEF k
  <2> QED BY <1>1, <1>3, <1>5, <2>1, <2>2, <2>3, DonorsLocked DEF committed
<1> QED BY <1>4, <1>5

(* The form writes its install again: nothing it writes takes the install   *)
(* from the node that carries its number.                                   *)
LEMMA WriteDonors ==
  ASSUME NEW p \in Proc, TypeOK, MemoryInv, NodeInv, DonorInv, WriteNode(p)
  PROVE  DonorInv'
<1> DEFINE o == obj[p]
           i == inum[p]
           new == [nn |-> o.nn, status |-> o.status]
<1>1. /\ pc[p] = "write" /\ o.id \in Node /\ nodeLock[o.id] = NoProc
      /\ UNCHANGED <<nodes, installs, primary, installLock, obj, inum>>
      /\ IsForm(p) => i \in Installs /\ installLock[i] = p
  BY DEF WriteNode, committed, MemoryInv, Memory, HasNode, HoldsInstall
<1>2. pc'[p] \in {"commit", "rollback"} /\ \A q \in Proc \ {p} : pc'[q] = pc[q]
  BY DEF WriteNode, DuplicateNumber, Answer, Finish, Goto, TypeOK
<1>3. HoldsDonor(p) /\ KeepsNode(p)
  BY DEF DonorInv
<1>4. HoldsDonor(p)' /\ KeepsNode(p)'
  BY <1>2 DEF HoldsDonor, KeepsNode, HasNode
<1>5. \A j \in Installs : installLock[j] # p => installsW'[j] = installsW[j]
  BY <1>1 DEF WriteNode, StoreRows, DuplicateNumber, TypeOK
<1>6. InstallsSettled'
  BY <1>1, <1>5, ProcAssumption DEF DonorInv, InstallsSettled
<1>7. DonorClaimed'
  BY <1>1 DEF DonorInv, DonorClaimed, Claimed
<1>8. ASSUME NEW q \in Proc PROVE HoldsDonor(q)' /\ KeepsNode(q)'
  <2>1. HoldsDonor(q) /\ KeepsNode(q)
    BY DEF DonorInv
  <2>2. CASE q # p
    <3>1. KeepsNode(q)'
      BY <1>1, <1>2, <2>1, <2>2 DEF KeepsNode, IsForm
    <3>2. HoldsDonor(q)'
      <4> SUFFICES ASSUME pc[q] = "write", obj[q].nn \in Installs
                   PROVE  installLock[obj[q].nn] = q /\ ClaimedBy(installsW'[obj[q].nn], obj[q].id)
        BY <1>1, <1>2, <2>2 DEF HoldsDonor
      <4>1. installLock[obj[q].nn] = q /\ ClaimedBy(installsW[obj[q].nn], obj[q].id)
        BY <2>1 DEF HoldsDonor
      <4> QED BY <1>5, <2>2, <4>1
    <3> QED BY <3>1, <3>2
  <2> QED BY <1>4, <2>2
<1>9. IsForm(p) => \A n \in Node : \A v \in Versions(n) : v.nn = i => v = nodes[n]
  <2> SUFFICES ASSUME IsForm(p), NEW n \in Node, nodesW[n].nn = i, nodesW[n] # nodes[n]
               PROVE  FALSE
    BY DEF Versions
  <2>1. nodeLock[n] # NoProc
    BY DEF NodeInv, UnlockedIsCommitted
  <2>2. pc[nodeLock[n]] = "commit" /\ installLock[i] = nodeLock[n]
    BY <1>1, <2>1 DEF DonorInv, LockedTogether
  <2> QED BY <1>1, <2>2
<1>10. ASSUME IsForm(p), installsW'[i] = Attached(i, o.id) \/ installsW'[i] = installs[i],
              NEW n \in Node, nodes[n].nn = i
       PROVE  ClaimedBy(installsW'[i], n)
  <2>1. installs[i].status = "NN_REASSIGNED" \/ installs[i].node = n
    BY <1>1, <1>10 DEF DonorInv, DonorClaimed, Claimed
  <2>2. CASE installs[i].status = "NN_REASSIGNED"
    BY <1>10, <2>2 DEF Attached, ClaimedBy
  <2>3. CASE installs[i].node = n
    <3>1. o.id = n
      BY <1>1, <1>3, <1>10, <2>3, NumberAssumption DEF KeepsNode, HasNode
    <3> QED BY <1>10, <2>3, <3>1 DEF Attached, ClaimedBy
  <2> QED BY <2>1, <2>2, <2>3
<1>11. IsForm(p) => installsW'[i] = Attached(i, o.id) \/ installsW'[i] = installs[i]
  BY <1>1 DEF WriteNode, StoreRows, DuplicateNumber, TypeOK
<1>12. \A n \in Node : \A v \in Versions(n) : v.nn \in Installs => ClaimedBy(installsW'[v.nn], n)
  <2> SUFFICES ASSUME NEW n \in Node, NEW v \in Versions(n), v.nn \in Installs
               PROVE  ClaimedBy(installsW'[v.nn], n)
    OBVIOUS
  <2>1. CASE IsForm(p) /\ v.nn = i
    BY <1>9, <1>10, <1>11, <2>1
  <2>2. CASE ~(IsForm(p) /\ v.nn = i)
    <3>1. installsW'[v.nn] = installsW[v.nn]
      BY <2>2 DEF WriteNode, StoreRows, DuplicateNumber, TypeOK
    <3> QED BY <3>1 DEF DonorInv, VersionsClaimed
  <2> QED BY <2>1, <2>2
<1>13. CASE DuplicateNumber(p) /\ UNCHANGED <<nodesW, nodeLock, primaryW>>
  <2>1. VersionsClaimed'
    BY <1>1, <1>12, <1>13 DEF VersionsClaimed, Versions
  <2>2. LockedTogether'
    <3> SUFFICES ASSUME NEW n \in Node, nodeLock[n] # NoProc
                 PROVE  /\ pc'[nodeLock[n]] = "commit"
                        /\ nodesW[n].nn \in Installs => installLock[nodesW[n].nn] = nodeLock[n]
      BY <1>1, <1>13 DEF LockedTogether
    <3>1. nodeLock[n] \in Proc
      BY DEF TypeOK
    <3>2. /\ pc[nodeLock[n]] = "commit"
          /\ nodesW[n].nn \in Installs => installLock[nodesW[n].nn] = nodeLock[n]
      BY DEF DonorInv, LockedTogether
    <3> QED BY <1>1, <1>2, <3>1, <3>2
  <2> QED BY <1>6, <1>7, <1>8, <2>1, <2>2 DEF DonorInv
<1>14. CASE StoreRows(p) /\ Answer(p, "saved")
  <2>1. /\ nodesW' = [nodesW EXCEPT ![o.id] = new] /\ nodeLock' = [nodeLock EXCEPT ![o.id] = p]
        /\ IsForm(p) => installsW' = [installsW EXCEPT ![i] = Attached(i, o.id)]
        /\ ~IsForm(p) => installsW' = installsW
    BY <1>14 DEF StoreRows
  <2>2. o.nn \in Installs => installLock[o.nn] = p /\ ClaimedBy(installsW'[o.nn], o.id)
    <3> SUFFICES ASSUME o.nn \in Installs
                 PROVE  installLock[o.nn] = p /\ ClaimedBy(installsW'[o.nn], o.id)
      OBVIOUS
    <3>1. installLock[o.nn] = p /\ ClaimedBy(installsW[o.nn], o.id)
      BY <1>1, <1>3 DEF HoldsDonor
    <3>2. CASE IsForm(p) /\ o.nn = i
      <4>1. installsW'[o.nn] = Attached(i, o.id)
        BY <2>1, <3>2 DEF TypeOK
      <4> QED BY <3>1, <4>1 DEF Attached, ClaimedBy
    <3>3. CASE ~(IsForm(p) /\ o.nn = i)
      <4>1. installsW'[o.nn] = installsW[o.nn]
        BY <2>1, <3>3 DEF TypeOK
      <4> QED BY <3>1, <4>1
    <3> QED BY <3>2, <3>3
  <2>3. \A n \in Node : \A v \in Versions(n)' : v \in Versions(n) \/ (n = o.id /\ v = new)
    BY <1>1, <2>1 DEF Versions, TypeOK
  <2>4. VersionsClaimed'
    <3> SUFFICES ASSUME NEW n \in Node, NEW v \in Versions(n)', v.nn \in Installs
                 PROVE  ClaimedBy(installsW'[v.nn], n)
      BY DEF VersionsClaimed
    <3>1. CASE v \in Versions(n)
      BY <1>12, <3>1
    <3>2. CASE n = o.id /\ v = new
      <4>1. v.nn = o.nn
        BY <3>2
      <4> QED BY <2>2, <3>2, <4>1
    <3> QED BY <2>3, <3>1, <3>2
  <2>5. LockedTogether'
    <3> SUFFICES ASSUME NEW n \in Node, nodeLock'[n] # NoProc
                 PROVE  /\ pc'[nodeLock'[n]] = "commit"
                        /\ nodesW'[n].nn \in Installs => installLock[nodesW'[n].nn] = nodeLock'[n]
      BY <1>1 DEF LockedTogether
    <3>1. CASE n = o.id
      <4>1. nodeLock'[n] = p /\ nodesW'[n] = new
        BY <2>1, <3>1 DEF TypeOK
      <4>2. pc'[p] = "commit"
        BY <1>14 DEF Answer, Finish, Goto, TypeOK
      <4>3. new.nn = o.nn
        OBVIOUS
      <4> QED BY <2>2, <4>1, <4>2, <4>3
    <3>2. CASE n # o.id
      <4>1. nodeLock'[n] = nodeLock[n] /\ nodesW'[n] = nodesW[n] /\ nodeLock[n] \in Proc \cup {NoProc}
        BY <2>1, <3>2 DEF TypeOK
      <4>2. /\ pc[nodeLock[n]] = "commit"
            /\ nodesW[n].nn \in Installs => installLock[nodesW[n].nn] = nodeLock[n]
        BY <4>1 DEF DonorInv, LockedTogether
      <4> QED BY <1>1, <1>2, <4>1, <4>2
    <3> QED BY <3>1, <3>2
  <2> QED BY <1>6, <1>7, <1>8, <2>4, <2>5 DEF DonorInv
<1> QED BY <1>13, <1>14 DEF WriteNode

LEMMA CommitDonors ==
  ASSUME NEW p \in Proc, TypeOK, MemoryInv, NodeInv, DonorInv, Commit(p)
  PROVE  DonorInv'
<1>1. /\ UNCHANGED latest /\ Unlocked(p) /\ Forget(p) /\ Goto(p, "idle")
      /\ \A n \in Node : nodes'[n] = IF nodeLock[n] = p THEN nodesW[n] ELSE nodes[n]
      /\ \A i \in Installs : installs'[i] = IF installLock[i] = p THEN installsW[i] ELSE installs[i]
  BY DEF Commit, Merge, TypeOK
<1>2. /\ \A n \in Node : nodeLock'[n] = IF nodeLock[n] = p THEN NoProc ELSE nodeLock[n]
      /\ \A i \in Installs : installLock'[i] = IF installLock[i] = p THEN NoProc ELSE installLock[i]
  BY <1>1, UnlockedType
<1>3. /\ pc'[p] = "idle"
      /\ \A q \in Proc \ {p} : pc'[q] = pc[q] /\ obj'[q] = obj[q] /\ inum'[q] = inum[q]
  BY <1>1, ForgetType DEF Goto, TypeOK
<1>4. InstallsSettled'
  <2> SUFFICES ASSUME NEW i \in Installs, installLock'[i] = NoProc PROVE installsW[i] = installs'[i]
    BY <1>1 DEF InstallsSettled, latest
  <2> QED BY <1>1, <1>2 DEF DonorInv, InstallsSettled
<1>5. DonorClaimed'
  <2> SUFFICES ASSUME NEW n \in Node, nodes'[n].nn \in Installs
               PROVE  ClaimedBy(installs'[nodes'[n].nn], n)
    BY DEF DonorClaimed, Claimed, ClaimedBy
  <2> DEFINE k == nodes'[n].nn
  <2>1. nodes'[n] \in Versions(n)
    BY <1>1 DEF Versions
  <2>2. ClaimedBy(installsW[k], n)
    BY <2>1 DEF DonorInv, VersionsClaimed
  <2>3. CASE nodeLock[n] = p
    <3>1. installLock[k] = p
      BY <1>1, <2>3, ProcAssumption DEF DonorInv, LockedTogether
    <3> QED BY <1>1, <2>2, <3>1
  <2>4. CASE nodeLock[n] # p
    <3>1. ClaimedBy(installs[k], n)
      BY <1>1, <2>4 DEF DonorInv, DonorClaimed, Claimed, ClaimedBy
    <3> QED BY <1>1, <2>2, <3>1
  <2> QED BY <2>3, <2>4
<1>6. VersionsClaimed'
  <2>1. \A n \in Node : \A v \in Versions(n)' : v \in Versions(n)
    BY <1>1 DEF Versions, latest
  <2> QED BY <1>1, <2>1 DEF DonorInv, VersionsClaimed, latest
<1>7. LockedTogether'
  <2> SUFFICES ASSUME NEW n \in Node, nodeLock'[n] # NoProc
               PROVE  /\ pc'[nodeLock'[n]] = "commit"
                      /\ nodesW[n].nn \in Installs => installLock'[nodesW[n].nn] = nodeLock'[n]
    BY <1>1 DEF LockedTogether, latest
  <2>1. nodeLock'[n] = nodeLock[n] /\ nodeLock[n] \in Proc \ {p}
    BY <1>2 DEF TypeOK
  <2>2. /\ pc[nodeLock[n]] = "commit"
        /\ nodesW[n].nn \in Installs => installLock[nodesW[n].nn] = nodeLock[n]
    BY <2>1, ProcAssumption DEF DonorInv, LockedTogether
  <2> QED BY <1>2, <1>3, <2>1, <2>2
<1>8. ASSUME NEW q \in Proc PROVE HoldsDonor(q)' /\ KeepsNode(q)'
  <2>1. CASE q = p
    BY <1>3, <2>1 DEF HoldsDonor, KeepsNode, HasNode
  <2>2. CASE q # p
    <3>1. HoldsDonor(q) /\ KeepsNode(q)
      BY DEF DonorInv
    <3>2. HoldsDonor(q)'
      BY <1>1, <1>2, <1>3, <2>2, <3>1 DEF HoldsDonor, latest
    <3>3. KeepsNode(q)'
      <4> SUFFICES ASSUME IsForm(q), pc[q] \in HasNode, installs'[inum[q]].node # Null
                   PROVE  obj[q].id = installs'[inum[q]].node
        BY <1>3, <2>2 DEF KeepsNode, IsForm
      <4>1. inum[q] \in Installs /\ installLock[inum[q]] = q
        BY DEF MemoryInv, Memory, HasNode, HoldsInstall, IsForm
      <4> QED BY <1>1, <2>2, <3>1, <4>1 DEF KeepsNode
    <3> QED BY <3>2, <3>3
  <2> QED BY <2>1, <2>2
<1> QED BY <1>4, <1>5, <1>6, <1>7, <1>8 DEF DonorInv

LEMMA RollbackDonors ==
  ASSUME NEW p \in Proc, TypeOK, MemoryInv, NodeInv, DonorInv, Rollback(p)
  PROVE  DonorInv'
<1>1. /\ UNCHANGED committed /\ Unlocked(p) /\ Forget(p) /\ pc[p] = "rollback"
      /\ \A n \in Node : nodesW'[n] = IF nodeLock[n] = p THEN nodes[n] ELSE nodesW[n]
      /\ \A i \in Installs : installsW'[i] = IF installLock[i] = p THEN installs[i] ELSE installsW[i]
  BY DEF Rollback, Merge, TypeOK
<1>2. /\ \A n \in Node : nodeLock'[n] = IF nodeLock[n] = p THEN NoProc ELSE nodeLock[n]
      /\ \A i \in Installs : installLock'[i] = IF installLock[i] = p THEN NoProc ELSE installLock[i]
  BY <1>1, UnlockedType
<1>3. /\ pc'[p] \in {"idle", "close"}
      /\ \A q \in Proc \ {p} : pc'[q] = pc[q] /\ obj'[q] = obj[q] /\ inum'[q] = inum[q]
  BY <1>1, ForgetType DEF Rollback, Goto, TypeOK
<1>4. \A n \in Node : nodeLock[n] # p
  BY <1>1, ProcAssumption DEF DonorInv, LockedTogether
<1>5. InstallsSettled'
  <2> SUFFICES ASSUME NEW i \in Installs, installLock'[i] = NoProc PROVE installsW'[i] = installs[i]
    BY <1>1 DEF InstallsSettled, committed
  <2> QED BY <1>1, <1>2 DEF DonorInv, InstallsSettled
<1>6. DonorClaimed'
  BY <1>1 DEF DonorInv, DonorClaimed, Claimed, committed
<1>7. VersionsClaimed'
  <2> SUFFICES ASSUME NEW n \in Node, NEW v \in Versions(n)', v.nn \in Installs
               PROVE  ClaimedBy(installsW'[v.nn], n)
    BY DEF VersionsClaimed
  <2>1. v \in Versions(n)
    BY <1>1 DEF Versions, committed
  <2>2. ClaimedBy(installsW[v.nn], n)
    BY <2>1 DEF DonorInv, VersionsClaimed
  <2>3. CASE v = nodes[n]
    <3>1. ClaimedBy(installs[v.nn], n)
      BY <2>3 DEF DonorInv, DonorClaimed, Claimed, ClaimedBy
    <3> QED BY <1>1, <2>2, <3>1
  <2>4. CASE v = nodesW[n] /\ nodesW[n] # nodes[n]
    <3>1. nodeLock[n] # NoProc
      BY <2>4 DEF NodeInv, UnlockedIsCommitted
    <3>2. installLock[v.nn] = nodeLock[n]
      BY <2>4, <3>1 DEF DonorInv, LockedTogether
    <3> QED BY <1>1, <1>4, <2>2, <3>2
  <2> QED BY <2>1, <2>3, <2>4 DEF Versions
<1>8. LockedTogether'
  <2> SUFFICES ASSUME NEW n \in Node, nodeLock'[n] # NoProc
               PROVE  /\ pc'[nodeLock'[n]] = "commit"
                      /\ nodesW'[n].nn \in Installs => installLock'[nodesW'[n].nn] = nodeLock'[n]
    BY DEF LockedTogether
  <2>1. nodeLock'[n] = nodeLock[n] /\ nodeLock[n] \in Proc \ {p} /\ nodesW'[n] = nodesW[n]
    BY <1>1, <1>2, <1>4 DEF TypeOK
  <2>2. /\ pc[nodeLock[n]] = "commit"
        /\ nodesW[n].nn \in Installs => installLock[nodesW[n].nn] = nodeLock[n]
    BY <2>1, ProcAssumption DEF DonorInv, LockedTogether
  <2> QED BY <1>2, <1>3, <2>1, <2>2
<1>9. ASSUME NEW q \in Proc PROVE HoldsDonor(q)' /\ KeepsNode(q)'
  <2>1. CASE q = p
    BY <1>3, <2>1 DEF HoldsDonor, KeepsNode, HasNode
  <2>2. CASE q # p
    <3>1. HoldsDonor(q) /\ KeepsNode(q)
      BY DEF DonorInv
    <3>2. HoldsDonor(q)'
      BY <1>1, <1>2, <1>3, <2>2, <3>1 DEF HoldsDonor
    <3>3. KeepsNode(q)'
      BY <1>1, <1>3, <2>2, <3>1 DEF KeepsNode, IsForm, committed
    <3> QED BY <3>2, <3>3
  <2> QED BY <2>1, <2>2
<1> QED BY <1>5, <1>6, <1>7, <1>8, <1>9 DEF DonorInv

LEMMA NextDonors ==
  ASSUME Editor = {}, EditorsEdit, TypeOK, MemoryInv, NodeInv, DonorInv, [Next]_vars
  PROVE  DonorInv'
<1>1. CASE UNCHANGED vars
  BY <1>1 DEF vars, DonorInv, InstallsSettled, DonorClaimed, Claimed, VersionsClaimed, Versions,
     LockedTogether, HoldsDonor, KeepsNode, IsForm, committed, latest, locks
<1>2. ASSUME NEW p \in Proc, Request(p) PROVE DonorInv'
  <2>1. ~(\E i \in Installs : ReadInstall(p, i)) /\ ~(\E s \in InstallStatus : SaveInstall(p, s))
    BY DEF ReadInstall, SaveInstall, EditorsEdit
  <2> QED BY <1>2, <2>1, FormDonors, EditDonors DEF Request
<1>3. ASSUME NEW p \in Proc, Waiting(p) PROVE DonorInv'
  BY <1>3, FormDonors, ClaimDonors, WriteDonors DEF Waiting
<1>4. ASSUME NEW p \in Proc, Working(p) PROVE DonorInv'
  BY <1>4, FormDonors, SearchDonors, EditDonors, CommitDonors, RollbackDonors DEF Working
<1> QED BY <1>1, <1>2, <1>3, <1>4 DEF Next

(* Where nobody saves whole install rows, the install whose number a node   *)
(* carries is that node's own or marked NN_REASSIGNED, at every commit.     *)
THEOREM DonorsAreClaimed ==
  ASSUME Editor = {}
  PROVE  Spec => []DonorClaimed
<1>1. Init => TypeOK /\ MemoryInv /\ NodeInv /\ EditorsEdit /\ DonorInv
  BY InitType, InitNodes, InitEditors, InitDonors
<1>2. TypeOK /\ MemoryInv /\ NodeInv /\ EditorsEdit /\ DonorInv /\ [Next]_vars
        => (TypeOK /\ MemoryInv /\ NodeInv /\ EditorsEdit /\ DonorInv)'
  BY NextType, NextNodes, NextEditors, NextDonors
<1>3. DonorInv => DonorClaimed
  BY DEF DonorInv
<1> QED BY <1>1, <1>2, <1>3, PTL DEF Spec

-----------------------------------------------------------------------------
(***************************************************************************)
(* References point at rows.  A node is there from its first commit on, so *)
(* what a session once read stays so; a reference that is not committed    *)
(* may point at the node that is to be committed with it.                  *)
(***************************************************************************)
Present(n) == nodes[n].status # "absent"

(* Node n is stored, or about to be with what p holds. *)
Stored(n, p) == nodesW[n].status # "absent" /\ (Present(n) \/ nodeLock[n] = p)

WritersCommit == \A n \in Node : nodeLock[n] # NoProc => pc[nodeLock[n]] = "commit"

AbsentAreBare ==
  \A n \in Node : /\ Present(n) => nodesW[n].status # "absent"
                  /\ \A v \in Versions(n) : v.status = "absent" => v.nn = Null

LatestRefer ==
  /\ \A i \in Installs : installsW[i].node # Null => Stored(installsW[i].node, installLock[i])
  /\ \A b \in Building : primaryW[b] # Null => Stored(primaryW[b], primaryLock[b])

KnowsRow(p) ==
  /\ pc[p] \in HasNode \/ (pc[p] = "lock" /\ ~IsForm(p)) => obj[p].status # "absent"
  /\ pc[p] = "editInstall" /\ row[p].node # Null => Present(row[p].node)

ReferInv ==
  /\ WritersCommit /\ AbsentAreBare /\ LatestRefer
  /\ RefersToRows(nodes, installs, primary)
  /\ \A p \in Proc : KnowsRow(p)

LEMMA InitRefer == Init => ReferInv
<1> SUFFICES ASSUME Init PROVE ReferInv
  OBVIOUS
<1>1. PICK db \in Start : nodes = db.nodes /\ installs = db.installs /\ primary = db.primary
  BY DEF Init
<1>2. /\ RefersToRows(nodes, installs, primary)
      /\ installs \in [Installs -> InstallRow] /\ primary \in [Building -> Node \cup {Null}]
  BY <1>1, StartAssumption DEF Consistent
<1>3. WritersCommit /\ \A p \in Proc : KnowsRow(p)
  BY DEF Init, WritersCommit, KnowsRow, HasNode
<1>4. AbsentAreBare
  BY <1>2 DEF Init, AbsentAreBare, Versions, RefersToRows, Present
<1>5. LatestRefer
  BY <1>2 DEF Init, LatestRefer, RefersToRows, Stored, Present, InstallRow
<1> QED BY <1>2, <1>3, <1>4, <1>5 DEF ReferInv

(* What a step of p leaves alone of the others' memory, and of the rows'   *)
(* locks when it is no end of a transaction.                               *)
OthersKept(p) ==
  \A q \in Proc \ {p} :
    pc'[q] = pc[q] /\ obj'[q] = obj[q] /\ inum'[q] = inum[q] /\ row'[q] = row[q]

LocksTaken(p) ==
  /\ \A i \in Installs : installLock'[i] = installLock[i] \/ (installLock[i] = NoProc /\ installLock'[i] = p)
  /\ \A b \in Building : primaryLock'[b] = primaryLock[b] \/ (primaryLock[b] = NoProc /\ primaryLock'[b] = p)

(* A step of p that changes no row keeps ReferInv if p's memory allows. *)
LEMMA ReferUntouched ==
  ASSUME NEW p \in Proc, TypeOK, NodeInv, ReferInv, UNCHANGED <<committed, latest, nodeLock>>,
         LocksTaken(p), OthersKept(p), pc[p] # "commit", KnowsRow(p)'
  PROVE  ReferInv'
<1>1. UNCHANGED <<nodes, installs, primary, nodesW, installsW, primaryW>>
  BY DEF committed, latest
<1>2. WritersCommit'
  BY DEF ReferInv, WritersCommit, OthersKept, TypeOK
<1>3. \A n \in Node, q, r \in Proc \cup {NoProc} :
         Stored(n, q) /\ (q = r \/ q = NoProc) => Stored(n, r)'
  BY <1>1 DEF NodeInv, UnlockedIsCommitted, Stored, Present
<1>4. LatestRefer'
  <2>1. ASSUME NEW i \in Installs, installsW[i].node # Null
        PROVE  Stored(installsW[i].node, installLock[i])'
    <3>1. installsW[i].node \in Node /\ installLock[i] \in Proc \cup {NoProc}
      BY <2>1 DEF TypeOK, InstallRow
    <3>2. Stored(installsW[i].node, installLock[i])
      BY <2>1 DEF ReferInv, LatestRefer
    <3>3. installLock'[i] \in Proc \cup {NoProc} /\ (installLock[i] = installLock'[i] \/ installLock[i] = NoProc)
      BY <3>1 DEF LocksTaken
    <3> QED BY <1>1, <1>3, <3>1, <3>2, <3>3
  <2>2. ASSUME NEW b \in Building, primaryW[b] # Null
        PROVE  Stored(primaryW[b], primaryLock[b])'
    <3>1. primaryW[b] \in Node /\ primaryLock[b] \in Proc \cup {NoProc}
      BY <2>2 DEF TypeOK
    <3>2. Stored(primaryW[b], primaryLock[b])
      BY <2>2 DEF ReferInv, LatestRefer
    <3>3. primaryLock'[b] \in Proc \cup {NoProc} /\ (primaryLock[b] = primaryLock'[b] \/ primaryLock[b] = NoProc)
      BY <3>1 DEF LocksTaken
    <3> QED BY <1>1, <1>3, <3>1, <3>2, <3>3
  <2> QED BY <1>1, <2>1, <2>2 DEF LatestRefer
<1>5. AbsentAreBare' /\ RefersToRows(nodes, installs, primary)'
  BY <1>1 DEF ReferInv, AbsentAreBare, Versions, RefersToRows, Present
<1>6. \A q \in Proc : KnowsRow(q)'
  <2> SUFFICES ASSUME NEW q \in Proc, q # p PROVE KnowsRow(q)'
    OBVIOUS
  <2>1. KnowsRow(q) /\ pc'[q] = pc[q] /\ obj'[q] = obj[q] /\ inum'[q] = inum[q] /\ row'[q] = row[q]
    BY DEF ReferInv, OthersKept
  <2> QED BY <1>1, <2>1 DEF KnowsRow, IsForm, Present
<1> QED BY <1>2, <1>4, <1>5, <1>6 DEF ReferInv

(* The steps that change no row. *)
Quiet(p) ==
  \/ \E i \in Installs \cup {0} : PostForm(p, i)
  \/ \E n \in Node : ReadNode(p, n) \/ NewNode(p, n)
  \/ \E s \in NodeStatus, k \in Vanity \cup {obj[p].nn} : EditNode(p, s, k)
  \/ \E i \in Installs : ReadInstall(p, i)
  \/ AcquireLock(p) \/ LockInstall(p) \/ ChooseNode(p) \/ ChooseNumber(p)
  \/ ScanInstalls(p) \/ ScanNodes(p) \/ CheckNumber(p) \/ SaveNode(p) \/ CloseSession(p)

LEMMA StepKinds ==
  ASSUME NEW p \in Proc, Request(p) \/ Waiting(p) \/ Working(p)
  PROVE  \/ Quiet(p) \/ ClaimDonor(p) \/ WriteNode(p) \/ Commit(p) \/ Rollback(p)
         \/ \E s \in InstallStatus : SaveInstall(p, s)
<1>1. CASE Request(p)
  BY <1>1 DEF Request, Quiet
<1>2. CASE Waiting(p)
  BY <1>2 DEF Waiting, Quiet
<1>3. CASE Working(p)
  BY <1>3 DEF Working, Quiet
<1> QED BY <1>1, <1>2, <1>3

LEMMA QuietSteps ==
  ASSUME NEW p \in Proc, TypeOK, Quiet(p)
  PROVE  /\ UNCHANGED <<committed, latest, nodeLock>> /\ LocksTaken(p) /\ OthersKept(p)
         /\ pc[p] \notin {"claimDonor", "saveDonor", "write", "commit", "rollback"}
<1>1. UNCHANGED <<committed, latest>>
  BY InstallsUntouched DEF Quiet
<1>2. CASE \E i \in Installs \cup {0} : PostForm(p, i)
  BY <1>1, <1>2 DEF PostForm, Goto, LocksTaken, OthersKept, TypeOK, locks
<1>3. CASE \E n \in Node : ReadNode(p, n) \/ NewNode(p, n)
  BY <1>1, <1>3 DEF ReadNode, NewNode, Goto, LocksTaken, OthersKept, TypeOK, locks
<1>4. CASE \E s \in NodeStatus, k \in Vanity \cup {obj[p].nn} : EditNode(p, s, k)
  BY <1>1, <1>4 DEF EditNode, Goto, LocksTaken, OthersKept, TypeOK, locks
<1>5. CASE \E i \in Installs : ReadInstall(p, i)
  BY <1>1, <1>5 DEF ReadInstall, Goto, LocksTaken, OthersKept, TypeOK, locks
<1>6. CASE AcquireLock(p) \/ SaveNode(p) \/ CloseSession(p)
  BY <1>1, <1>6 DEF AcquireLock, SaveNode, CloseSession, Raise, Finish, Goto, LocksTaken, OthersKept, TypeOK, locks
<1>7. CASE LockInstall(p)
  BY <1>1, <1>7 DEF LockInstall, Answer, Finish, Goto, LocksTaken, OthersKept, TypeOK, locks
<1>8. CASE ChooseNode(p)
  BY <1>1, <1>8 DEF ChooseNode, Answer, Finish, Goto, LocksTaken, OthersKept, TypeOK, locks
<1>9. CASE ChooseNumber(p) \/ ScanInstalls(p)
  BY <1>1, <1>9 DEF ChooseNumber, ScanInstalls, Goto, LocksTaken, OthersKept, TypeOK, locks
<1>10. CASE ScanNodes(p)
  BY <1>1, <1>10 DEF ScanNodes, Raise, Finish, Goto, LocksTaken, OthersKept, TypeOK, locks
<1>11. CASE CheckNumber(p)
  BY <1>1, <1>11 DEF CheckNumber, ValueError, Answer, Raise, Finish, Goto, LocksTaken, OthersKept, TypeOK, locks
<1> QED BY <1>2, <1>3, <1>4, <1>5, <1>6, <1>7, <1>8, <1>9, <1>10, <1>11 DEF Quiet

(* What a quiet step of p puts in p's memory. *)
LEMMA QuietRefer ==
  ASSUME NEW p \in Proc, TypeOK, MemoryInv, NodeInv, ReferInv, Quiet(p)
  PROVE  ReferInv'
<1>1. /\ UNCHANGED <<committed, latest, nodeLock>> /\ LocksTaken(p) /\ OthersKept(p)
      /\ pc[p] \notin {"claimDonor", "saveDonor", "write", "commit", "rollback"}
  BY QuietSteps
<1>0. KnowsRow(p) /\ Memory(p) /\ RefersToRows(nodes, installs, primary)
  BY DEF ReferInv, MemoryInv
<1>2. KnowsRow(p)'
  <2>1. CASE \E i \in Installs \cup {0} : PostForm(p, i)
    BY <2>1, NumberAssumption DEF PostForm, Goto, KnowsRow, HasNode, IsForm, TypeOK
  <2>2. CASE \E n \in Node : ReadNode(p, n) \/ NewNode(p, n)
    BY <2>2 DEF ReadNode, NewNode, ObjectOf, Goto, KnowsRow, TypeOK
  <2>3. ASSUME NEW s \in NodeStatus, NEW k \in Vanity \cup {obj[p].nn}, EditNode(p, s, k)
        PROVE  KnowsRow(p)'
    <3>1. obj'[p].status = s /\ pc'[p] = "save"
      BY <2>3 DEF EditNode, Goto, TypeOK, NodeObject
    <3> QED BY <3>1 DEF KnowsRow, NodeStatus
  <2>4. CASE \E i \in Installs : ReadInstall(p, i)
    BY <1>0, <1>1, <2>4 DEF ReadInstall, Goto, KnowsRow, HasNode, RefersToRows, Present, TypeOK, committed
  <2>5. CASE AcquireLock(p) \/ SaveNode(p) \/ CloseSession(p)
    BY <1>0, <2>5 DEF AcquireLock, SaveNode, CloseSession, Raise, Finish, Goto, KnowsRow, HasNode, IsForm, TypeOK
  <2>6. CASE LockInstall(p)
    BY <2>6 DEF LockInstall, Answer, Finish, Goto, KnowsRow, HasNode, TypeOK
  <2>7. CASE ChooseNode(p)
    <3>1. CASE pc'[p] = "commit"
      BY <3>1 DEF KnowsRow, HasNode
    <3>2. ASSUME NEW l \in {"number", "save"}, pc'[p] = l, obj'[p].status # "absent" PROVE KnowsRow(p)'
      BY <3>2 DEF KnowsRow
    <3>3. inum[p] \in Installs
      BY <1>0, <2>7 DEF ChooseNode, Memory, HoldsInstall
    <3>4. Reusable(inum[p]) # Null => Revived(ObjectOf(Reusable(inum[p]))).status # "absent"
      BY <1>0, <3>3, BuildingAssumption DEF Reusable, Revived, ObjectOf, RefersToRows
    <3> QED BY <2>7, <3>1, <3>2, <3>4 DEF ChooseNode, Answer, Finish, Goto, TypeOK
  <2>8. CASE ChooseNumber(p)
    <3>1. pc'[p] \in HasNode /\ pc[p] \in HasNode
      BY <2>8 DEF ChooseNumber, Goto, TypeOK, HasNode
    <3>2. obj'[p].status = obj[p].status
      BY <2>8 DEF ChooseNumber, TypeOK, NodeObject
    <3> QED BY <1>0, <3>1, <3>2 DEF KnowsRow, HasNode
  <2>9. CASE ScanInstalls(p)
    BY <1>0, <2>9 DEF ScanInstalls, Goto, KnowsRow, HasNode, TypeOK
  <2>10. CASE ScanNodes(p)
    <3>1. pc'[p] \in {"claimCheck", "rollback"} /\ pc[p] \in HasNode
      BY <2>10 DEF ScanNodes, Raise, Finish, Goto, TypeOK, HasNode
    <3>2. obj'[p].status = obj[p].status
      BY <2>10 DEF ScanNodes, TypeOK, NodeObject
    <3> QED BY <1>0, <3>1, <3>2 DEF KnowsRow, HasNode
  <2>11. CASE CheckNumber(p)
    BY <1>0, <2>11 DEF CheckNumber, ValueError, Answer, Raise, Finish, Goto, KnowsRow, HasNode, TypeOK
  <2> QED BY <2>1, <2>2, <2>3, <2>4, <2>5, <2>6, <2>7, <2>8, <2>9, <2>10, <2>11 DEF Quiet
<1> QED BY <1>1, <1>2, ReferUntouched

LEMMA ClaimRefer ==
  ASSUME NEW p \in Proc, TypeOK, MemoryInv, NodeInv, ReferInv, ClaimDonor(p)
  PROVE  ReferInv'
<1>1. UNCHANGED <<nodes, installs, primary, nodesW, primaryW, nodeLock, primaryLock>> /\ OthersKept(p)
  BY DEF ClaimDonor, Claim, ValueError, Answer, Raise, Finish, Goto, OthersKept, TypeOK, committed, latest, locks
<1>2. /\ \A i \in Installs : installsW'[i].node = installsW[i].node
      /\ \A i \in Installs : installLock'[i] = installLock[i] \/ (installLock[i] = NoProc /\ installLock'[i] = p)
  <2>1. \A k \in Installs, i \in Installs : Retired(k)[i].node = installsW[i].node
    BY DEF Retired, TypeOK, InstallRow
  <2> QED BY <2>1 DEF ClaimDonor, Claim, TypeOK, latest, locks
<1>3. pc[p] \in HasNode /\ pc[p] # "commit" /\ pc'[p] \in {"save", "write", "commit", "rollback"} /\ obj'[p] = obj[p]
  BY DEF ClaimDonor, ValueError, Answer, Raise, Finish, Goto, TypeOK, HasNode
<1>4. WritersCommit'
  BY <1>1, <1>3 DEF ReferInv, WritersCommit, OthersKept, TypeOK
<1>5. \A n \in Node, q, r \in Proc \cup {NoProc} :
         Stored(n, q) /\ (q = r \/ q = NoProc) => Stored(n, r)'
  BY <1>1 DEF NodeInv, UnlockedIsCommitted, Stored, Present
<1>6. LatestRefer'
  <2>1. ASSUME NEW i \in Installs, installsW'[i].node # Null
        PROVE  Stored(installsW[i].node, installLock[i])'
    <3>1. installsW[i].node \in Node /\ installLock[i] \in Proc \cup {NoProc}
      BY <1>2, <2>1 DEF TypeOK, InstallRow
    <3>2. Stored(installsW[i].node, installLock[i])
      BY <1>2, <2>1 DEF ReferInv, LatestRefer
    <3>3. installLock'[i] \in Proc \cup {NoProc} /\ (installLock[i] = installLock'[i] \/ installLock[i] = NoProc)
      BY <1>2, <3>1
    <3>4. installsW'[i].node = installsW[i].node
      BY <1>2
    <3> QED BY <1>5, <3>1, <3>2, <3>3, <3>4
  <2>2. ASSUME NEW b \in Building, primaryW'[b] # Null
        PROVE  Stored(primaryW[b], primaryLock[b])'
    BY <1>1, <2>2 DEF ReferInv, LatestRefer, Stored, Present
  <2> QED BY <2>1, <2>2 DEF LatestRefer
<1>7. AbsentAreBare' /\ RefersToRows(nodes, installs, primary)'
  BY <1>1 DEF ReferInv, AbsentAreBare, Versions, RefersToRows, Present
<1>8. \A q \in Proc : KnowsRow(q)'
  <2> SUFFICES ASSUME NEW q \in Proc PROVE KnowsRow(q)'
    OBVIOUS
  <2>0. KnowsRow(q)
    BY DEF ReferInv
  <2>1. CASE q = p
    BY <1>3, <2>0, <2>1 DEF KnowsRow, HasNode
  <2>2. CASE q # p
    BY <1>1, <2>0, <2>2 DEF KnowsRow, IsForm, Present, OthersKept
  <2> QED BY <2>1, <2>2
<1> QED BY <1>4, <1>6, <1>7, <1>8 DEF ReferInv

LEMMA WriteRefer ==
  ASSUME NEW p \in Proc, TypeOK, MemoryInv, NodeInv, ReferInv, WriteNode(p)
  PROVE  ReferInv'
<1> DEFINE o == obj[p]
           i == inum[p]
           new == [nn |-> o.nn, status |-> o.status]
<1>1. /\ pc[p] = "write" /\ o.id \in Node /\ o.status # "absent" /\ nodeLock[o.id] = NoProc
      /\ UNCHANGED <<nodes, installs, primary, installLock, primaryLock, obj>> /\ pc'[p] \in {"commit", "rollback"}
      /\ OthersKept(p)
  BY DEF WriteNode, MemoryInv, Memory, HasNode, ReferInv, KnowsRow, Answer, Finish, DuplicateNumber, Goto, TypeOK,
         OthersKept, committed
<1>2. IsForm(p) => /\ i \in Installs /\ BuildingOf[i] \in Building
                   /\ installLock[i] = p /\ primaryLock[BuildingOf[i]] = p
  BY <1>1, BuildingAssumption DEF MemoryInv, Memory, HoldsInstall, HasNode
<1>3. AbsentAreBare /\ LatestRefer /\ WritersCommit /\ RefersToRows(nodes, installs, primary)
  BY DEF ReferInv
<1>4. RefersToRows(nodes, installs, primary)'
  BY <1>1, <1>3 DEF RefersToRows
<1>5. \A q \in Proc : KnowsRow(q)'
  <2> SUFFICES ASSUME NEW q \in Proc PROVE KnowsRow(q)'
    OBVIOUS
  <2>0. KnowsRow(q)
    BY DEF ReferInv
  <2>1. CASE q = p
    BY <1>1, <2>1 DEF KnowsRow, HasNode
  <2>2. CASE q # p
    BY <1>1, <2>0, <2>2 DEF KnowsRow, IsForm, Present, OthersKept
  <2> QED BY <2>1, <2>2
<1>6. CASE StoreRows(p) /\ Answer(p, "saved")
  <2>1. /\ \A n \in Node : nodesW'[n] = IF n = o.id THEN new ELSE nodesW[n]
        /\ \A n \in Node : nodeLock'[n] = IF n = o.id THEN p ELSE nodeLock[n]
    BY <1>6 DEF StoreRows, TypeOK
  <2>2. pc'[p] = "commit"
    BY <1>6 DEF Answer, Finish, Goto, TypeOK
  <2>3. WritersCommit'
    BY <1>1, <1>3, <2>1, <2>2 DEF WritersCommit, OthersKept, TypeOK
  <2>4. AbsentAreBare'
    BY <1>1, <1>3, <2>1 DEF AbsentAreBare, Versions, Present
  <2>5. \A n \in Node, q \in Proc \cup {NoProc} : Stored(n, q) => Stored(n, q)'
    BY <1>1, <2>1 DEF NodeInv, UnlockedIsCommitted, Stored, Present
  <2>6. Stored(o.id, p)'
    BY <1>1, <2>1 DEF Stored
  <2>7. \A j \in Installs : \/ installsW'[j].node = installsW[j].node
                            \/ installsW'[j].node = o.id /\ installLock[j] = p
    BY <1>2, <1>6 DEF StoreRows, Attached, TypeOK
  <2>8. \A b \in Building : primaryW'[b] = primaryW[b] \/ (primaryW'[b] = o.id /\ primaryLock[b] = p)
    BY <1>2, <1>6 DEF StoreRows, TypeOK
  <2>9. LatestRefer'
    <3>1. ASSUME NEW j \in Installs, installsW'[j].node # Null
          PROVE  Stored(installsW[j].node, installLock[j])'
      <4>1. installLock'[j] = installLock[j] /\ installLock[j] \in Proc \cup {NoProc}
        BY <1>1 DEF TypeOK
      <4>2. CASE installsW'[j].node = o.id /\ installLock[j] = p
        BY <1>1, <2>6, <4>1, <4>2 DEF Stored, Present
      <4>3. CASE installsW'[j].node = installsW[j].node
        <5>1. installsW[j].node \in Node /\ Stored(installsW[j].node, installLock[j])
          BY <1>3, <3>1, <4>3 DEF LatestRefer, TypeOK, InstallRow
        <5> QED BY <2>5, <4>1, <4>3, <5>1
      <4> QED BY <2>7, <4>2, <4>3
    <3>2. ASSUME NEW b \in Building, primaryW'[b] # Null
          PROVE  Stored(primaryW[b], primaryLock[b])'
      <4>1. primaryLock'[b] = primaryLock[b] /\ primaryLock[b] \in Proc \cup {NoProc}
        BY <1>1 DEF TypeOK
      <4>2. CASE primaryW'[b] = o.id /\ primaryLock[b] = p
        BY <1>1, <2>6, <4>1, <4>2 DEF Stored, Present
      <4>3. CASE primaryW'[b] = primaryW[b]
        <5>1. primaryW[b] \in Node /\ Stored(primaryW[b], primaryLock[b])
          BY <1>3, <3>2, <4>3 DEF LatestRefer, TypeOK
        <5> QED BY <2>5, <4>1, <4>3, <5>1
      <4> QED BY <2>8, <4>2, <4>3
    <3> QED BY <3>1, <3>2 DEF LatestRefer
  <2> QED BY <1>4, <1>5, <2>3, <2>4, <2>9 DEF ReferInv
<1>7. CASE DuplicateNumber(p) /\ UNCHANGED <<nodesW, nodeLock, primaryW>>
  <2>1. WritersCommit'
    BY <1>1, <1>3, <1>7 DEF WritersCommit, OthersKept, TypeOK
  <2>2. AbsentAreBare'
    BY <1>1, <1>3, <1>7 DEF AbsentAreBare, Versions, Present
  <2>3. \A j \in Installs : installsW'[j] \in {installsW[j], installs[j]}
    BY <1>2, <1>7 DEF DuplicateNumber, TypeOK
  <2>4. \A n, q : Stored(n, q) => Stored(n, q)'
    BY <1>1, <1>7 DEF Stored, Present
  <2>5. \A n \in Node : \A q : Present(n) => Stored(n, q)'
    BY <1>1, <1>3, <1>7 DEF Stored, Present, AbsentAreBare
  <2>6. ASSUME NEW j \in Installs, installsW'[j].node # Null
        PROVE  Stored(installsW[j].node, installLock[j])'
    <3>1. installLock'[j] = installLock[j]
      BY <1>1
    <3>2. CASE installsW'[j] = installsW[j]
      BY <1>3, <2>4, <2>6, <3>1, <3>2 DEF LatestRefer
    <3>3. CASE installsW'[j] = installs[j]
      BY <1>3, <2>5, <2>6, <3>1, <3>3 DEF RefersToRows, Present, TypeOK, InstallRow
    <3> QED BY <2>3, <3>2, <3>3
  <2>7. ASSUME NEW b \in Building, primaryW'[b] # Null
        PROVE  Stored(primaryW[b], primaryLock[b])'
    BY <1>1, <1>3, <1>7, <2>4, <2>7 DEF LatestRefer
  <2> QED BY <1>4, <1>5, <2>1, <2>2, <2>6, <2>7 DEF ReferInv, LatestRefer
<1> QED BY <1>6, <1>7 DEF WriteNode

LEMMA EndMemory ==
  ASSUME NEW p \in Proc, TypeOK, Commit(p) \/ Rollback(p)
  PROVE  /\ OthersKept(p) /\ Unlocked(p) /\ pc'[p] \in {"idle", "close"} /\ inum'[p] = Null
         /\ obj'[p] = NoObject
<1>1. Unlocked(p) /\ Forget(p) /\ (Goto(p, "idle") \/ Goto(p, "close"))
  BY DEF Commit, Rollback
<1> QED BY <1>1 DEF Forget, Goto, OthersKept, TypeOK

LEMMA EndRefer ==
  ASSUME NEW p \in Proc, TypeOK, MemoryInv, NodeInv, ReferInv, Commit(p) \/ Rollback(p)
  PROVE  ReferInv'
<1>0. WritersCommit /\ AbsentAreBare /\ LatestRefer /\ RefersToRows(nodes, installs, primary)
  BY DEF ReferInv
<1>1. /\ OthersKept(p) /\ pc'[p] \in {"idle", "close"}
      /\ \A n \in Node : nodeLock'[n] = IF nodeLock[n] = p THEN NoProc ELSE nodeLock[n]
      /\ \A i \in Installs : installLock'[i] = IF installLock[i] = p THEN NoProc ELSE installLock[i]
      /\ \A b \in Building : primaryLock'[b] = IF primaryLock[b] = p THEN NoProc ELSE primaryLock[b]
  BY EndMemory, UnlockedType
<1>2. /\ \A n \in Node : nodesW'[n] = nodesW[n] /\ nodes'[n] \in Versions(n)
      /\ \A n \in Node : nodeLock[n] = p => nodes'[n] = nodesW[n]
      /\ \A n \in Node : nodeLock[n] # p => nodes'[n] = nodes[n]
  <2>1. CASE Commit(p)
    BY <2>1 DEF Commit, Merge, Versions, TypeOK, latest
  <2>2. CASE Rollback(p)
    <3>1. \A n \in Node : nodeLock[n] # p
      BY <1>0, <2>2, ProcAssumption DEF Rollback, WritersCommit
    <3> QED BY <2>2, <3>1 DEF Rollback, Merge, Versions, TypeOK, committed
  <2> QED BY <2>1, <2>2
<1>3. \A n \in Node : /\ Present(n) => Present(n)'
                      /\ nodeLock[n] = p /\ nodesW[n].status # "absent" => Present(n)'
  BY <1>0, <1>2 DEF AbsentAreBare, Present
<1>4. /\ \A i \in Installs : installs'[i] = installs[i] \/ (installs'[i] = installsW[i] /\ installLock[i] = p)
      /\ \A i \in Installs : installsW'[i] = installsW[i] \/ (installsW'[i] = installs[i] /\ installLock[i] = p)
      /\ \A b \in Building : primary'[b] = primary[b] \/ (primary'[b] = primaryW[b] /\ primaryLock[b] = p)
      /\ \A b \in Building : primaryW'[b] = primaryW[b] \/ (primaryW'[b] = primary[b] /\ primaryLock[b] = p)
  BY DEF Commit, Rollback, Merge, TypeOK, committed, latest
<1>5. WritersCommit'
  BY <1>0, <1>1, ProcAssumption DEF WritersCommit, OthersKept, TypeOK
<1>6. AbsentAreBare'
  BY <1>0, <1>2 DEF AbsentAreBare, Versions, Present
<1>7. \A n \in Node : Stored(n, p) => Present(n)'
  BY <1>3 DEF Stored
<1>8. RefersToRows(nodes, installs, primary)'
  <2>1. \A i \in Installs : installs'[i].node # Null => nodes'[installs'[i].node].status # "absent"
    <3> SUFFICES ASSUME NEW i \in Installs, installs'[i].node # Null PROVE nodes'[installs'[i].node].status # "absent"
      OBVIOUS
    <3>1. CASE installs'[i] = installs[i]
      BY <1>0, <1>3, <3>1 DEF RefersToRows, Present, TypeOK, InstallRow
    <3>2. CASE installs'[i] = installsW[i] /\ installLock[i] = p
      BY <1>0, <1>7, <3>2 DEF LatestRefer, Present, TypeOK, InstallRow
    <3> QED BY <1>4, <3>1, <3>2
  <2>2. \A b \in Building : primary'[b] # Null => nodes'[primary'[b]].status # "absent"
    <3> SUFFICES ASSUME NEW b \in Building, primary'[b] # Null PROVE nodes'[primary'[b]].status # "absent"
      OBVIOUS
    <3>1. CASE primary'[b] = primary[b]
      BY <1>0, <1>3, <3>1 DEF RefersToRows, Present, TypeOK
    <3>2. CASE primary'[b] = primaryW[b] /\ primaryLock[b] = p
      BY <1>0, <1>7, <3>2 DEF LatestRefer, Present, TypeOK
    <3> QED BY <1>4, <3>1, <3>2
  <2>3. \A n \in Node : nodes'[n].status = "absent" => nodes'[n].nn = Null
    BY <1>0, <1>2 DEF AbsentAreBare
  <2> QED BY <2>1, <2>2, <2>3 DEF RefersToRows, Present
<1>9. \A n \in Node, q \in Proc \cup {NoProc} : Stored(n, q) =>
         Stored(n, IF q = p THEN NoProc ELSE q)'
  BY <1>1, <1>2, <1>3 DEF Stored, Present
<1>10. \A n \in Node : \A q : Present(n) => Stored(n, q)'
  BY <1>0, <1>2, <1>3 DEF Stored, Present, AbsentAreBare
<1>11. LatestRefer'
  <2>1. ASSUME NEW i \in Installs, installsW'[i].node # Null
        PROVE  Stored(installsW[i].node, installLock[i])'
    <3>1. CASE installsW'[i] = installs[i]
      BY <1>0, <1>10, <2>1, <3>1 DEF RefersToRows, Present, TypeOK, InstallRow
    <3>2. CASE installsW'[i] = installsW[i]
      <4>1. installsW[i].node \in Node /\ installLock[i] \in Proc \cup {NoProc}
        BY <2>1, <3>2 DEF TypeOK, InstallRow
      <4>2. Stored(installsW[i].node, installLock[i])
        BY <1>0, <2>1, <3>2 DEF LatestRefer
      <4>3. installLock'[i] = IF installLock[i] = p THEN NoProc ELSE installLock[i]
        BY <1>1
      <4> QED BY <1>9, <3>2, <4>1, <4>2, <4>3
    <3> QED BY <1>4, <3>1, <3>2
  <2>2. ASSUME NEW b \in Building, primaryW'[b] # Null
        PROVE  Stored(primaryW[b], primaryLock[b])'
    <3>1. CASE primaryW'[b] = primary[b]
      BY <1>0, <1>10, <2>2, <3>1 DEF RefersToRows, Present, TypeOK
    <3>2. CASE primaryW'[b] = primaryW[b]
      <4>1. primaryW[b] \in Node /\ primaryLock[b] \in Proc \cup {NoProc}
        BY <2>2, <3>2 DEF TypeOK
      <4>2. Stored(primaryW[b], primaryLock[b])
        BY <1>0, <2>2, <3>2 DEF LatestRefer
      <4>3. primaryLock'[b] = IF primaryLock[b] = p THEN NoProc ELSE primaryLock[b]
        BY <1>1
      <4> QED BY <1>9, <3>2, <4>1, <4>2, <4>3
    <3> QED BY <1>4, <3>1, <3>2
  <2> QED BY <2>1, <2>2 DEF LatestRefer
<1>12. \A q \in Proc : KnowsRow(q)'
  <2> SUFFICES ASSUME NEW q \in Proc PROVE KnowsRow(q)'
    OBVIOUS
  <2>0. KnowsRow(q)
    BY DEF ReferInv
  <2>1. CASE q = p
    BY <1>1, <2>1 DEF KnowsRow, HasNode
  <2>2. CASE q # p
    BY <1>1, <1>3, <2>0, <2>2 DEF KnowsRow, IsForm, OthersKept, TypeOK, InstallRow
  <2> QED BY <2>1, <2>2
<1> QED BY <1>5, <1>6, <1>8, <1>11, <1>12 DEF ReferInv

LEMMA SaveInstallRefer ==
  ASSUME NEW p \in Proc, NEW s \in InstallStatus, TypeOK, MemoryInv, NodeInv, ReferInv, SaveInstall(p, s)
  PROVE  ReferInv'
<1>0. KnowsRow(p) /\ WritersCommit /\ AbsentAreBare /\ LatestRefer /\ RefersToRows(nodes, installs, primary)
  BY DEF ReferInv
<1>1. /\ pc[p] = "editInstall" /\ inum[p] \in Installs /\ row[p] \in InstallRow
      /\ UNCHANGED <<nodes, primary, nodesW, primaryW, nodeLock, installLock, primaryLock>>
  BY DEF SaveInstall, MemoryInv, Memory, TypeOK, locks
<1>2. OthersKept(p) /\ pc'[p] = "idle"
  BY DEF SaveInstall, Forget, Goto, OthersKept, TypeOK
<1>3. PICK r : /\ r.node = row[p].node
               /\ installs' = [installs EXCEPT ![inum[p]] = r]
               /\ installsW' = [installsW EXCEPT ![inum[p]] = r]
  BY <1>1 DEF SaveInstall, InstallRow
<1>4. WritersCommit' /\ AbsentAreBare'
  BY <1>0, <1>1, <1>2 DEF WritersCommit, AbsentAreBare, Versions, Present, OthersKept, TypeOK
<1>5. r.node # Null => Present(r.node) /\ r.node \in Node
  BY <1>0, <1>1, <1>3 DEF KnowsRow, InstallRow
<1>6. RefersToRows(nodes, installs, primary)'
  BY <1>0, <1>1, <1>3, <1>5 DEF RefersToRows, Present, TypeOK
<1>7. LatestRefer'
  <2>1. \A n, q : Stored(n, q)' <=> Stored(n, q)
    BY <1>1 DEF Stored, Present
  <2>2. \A q : r.node # Null => Stored(r.node, q)
    BY <1>0, <1>5 DEF Stored, AbsentAreBare
  <2>3. ASSUME NEW i \in Installs, installsW'[i].node # Null
        PROVE  Stored(installsW[i].node, installLock[i])'
    <3>1. CASE i = inum[p]
      BY <1>1, <1>3, <2>1, <2>2, <2>3, <3>1 DEF TypeOK
    <3>2. CASE i # inum[p]
      BY <1>0, <1>1, <1>3, <2>1, <2>3, <3>2 DEF LatestRefer, TypeOK
    <3> QED BY <3>1, <3>2
  <2>4. ASSUME NEW b \in Building, primaryW'[b] # Null
        PROVE  Stored(primaryW[b], primaryLock[b])'
    BY <1>0, <1>1, <2>1, <2>4 DEF LatestRefer
  <2> QED BY <2>3, <2>4 DEF LatestRefer
<1>8. \A q \in Proc : KnowsRow(q)'
  <2> SUFFICES ASSUME NEW q \in Proc PROVE KnowsRow(q)'
    OBVIOUS
  <2>0. KnowsRow(q)
    BY DEF ReferInv
  <2>1. CASE q = p
    BY <1>2, <2>1 DEF KnowsRow, HasNode
  <2>2. CASE q # p
    BY <1>1, <1>2, <2>0, <2>2 DEF KnowsRow, IsForm, Present, OthersKept
  <2> QED BY <2>1, <2>2
<1> QED BY <1>4, <1>6, <1>7, <1>8 DEF ReferInv

LEMMA NextRefer == TypeOK /\ MemoryInv /\ NodeInv /\ ReferInv /\ [Next]_vars => ReferInv'
<1> SUFFICES ASSUME TypeOK, MemoryInv, NodeInv, ReferInv, [Next]_vars PROVE ReferInv'
  OBVIOUS
<1>1. CASE UNCHANGED vars
  BY <1>1 DEF vars, ReferInv, WritersCommit, AbsentAreBare, LatestRefer, RefersToRows, KnowsRow, Stored,
              Present, Versions, IsForm, committed, latest, locks
<1>2. ASSUME NEW p \in Proc, Request(p) \/ Waiting(p) \/ Working(p) PROVE ReferInv'
  BY <1>2, StepKinds, QuietRefer, ClaimRefer, WriteRefer, EndRefer, SaveInstallRefer
<1> QED BY <1>1, <1>2 DEF Next

(* No install and no building ever refers to a node that is not there,     *)
(* though a new node and what refers to it are saved one after the other.  *)
THEOREM ReferencesHold == Spec => []RefersToRows(nodes, installs, primary)
<1>1. Init => TypeOK /\ MemoryInv /\ NodeInv /\ ReferInv
  BY InitType, InitNodes, InitRefer
<1>2. TypeOK /\ MemoryInv /\ NodeInv /\ ReferInv /\ [Next]_vars => (TypeOK /\ MemoryInv /\ NodeInv /\ ReferInv)'
  BY NextType, NextNodes, NextRefer
<1>3. ReferInv => RefersToRows(nodes, installs, primary)
  BY DEF ReferInv
<1> QED BY <1>1, <1>2, <1>3, PTL DEF Spec

(* Where nobody saves whole install rows, every database that requests     *)
(* leave behind is one that StartAssumption allows to start from.          *)
THEOREM ConsistencyIsKept ==
  ASSUME Editor = {}
  PROVE  Spec => []Consistent(nodes, installs, primary)
<1>1. UniqueNumbers /\ ActiveNumbered /\ DonorClaimed /\ RefersToRows(nodes, installs, primary)
        => Consistent(nodes, installs, primary)
  BY DEF UniqueNumbers, ActiveNumbered, DonorClaimed, Consistent
<1> QED BY <1>1, NumbersAreUnique, ActiveNodesAreNumbered, DonorsAreClaimed, ReferencesHold, PTL

-----------------------------------------------------------------------------
(* A session that searches has no number yet; a form's node is not active  *)
(* without one, so a form searches before Node.save and never in it.       *)
SearchesBare(p) ==
  /\ pc[p] \in {"number", "scanInstalls", "scanNodes"} \/ (pc[p] = "lock" /\ ~IsForm(p)) => Unset(obj[p].nn)
  /\ IsForm(p) /\ pc[p] \in HasNode => ~Searches(obj[p])

SearchInv == \A p \in Proc : SearchesBare(p)

LEMMA InitSearch == Init => SearchInv
BY DEF Init, SearchInv, SearchesBare, HasNode

LEMMA QuietSearch ==
  ASSUME NEW p \in Proc, TypeOK, MemoryInv, NodeInv, SearchInv, Quiet(p)
  PROVE  SearchesBare(p)'
<1>0. SearchesBare(p) /\ Memory(p)
  BY DEF SearchInv, MemoryInv
<1>1. CASE \E i \in Installs \cup {0} : PostForm(p, i)
  BY <1>1, NumberAssumption DEF PostForm, Goto, SearchesBare, HasNode, IsForm, TypeOK
<1>2. CASE \E n \in Node : ReadNode(p, n) \/ NewNode(p, n)
  BY <1>0, <1>2 DEF ReadNode, NewNode, Goto, SearchesBare, Memory, IsForm, TypeOK
<1>3. CASE \E s \in NodeStatus, k \in Vanity \cup {obj[p].nn} : EditNode(p, s, k)
  BY <1>0, <1>3 DEF EditNode, Goto, SearchesBare, Memory, IsForm, TypeOK
<1>4. CASE \E i \in Installs : ReadInstall(p, i)
  BY <1>4 DEF ReadInstall, Goto, SearchesBare, HasNode, TypeOK
<1>5. CASE AcquireLock(p) \/ CloseSession(p)
  BY <1>0, <1>5 DEF AcquireLock, CloseSession, Goto, SearchesBare, HasNode, IsForm, TypeOK
<1>6. CASE SaveNode(p)
  BY <1>0, <1>6 DEF SaveNode, Searches, Raise, Finish, Goto, SearchesBare, HasNode, IsForm, TypeOK
<1>7. CASE LockInstall(p)
  BY <1>7 DEF LockInstall, Answer, Finish, Goto, SearchesBare, HasNode, TypeOK
<1>8. CASE ChooseNode(p)
  <2>1. NumberedIfActive(nodes)
    BY DEF NodeInv, VersionsNumbered, Versions, NumberedIfActive
  <2>2. inum[p] \in Installs
    BY <1>0, <1>8 DEF ChooseNode, Memory, HoldsInstall
  <2>3. CASE pc'[p] = "commit"
    BY <2>3 DEF SearchesBare, HasNode
  <2>4. ASSUME NEW l \in {"number", "save"}, pc'[p] = l, ~Searches(obj[p])', l = "number" => obj'[p].nn = Null
        PROVE  SearchesBare(p)'
    BY <2>4 DEF SearchesBare, Unset
  <2>5. ASSUME NEW n \in Node PROVE ~Searches(Revived(ObjectOf(n))) /\ Revived(ObjectOf(n)).nn = nodes[n].nn
    BY <2>1 DEF Searches, Revived, ObjectOf, NumberedIfActive
  <2>6. Reusable(inum[p]) # Null => Reusable(inum[p]) \in Node
    BY <2>2, BuildingAssumption DEF Reusable, TypeOK, InstallRow
  <2>7. ASSUME NEW n \in Node, obj' = [obj EXCEPT ![p] = Revived(ObjectOf(n))],
               Goto(p, IF ObjectOf(n).nn = Null THEN "number" ELSE "save")
        PROVE  SearchesBare(p)'
    BY <2>4, <2>5, <2>7 DEF Goto, TypeOK, ObjectOf
  <2>8. ASSUME NEW n \in Fresh, Goto(p, "number"),
               obj' = [obj EXCEPT ![p] = [id |-> n, adding |-> TRUE, nn |-> Null, status |-> "PLANNED"]]
        PROVE  SearchesBare(p)'
    BY <2>8 DEF SearchesBare, Searches, Unset, Goto, TypeOK
  <2> QED BY <1>8, <2>3, <2>6, <2>7, <2>8 DEF ChooseNode, Answer, Finish, Goto, TypeOK
<1>9. CASE ChooseNumber(p)
  <2>0. obj[p] \in NodeObject /\ inum[p] \in Installs /\ IsForm(p) /\ pc[p] = "number"
    BY <1>0, <1>9 DEF ChooseNumber, Memory, HoldsInstall, HasNode, TypeOK
  <2>1. CASE OwnNumberUsable(inum[p])
    <3>1. obj'[p] = [obj[p] EXCEPT !.nn = inum[p]] /\ pc'[p] = "save"
      BY <1>9, <2>1 DEF ChooseNumber, Goto, TypeOK
    <3>2. ~Searches(obj[p])'
      BY <2>0, <3>1, NumberAssumption DEF Searches, Unset, NodeObject
    <3> QED BY <3>1, <3>2 DEF SearchesBare
  <2>2. CASE ~OwnNumberUsable(inum[p])
    BY <1>0, <1>9, <2>0, <2>2 DEF ChooseNumber, Goto, SearchesBare, HasNode, IsForm, TypeOK
  <2> QED BY <2>1, <2>2
<1>10. CASE ScanInstalls(p)
  BY <1>0, <1>10 DEF ScanInstalls, Goto, SearchesBare, HasNode, IsForm, TypeOK
<1>11. CASE ScanNodes(p)
  <2>0. obj[p] \in NodeObject
    BY DEF TypeOK
  <2>1. CASE FreeNumbers(p) # {}
    <3>1. PICK k \in FreeNumbers(p) : obj' = [obj EXCEPT ![p].nn = k]
      BY <1>11, <2>1 DEF ScanNodes
    <3>2. ~Unset(k)
      BY NumberAssumption DEF FreeNumbers, Unset
    <3>3. ~Searches(obj[p])'
      BY <2>0, <3>1, <3>2 DEF Searches, NodeObject, TypeOK
    <3>4. pc'[p] = "claimCheck"
      BY <1>11, <2>1 DEF ScanNodes, Goto, TypeOK
    <3> QED BY <3>3, <3>4 DEF SearchesBare
  <2>2. CASE FreeNumbers(p) = {}
    BY <1>11, <2>2 DEF ScanNodes, Raise, Finish, Goto, SearchesBare, HasNode, TypeOK
  <2> QED BY <2>1, <2>2
<1>12. CASE CheckNumber(p)
  BY <1>0, <1>12 DEF CheckNumber, ValueError, Answer, Raise, Finish, Goto, SearchesBare, HasNode, IsForm, TypeOK
<1> QED BY <1>1, <1>2, <1>3, <1>4, <1>5, <1>6, <1>7, <1>8, <1>9, <1>10, <1>11, <1>12 DEF Quiet

(* Of the rows that others have locked, and of their memory, a step of p   *)
(* changes nothing; only a commit of p changes nodes.                      *)
RowsKept(p) ==
  /\ \A q \in Proc \ {p} : \A n \in Node :
       /\ nodeLock'[n] = q <=> nodeLock[n] = q
       /\ nodeLock[n] = q => nodesW'[n] = nodesW[n] /\ nodes'[n] = nodes[n]
  /\ \A q \in Proc \ {p} : \A i \in Installs :
       /\ installLock'[i] = q <=> installLock[i] = q
       /\ installLock[i] = q => installsW'[i] = installsW[i] /\ installs'[i] = installs[i]

LEMMA StepAlone ==
  ASSUME NEW p \in Proc, TypeOK, MemoryInv, Request(p) \/ Waiting(p) \/ Working(p)
  PROVE  /\ OthersKept(p) /\ RowsKept(p)
         /\ \A n \in Node : nodes'[n] = nodes[n] \/ (nodeLock[n] = p /\ nodes'[n] = nodesW[n] /\ Commit(p))
<1>1. CASE Quiet(p)
  <2>1. UNCHANGED <<committed, latest, nodeLock>> /\ LocksTaken(p) /\ OthersKept(p)
    BY <1>1, QuietSteps
  <2> QED BY <2>1, ProcAssumption DEF RowsKept, LocksTaken, committed, latest
<1>2. CASE ClaimDonor(p)
  <2>1. UNCHANGED <<nodes, installs, nodesW, nodeLock>> /\ OthersKept(p)
    BY <1>2 DEF ClaimDonor, Claim, ValueError, Answer, Raise, Finish, Goto, OthersKept, TypeOK, committed, latest, locks
  <2>2. \A i \in Installs :
           \/ installLock'[i] = installLock[i] /\ installsW'[i] = installsW[i]
           \/ installLock[i] \in {NoProc, p} /\ installLock'[i] = p
    BY <1>2 DEF ClaimDonor, Claim, Retired, TypeOK, latest, locks
  <2> QED BY <2>1, <2>2, ProcAssumption DEF RowsKept
<1>3. CASE WriteNode(p)
  <2>1. /\ UNCHANGED <<nodes, installs, installLock>> /\ OthersKept(p)
        /\ IsForm(p) => installLock[inum[p]] = p
    BY <1>3 DEF WriteNode, MemoryInv, Memory, HoldsInstall, HasNode, Answer, Finish, DuplicateNumber, Goto, TypeOK,
                OthersKept, committed
  <2>2. \A i \in Installs : installsW'[i] = installsW[i] \/ installLock[i] = p
    BY <1>3, <2>1 DEF WriteNode, StoreRows, DuplicateNumber, TypeOK
  <2>3. \A n \in Node : \/ nodesW'[n] = nodesW[n] /\ nodeLock'[n] = nodeLock[n]
                        \/ nodeLock[n] = NoProc /\ nodeLock'[n] = p
    BY <1>3 DEF WriteNode, StoreRows, TypeOK
  <2> QED BY <2>1, <2>2, <2>3, ProcAssumption DEF RowsKept
<1>4. CASE Commit(p) \/ Rollback(p)
  <2>1. /\ OthersKept(p)
        /\ \A n \in Node : nodeLock'[n] = IF nodeLock[n] = p THEN NoProc ELSE nodeLock[n]
        /\ \A i \in Installs : installLock'[i] = IF installLock[i] = p THEN NoProc ELSE installLock[i]
    BY <1>4, EndMemory, UnlockedType
  <2>2. /\ \A n \in Node : nodeLock[n] # p => nodesW'[n] = nodesW[n] /\ nodes'[n] = nodes[n]
        /\ \A i \in Installs : installLock[i] # p => installsW'[i] = installsW[i] /\ installs'[i] = installs[i]
        /\ Commit(p) => \A n \in Node : nodeLock[n] = p => nodes'[n] = nodesW[n]
        /\ Rollback(p) => nodes' = nodes
    BY <1>4 DEF Commit, Rollback, Merge, TypeOK, committed, latest
  <2> QED BY <1>4, <2>1, <2>2, ProcAssumption DEF RowsKept
<1>5. ASSUME NEW s \in InstallStatus, SaveInstall(p, s)
      PROVE  /\ OthersKept(p) /\ RowsKept(p)
             /\ \A n \in Node : nodes'[n] = nodes[n]
  <2>1. /\ UNCHANGED <<nodes, nodesW, nodeLock, installLock>> /\ inum[p] \in Installs
        /\ installLock[inum[p]] = NoProc
    BY <1>5 DEF SaveInstall, MemoryInv, Memory, locks
  <2>2. OthersKept(p)
    BY <1>5 DEF SaveInstall, Forget, Goto, OthersKept, TypeOK
  <2>3. \A i \in Installs : i # inum[p] => installsW'[i] = installsW[i] /\ installs'[i] = installs[i]
    BY <1>5 DEF SaveInstall, TypeOK
  <2> QED BY <2>1, <2>2, <2>3, ProcAssumption DEF RowsKept
<1> QED BY <1>1, <1>2, <1>3, <1>4, <1>5, StepKinds

LEMMA NextSearch == TypeOK /\ MemoryInv /\ NodeInv /\ SearchInv /\ [Next]_vars => SearchInv'
<1> SUFFICES ASSUME TypeOK, MemoryInv, NodeInv, SearchInv, [Next]_vars PROVE SearchInv'
  OBVIOUS
<1>1. CASE UNCHANGED vars
  BY <1>1 DEF vars, SearchInv, SearchesBare, IsForm
<1>2. ASSUME NEW p \in Proc, Request(p) \/ Waiting(p) \/ Working(p) PROVE SearchInv'
  <2>1. OthersKept(p)
    BY <1>2, StepAlone
  <2>2. SearchesBare(p)'
    <3>1. CASE Quiet(p)
      BY <3>1, QuietSearch
    <3>2. CASE Commit(p) \/ Rollback(p)
      BY <3>2, EndMemory DEF SearchesBare, HasNode
    <3>3. CASE \E s \in InstallStatus : SaveInstall(p, s)
      BY <3>3 DEF SaveInstall, Goto, TypeOK, SearchesBare, HasNode
    <3>4. CASE WriteNode(p)
      BY <3>4 DEF WriteNode, DuplicateNumber, Answer, Finish, Goto, TypeOK, SearchesBare, HasNode
    <3>5. CASE ClaimDonor(p)
      <4>1. /\ pc[p] \in HasNode /\ pc'[p] \in {"save", "write", "commit", "rollback"}
            /\ obj' = obj /\ inum' = inum
        BY <3>5 DEF ClaimDonor, ValueError, Answer, Raise, Finish, Goto, TypeOK, HasNode
      <4> QED BY <4>1 DEF SearchInv, SearchesBare, HasNode, IsForm
    <3> QED BY <1>2, <3>1, <3>2, <3>3, <3>4, <3>5, StepKinds
  <2> SUFFICES ASSUME NEW q \in Proc, q # p PROVE SearchesBare(q)'
    BY <2>2 DEF SearchInv
  <2>3. SearchesBare(q) /\ pc'[q] = pc[q] /\ obj'[q] = obj[q] /\ inum'[q] = inum[q]
    BY <2>1 DEF SearchInv, OthersKept
  <2> QED BY <2>3 DEF SearchesBare, Searches, IsForm
<1> QED BY <1>1, <1>2 DEF Next

-----------------------------------------------------------------------------
(***************************************************************************)
(* No commit is decided on with a mark that no node backs.  A mark is made *)
(* when a number has been chosen, so until the transaction ends the        *)
(* session's node carries the marked install's number.  It ends by storing *)
(* that node, by an error that takes the mark back, or, for a form, by the *)
(* index, which then has the number of a committed row nobody is changing. *)
(***************************************************************************)
MarkKept(p, i) ==
  Marked(i) /\ installLock[i] = p =>
     /\ pc[p] \in {"save", "saveCheck", "saveDonor", "write", "commit", "rollback"}
     /\ pc[p] \in {"save", "saveCheck", "saveDonor", "write"} => obj[p].nn = i

MarkInv ==
  /\ InstallsSettled
  /\ \A p \in Proc, i \in Installs : MarkKept(p, i)

LEMMA InitMarks == Init => MarkInv
BY DEF Init, MarkInv, InstallsSettled, MarkKept, Marked

(* What a step of p makes of p's marks. *)
MarksAfter(p) ==
  \A i \in Installs : Marked(i)' /\ installLock'[i] = p =>
     /\ MarkKept(p, i)'
     /\ pc[p] # "commit" /\ pc'[p] = "commit" => \E n \in Node : nodesW'[n].nn = i

LEMMA QuietMarks ==
  ASSUME NEW p \in Proc, TypeOK, MemoryInv, MarkInv, Quiet(p)
  PROVE  MarksAfter(p) /\ InstallsSettled'
<1>1. /\ UNCHANGED <<nodes, installs, nodesW, installsW, nodeLock>> /\ LocksTaken(p)
      /\ pc[p] \notin {"claimDonor", "saveDonor", "write", "commit", "rollback"}
  BY QuietSteps DEF committed, latest
<1>2. InstallsSettled'
  BY <1>1, ProcAssumption DEF MarkInv, InstallsSettled, LocksTaken
<1>3. ASSUME NEW i \in Installs, Marked(i)', installLock'[i] = p
      PROVE  MarkKept(p, i)' /\ pc'[p] # "commit"
  <2>1. Marked(i) /\ installLock[i] = p
    BY <1>1, <1>3 DEF Marked, LocksTaken, MarkInv, InstallsSettled
  <2>2. pc[p] \in {"save", "saveCheck"} /\ obj[p].nn = i /\ ~Unset(obj[p].nn)
    BY <1>1, <2>1, NumberAssumption DEF MarkInv, MarkKept, Unset
  <2>3. SaveNode(p) \/ CheckNumber(p)
    <3>1. ~(\E j \in Installs \cup {0} : PostForm(p, j))
      BY <2>2 DEF PostForm
    <3>2. ~(\E n \in Node : ReadNode(p, n) \/ NewNode(p, n))
      BY <2>2 DEF ReadNode, NewNode
    <3>3. ~(\E s \in NodeStatus, k \in Vanity \cup {obj[p].nn} : EditNode(p, s, k))
      BY <2>2 DEF EditNode
    <3>4. ~(\E j \in Installs : ReadInstall(p, j))
      BY <2>2 DEF ReadInstall
    <3>5. ~AcquireLock(p) /\ ~LockInstall(p) /\ ~CloseSession(p) /\ ~ChooseNode(p)
      BY <2>2 DEF AcquireLock, LockInstall, CloseSession, ChooseNode
    <3>6. ~ChooseNumber(p) /\ ~ScanInstalls(p) /\ ~ScanNodes(p)
      BY <2>2 DEF ChooseNumber, ScanInstalls, ScanNodes
    <3> QED BY <3>1, <3>2, <3>3, <3>4, <3>5, <3>6 DEF Quiet
  <2>4. obj' = obj /\ pc'[p] \in {"saveCheck", "saveDonor", "rollback"}
    <3>1. CASE SaveNode(p)
      BY <2>2, <3>1 DEF SaveNode, Searches, Raise, Finish, Goto, TypeOK
    <3>2. CASE CheckNumber(p)
      BY <2>2, <3>2 DEF SaveNode, CheckNumber, ValueError, Raise, Finish, Goto, TypeOK
    <3> QED BY <2>3, <3>1, <3>2
  <2> QED BY <2>2, <2>4 DEF MarkKept
<1> QED BY <1>2, <1>3 DEF MarksAfter

LEMMA ClaimMarks ==
  ASSUME NEW p \in Proc, TypeOK, MarkInv, ClaimDonor(p)
  PROVE  MarksAfter(p) /\ InstallsSettled'
<1> PICK k : k = obj[p].nn
  OBVIOUS
<1>1. /\ UNCHANGED <<nodes, installs, nodesW, nodeLock, obj, inum>>
      /\ pc[p] \in {"claimDonor", "saveDonor"}
  BY DEF ClaimDonor, Claim, committed, latest, locks
<1>2. \A i \in Installs : \/ installLock'[i] = installLock[i]
                          \/ installLock[i] \in {NoProc, p} /\ installLock'[i] = p
  BY DEF ClaimDonor, Claim, TypeOK, locks
<1>3. \A i \in Installs : \/ installsW'[i] = installsW[i]
                          \/ i = k /\ installLock'[i] = p /\ pc'[p] \in {"save", "write"}
  BY DEF ClaimDonor, Claim, Retired, Goto, TypeOK, latest
<1>4. InstallsSettled'
  BY <1>1, <1>2, <1>3, ProcAssumption DEF MarkInv, InstallsSettled
<1>5. ASSUME NEW i \in Installs, Marked(i)', installLock'[i] = p
      PROVE  MarkKept(p, i)' /\ pc'[p] # "commit"
  <2>1. CASE installsW'[i] = installsW[i]
    <3>1. Marked(i) /\ installLock[i] = p
      BY <1>1, <1>2, <1>5, <2>1 DEF Marked, MarkInv, InstallsSettled
    <3>2. pc[p] = "saveDonor" /\ k = i
      BY <1>1, <3>1 DEF MarkInv, MarkKept
    <3>3. pc'[p] \in {"write", "rollback"}
      BY <3>2 DEF ClaimDonor, ValueError, Raise, Finish, Goto, TypeOK
    <3> QED BY <1>1, <3>2, <3>3 DEF MarkKept
  <2>2. CASE i = k /\ pc'[p] \in {"save", "write"}
    BY <1>1, <2>2 DEF MarkKept
  <2> QED BY <1>3, <2>1, <2>2
<1> QED BY <1>4, <1>5 DEF MarksAfter

LEMMA WriteMarks ==
  ASSUME NEW p \in Proc, TypeOK, MemoryInv, NodeInv, MarkInv, WriteNode(p)
  PROVE  MarksAfter(p) /\ InstallsSettled'
<1> PICK o : o = obj[p]
  OBVIOUS
<1>1. /\ pc[p] = "write" /\ o.id \in Node /\ pc'[p] \in {"commit", "rollback"}
      /\ UNCHANGED <<nodes, installs, installLock, obj, inum>>
      /\ IsForm(p) => inum[p] \in Installs /\ installLock[inum[p]] = p
  BY DEF WriteNode, MemoryInv, Memory, HoldsInstall, HasNode, Answer, Finish, DuplicateNumber, Goto, TypeOK, committed
<1>2. \A i \in Installs : \/ installsW'[i] = installsW[i]
                          \/ /\ installLock[i] = p
                             /\ installsW'[i].status \in {installs[i].status, "PENDING"}
  BY <1>1 DEF WriteNode, StoreRows, DuplicateNumber, Attached, TypeOK
<1>3. InstallsSettled'
  BY <1>1, <1>2, ProcAssumption DEF MarkInv, InstallsSettled
<1>4. ASSUME NEW i \in Installs, Marked(i)', installLock'[i] = p PROVE \E n \in Node : nodesW'[n].nn = i
  <2>1. Marked(i)
    BY <1>1, <1>2, <1>4 DEF Marked
  <2>2. o.nn = i /\ o.nn # Null
    BY <1>1, <1>4, <2>1, NumberAssumption DEF MarkInv, MarkKept
  <2>3. CASE StoreRows(p)
    <3>1. nodesW'[o.id].nn = i
      BY <1>1, <2>2, <2>3 DEF StoreRows, TypeOK
    <3> QED BY <1>1, <3>1
  <2>4. CASE IndexTaken(o) /\ UNCHANGED nodesW
    <3>1. PICK m \in Node \ {o.id} : nodes[m].nn = i
      BY <2>2, <2>4 DEF IndexTaken
    <3>2. nodeLock[m] = NoProc
      BY <2>2, <3>1 DEF WriteNode, IndexBusy
    <3>3. nodesW[m] = nodes[m]
      BY <3>2 DEF NodeInv, UnlockedIsCommitted
    <3> QED BY <2>4, <3>1, <3>3
  <2> QED BY <2>3, <2>4 DEF WriteNode
<1>5. ASSUME NEW i \in Installs PROVE MarkKept(p, i)'
  BY <1>1 DEF MarkKept
<1> QED BY <1>3, <1>4, <1>5 DEF MarksAfter

LEMMA EndMarks ==
  ASSUME NEW p \in Proc, TypeOK, MarkInv, Commit(p) \/ Rollback(p)
  PROVE  MarksAfter(p) /\ InstallsSettled'
<1>1. \A i \in Installs : installLock'[i] = IF installLock[i] = p THEN NoProc ELSE installLock[i]
  BY EndMemory, UnlockedType
<1>2. CASE Commit(p)
  <2>1. \A i \in Installs : /\ installs'[i] = IF installLock[i] = p THEN installsW[i] ELSE installs[i]
                            /\ installsW'[i] = installsW[i]
    BY <1>2 DEF Commit, Merge, TypeOK, latest
  <2> QED BY <1>1, <2>1, ProcAssumption DEF MarkInv, InstallsSettled, MarksAfter
<1>3. CASE Rollback(p)
  <2>1. \A i \in Installs : /\ installsW'[i] = IF installLock[i] = p THEN installs[i] ELSE installsW[i]
                            /\ installs'[i] = installs[i]
    BY <1>3 DEF Rollback, Merge, TypeOK, committed
  <2> QED BY <1>1, <2>1, ProcAssumption DEF MarkInv, InstallsSettled, MarksAfter
<1> QED BY <1>2, <1>3

LEMMA SaveInstallMarks ==
  ASSUME NEW p \in Proc, NEW s \in InstallStatus, TypeOK, MemoryInv, MarkInv, SaveInstall(p, s)
  PROVE  MarksAfter(p) /\ InstallsSettled'
<1>1. /\ pc[p] = "editInstall" /\ pc'[p] = "idle" /\ inum[p] \in Installs /\ UNCHANGED installLock
  BY DEF SaveInstall, Goto, MemoryInv, Memory, TypeOK, locks
<1>2. \A i \in Installs : \/ installsW'[i] = installsW[i] /\ installs'[i] = installs[i]
                          \/ installsW'[i] = installs'[i]
  BY <1>1 DEF SaveInstall, TypeOK
<1>3. InstallsSettled'
  BY <1>1, <1>2 DEF MarkInv, InstallsSettled
<1>4. ASSUME NEW i \in Installs, Marked(i)', installLock'[i] = p PROVE FALSE
  <2>1. Marked(i) /\ installLock[i] = p
    BY <1>1, <1>2, <1>4 DEF Marked
  <2> QED BY <1>1, <2>1 DEF MarkInv, MarkKept
<1> QED BY <1>3, <1>4 DEF MarksAfter

LEMMA NextMarks ==
  ASSUME TypeOK, MemoryInv, NodeInv, MarkInv, NEW p \in Proc, Request(p) \/ Waiting(p) \/ Working(p)
  PROVE  MarkInv' /\ MarksAfter(p) /\ OthersKept(p)
<1>1. MarksAfter(p) /\ InstallsSettled'
  BY StepKinds, QuietMarks, ClaimMarks, WriteMarks, EndMarks, SaveInstallMarks
<1>2. OthersKept(p) /\ RowsKept(p)
  BY StepAlone
<1>3. ASSUME NEW q \in Proc, NEW i \in Installs, Marked(i)', installLock'[i] = q PROVE MarkKept(q, i)'
  <2>1. CASE q = p
    BY <1>1, <1>3, <2>1 DEF MarksAfter
  <2>2. CASE q # p
    <3>1. Marked(i) /\ installLock[i] = q /\ MarkKept(q, i)
      BY <1>2, <1>3, <2>2 DEF RowsKept, Marked, MarkInv
    <3>2. pc'[q] = pc[q] /\ obj'[q] = obj[q]
      BY <1>2, <2>2 DEF OthersKept
    <3> QED BY <3>1, <3>2 DEF MarkKept
  <2> QED BY <2>1, <2>2
<1>4. \A q \in Proc, i \in Installs : MarkKept(q, i)'
  BY <1>3 DEF MarkKept
<1> QED BY <1>1, <1>2, <1>4 DEF MarkInv

(* No session ever goes to its commit with a mark on an install whose      *)
(* number no node has at that moment: for any number of forms, node saves  *)
(* and editors, whatever they type, and whichever error is answered.       *)
THEOREM NumbersAreNotBurned == Spec => NoBurnedNumber
<1> DEFINE Inv == TypeOK /\ MemoryInv /\ NodeInv /\ MarkInv
           Kept == \A p \in Proc, i \in Installs :
                     pc[p] # "commit" /\ pc'[p] = "commit" /\ installLock'[i] = p /\ Marked(i)'
                       => \E n \in Node : nodesW'[n].nn = i
<1>1. Init => Inv
  BY InitType, InitNodes, InitMarks
<1>2. Inv /\ [Next]_vars => Inv' /\ [Kept]_vars
  <2> SUFFICES ASSUME Inv, [Next]_vars PROVE Inv' /\ [Kept]_vars
    OBVIOUS
  <2>1. TypeOK' /\ MemoryInv' /\ NodeInv'
    BY NextType, NextNodes
  <2>2. CASE UNCHANGED vars
    <3>1. MarkInv'
      BY <2>2 DEF vars, committed, latest, locks, MarkInv, InstallsSettled, MarkKept, Marked
    <3> QED BY <2>1, <2>2, <3>1
  <2>3. ASSUME NEW p \in Proc, Request(p) \/ Waiting(p) \/ Working(p) PROVE MarkInv' /\ Kept
    <3>1. MarkInv' /\ MarksAfter(p) /\ OthersKept(p)
      BY <2>3, NextMarks
    <3> QED BY <3>1 DEF MarksAfter, OthersKept
  <2> QED BY <2>1, <2>2, <2>3 DEF Next
<1>3. Inv /\ [Next]_vars => Inv'
  BY <1>2
<1>4. Inv /\ [Next]_vars => [Kept]_vars
  BY <1>2
<1> HIDE DEF Inv
<1> QED BY <1>1, <1>3, <1>4, PTL DEF Spec, NoBurnedNumber

-----------------------------------------------------------------------------
(***************************************************************************)
(* A session that is served alone does what the registry says.  Until it   *)
(* commits it has the database as it was committed in view, so what it has *)
(* chosen so far is what the registry chooses; its commit publishes the    *)
(* node, the mark on the number's install, and for a form the install and  *)
(* the building, all in one step.                                          *)
(***************************************************************************)
Clean == nodesW = nodes /\ installsW = installs /\ primaryW = primary

(* The installs when node n takes number k, and what n needs for it. *)
Marks(n, k) ==
  [j \in Installs |->
     [installs[j] EXCEPT !.status = IF Registry!Retired(n, k, j) THEN "NN_REASSIGNED" ELSE @]]

Spare(n, k) == k \in Installs => installs[k].status # "ACTIVE" \/ installs[k].node = n

Unused(n, k) == \A m \in Node \ {n} : nodes[m].nn # k

Givable == {0} \cup (NNMin .. NNMax)

(* What the form stores for install i, and a save for node n. *)
FormRows(i, n, k) ==
  /\ Registry!Host(i, n) /\ Registry!GivenNumber(i, n, k) /\ Registry!MayCarry(n, k)
  /\ nodesW = [nodes EXCEPT ![n] =
       [nn |-> k, status |-> IF @.status \in {"absent", "INACTIVE"} THEN "PLANNED" ELSE @.status]]
  /\ primaryW = [primary EXCEPT ![BuildingOf[i]] = IF @ = Null THEN n ELSE @]
  /\ installsW = [j \in Installs |->
       IF j = i
       THEN [node |-> n, status |-> IF installs[i].status = "REQUEST_RECEIVED"
                                    THEN "PENDING" ELSE installs[i].status]
       ELSE [installs[j] EXCEPT !.status = IF Registry!Retired(n, k, j) THEN "NN_REASSIGNED" ELSE @]]

Asked(n, s, typed, k) ==
  IF Unset(typed) /\ s = "ACTIVE" THEN Registry!LowestFree(k) ELSE k = typed /\ nodes[n].nn \in {Null, k}

Typed(n) == Vanity \cup {nodes[n].nn}

SaveRows(n, s, typed, k) ==
  /\ Asked(n, s, typed, k)
  /\ k # Null => Registry!MayCarry(n, k)
  /\ nodesW = [nodes EXCEPT ![n] = [nn |-> k, status |-> s]]
  /\ primaryW = primary
  /\ installsW = Marks(n, k)

Promised ==
  \/ \E i \in Installs, n \in Node, k \in Givable : FormRows(i, n, k)
  \/ \E n \in Node, s \in NodeStatus, k \in {Null} \cup Givable : \E typed \in Typed(n) : SaveRows(n, s, typed, k)

(* What a form has decided on at each label. *)
FormChoice(p) ==
  IsForm(p) /\ pc[p] \in HasNode =>
    /\ Registry!Host(inum[p], obj[p].id)
    /\ obj[p].status = IF nodes[obj[p].id].status \in {"absent", "INACTIVE"} THEN "PLANNED"
                       ELSE nodes[obj[p].id].status
    /\ pc[p] \in {"number", "scanInstalls", "scanNodes"} => nodes[obj[p].id].nn = Null
    /\ pc[p] \in {"scanInstalls", "scanNodes"} => ~Registry!OwnNumber(inum[p])
    /\ pc[p] \in {"claimCheck", "claimDonor", "save", "saveCheck", "saveDonor", "write"} =>
         Registry!GivenNumber(inum[p], obj[p].id, obj[p].nn)

(* What a save of a node has. *)
SaveChoice(p) ==
  ~IsForm(p) =>
    /\ pc[p] = "edit" => obj[p].nn = nodes[obj[p].id].nn
    /\ pc[p] \in HasNode \cup {"lock"} /\ obj[p].adding => nodes[obj[p].id].nn = Null
    /\ pc[p] \in {"lock", "scanInstalls", "scanNodes", "claimCheck", "claimDonor"} =>
         obj[p].status = "ACTIVE" /\ \E typed \in Typed(obj[p].id) : Unset(typed)
    /\ pc[p] \in {"save", "saveCheck", "saveDonor"} => obj[p].nn \in Typed(obj[p].id)
    /\ pc[p] \in {"saveCheck", "saveDonor"} => nodes[obj[p].id].nn \in {Null, obj[p].nn} /\ ~Unset(obj[p].nn)
    /\ pc[p] = "write" => \E typed \in Typed(obj[p].id) : Asked(obj[p].id, obj[p].status, typed, obj[p].nn)

(* What is in the rows that the session has locked. *)
InHand(p) ==
  /\ pc[p] \notin {"save", "saveCheck", "saveDonor", "write", "commit", "rollback"} => Clean
  /\ pc[p] = "editInstall" => row[p] = installs[inum[p]]
  /\ pc[p] = "scanNodes" => seen[p] = Unavailable(installs)
  /\ pc[p] \in {"claimCheck", "claimDonor"} => Registry!LowestFree(obj[p].nn)
  /\ pc[p] \in {"save", "saveCheck", "saveDonor", "write"} => nodesW = nodes /\ primaryW = primary
  /\ pc[p] \in {"save", "saveCheck", "saveDonor"} =>
       \/ installsW = installs
       \/ installsW = Marks(obj[p].id, obj[p].nn) /\ Spare(obj[p].id, obj[p].nn)
  /\ pc[p] = "saveDonor" => InRange(obj[p].nn) /\ Unused(obj[p].id, obj[p].nn)
  /\ pc[p] = "write" =>
       /\ installsW = Marks(obj[p].id, obj[p].nn)
       /\ obj[p].nn \in {Null} \cup Givable /\ Spare(obj[p].id, obj[p].nn)
       /\ IsForm(p) => Unused(obj[p].id, obj[p].nn)
  /\ pc[p] = "commit" => Clean \/ Promised

RowsSettled ==
  /\ \A i \in Installs : installLock[i] = NoProc => installsW[i] = installs[i]
  /\ \A b \in Building : primaryLock[b] = NoProc => primaryW[b] = primary[b]

AloneInv(p) == FormChoice(p) /\ SaveChoice(p) /\ InHand(p) /\ RowsSettled

LEMMA InitAlone == ASSUME NEW p \in Proc, Init PROVE AloneInv(p) /\ Registry!Init
<1>1. pc[p] = "idle" /\ Clean /\ RowsSettled
  BY DEF Init, Clean, RowsSettled
<1>2. Registry!Init
  BY DEF Init, Registry!Init
<1> QED BY <1>1, <1>2 DEF AloneInv, FormChoice, SaveChoice, InHand, HasNode

(* While the committed rows stay, so does what the registry would choose. *)
LEMMA ChoicesKept ==
  ASSUME UNCHANGED committed
  PROVE  /\ nodes' = nodes /\ installs' = installs /\ primary' = primary
         /\ \A i, n : Registry!Host(i, n)' <=> Registry!Host(i, n)
         /\ \A i, n, k : Registry!GivenNumber(i, n, k)' <=> Registry!GivenNumber(i, n, k)
         /\ \A i : Registry!OwnNumber(i)' <=> Registry!OwnNumber(i)
         /\ \A k : Registry!LowestFree(k)' <=> Registry!LowestFree(k)
         /\ \A n, s, typed, k : Asked(n, s, typed, k)' <=> Asked(n, s, typed, k)
         /\ \A n : Typed(n)' = Typed(n)
         /\ \A n, k : Marks(n, k)' = Marks(n, k) /\ (Spare(n, k)' <=> Spare(n, k)) /\ (Unused(n, k)' <=> Unused(n, k))
<1>1. nodes' = nodes /\ installs' = installs /\ primary' = primary
  BY DEF committed
<1>2. \A i, n : Registry!Host(i, n)' <=> Registry!Host(i, n)
  BY <1>1 DEF Registry!Host
<1>3. \A i : Registry!OwnNumber(i)' <=> Registry!OwnNumber(i)
  BY <1>1 DEF Registry!OwnNumber, Registry!Used
<1>4. \A k : Registry!LowestFree(k)' <=> Registry!LowestFree(k)
  BY <1>1 DEF Registry!LowestFree, Registry!Free, Registry!Used, Registry!Unwanted
<1>5. \A i, n, k : Registry!GivenNumber(i, n, k)' <=> Registry!GivenNumber(i, n, k)
  BY <1>1, <1>3, <1>4 DEF Registry!GivenNumber
<1>6. \A n, s, typed, k : Asked(n, s, typed, k)' <=> Asked(n, s, typed, k)
  BY <1>1, <1>4 DEF Asked
<1>7. \A n, k : Marks(n, k)' = Marks(n, k) /\ (Spare(n, k)' <=> Spare(n, k)) /\ (Unused(n, k)' <=> Unused(n, k))
  BY <1>1 DEF Marks, Spare, Unused, Registry!Retired
<1>8. \A n : Typed(n)' = Typed(n)
  BY <1>1 DEF Typed
<1> QED BY <1>1, <1>2, <1>3, <1>4, <1>5, <1>6, <1>7, <1>8

(* The search and the install's own number are the registry's. *)
LEMMA SearchIsLowest ==
  ASSUME NEW p \in Proc, TypeOK, seen[p] = Unavailable(installs)
  PROVE  FreeNumbers(p) = Registry!Free
<1>1. Null \notin NNAssignMin .. NNMax
  BY NumberAssumption
<1> QED BY <1>1 DEF FreeNumbers, Unavailable, Registry!Free, Registry!Used, Registry!Unwanted

LEMMA OwnIsOwn ==
  ASSUME NEW i \in Installs
  PROVE  OwnNumberUsable(i) <=> Registry!OwnNumber(i)
<1>1. i # Null
  BY NumberAssumption
<1> QED BY <1>1 DEF OwnNumberUsable, Refused, Registry!OwnNumber, Registry!Used

LEMMA LowestIsSet ==
  ASSUME NEW k, Registry!LowestFree(k)
  PROVE  /\ k \in NNMin .. NNMax /\ k \in Nat /\ ~Unset(k)
         /\ k \in Installs => installs[k].status = "REQUEST_RECEIVED" /\ installs[k].node = Null
<1>1. k \in NNAssignMin .. NNMax
  BY DEF Registry!LowestFree, Registry!Free
<1> QED BY <1>1, NumberAssumption DEF Registry!LowestFree, Registry!Free, Registry!Unwanted, Unset

(* Nobody is marked for a number of no install, or of the node's own. *)
LEMMA NothingToMark ==
  ASSUME TypeOK, NEW n, NEW k, k \in Installs => installs[k].node = n
  PROVE  Marks(n, k) = installs
<1>1. \A j \in Installs : ~Registry!Retired(n, k, j)
  BY DEF Registry!Retired
<1>2. \A j \in Installs : Marks(n, k)[j] = installs[j]
  BY <1>1 DEF Marks, TypeOK, InstallRow
<1> QED BY <1>2 DEF Marks, TypeOK

LEMMA OneToMark ==
  ASSUME TypeOK, NEW n, NEW k \in Installs, installs[k].node # n, NEW is \in {installs, Marks(n, k)}
  PROVE  [is EXCEPT ![k].status = "NN_REASSIGNED"] = Marks(n, k)
<1> DEFINE new == [is EXCEPT ![k].status = "NN_REASSIGNED"]
<1>1. /\ Registry!Retired(n, k, k)
      /\ \A j \in Installs : j # k => ~Registry!Retired(n, k, j)
  BY DEF Registry!Retired
<1>2. /\ DOMAIN is = Installs
      /\ \A j \in Installs : is[j].node = installs[j].node
      /\ \A j \in Installs : j # k => is[j] = installs[j]
      /\ \A j \in Installs : is[j] \in InstallRow
  BY <1>1 DEF Marks, TypeOK, InstallRow, InstallStatus
<1>3. \A j \in Installs : new[j] = Marks(n, k)[j]
  <2> SUFFICES ASSUME NEW j \in Installs PROVE new[j] = Marks(n, k)[j]
    OBVIOUS
  <2>1. CASE j = k
    <3>1. new[j] = [is[j] EXCEPT !.status = "NN_REASSIGNED"]
      BY <1>2, <2>1
    <3>2. Marks(n, k)[j] = [installs[j] EXCEPT !.status = "NN_REASSIGNED"]
      BY <1>1, <2>1 DEF Marks
    <3>3. is[j] \in InstallRow /\ installs[j] \in InstallRow /\ is[j].node = installs[j].node
      BY <1>2 DEF TypeOK
    <3> QED BY <3>1, <3>2, <3>3 DEF InstallRow
  <2>2. CASE j # k
    <3>1. new[j] = installs[j]
      BY <1>2, <2>2
    <3>2. Marks(n, k)[j] = installs[j]
      BY <1>1, <2>2 DEF Marks, TypeOK, InstallRow
    <3> QED BY <3>1, <3>2
  <2> QED BY <2>1, <2>2
<1> QED BY <1>2, <1>3 DEF Marks

(* What a form decides in a step that changes no row. *)
LEMMA QuietForm ==
  ASSUME NEW p \in Proc, TypeOK, MemoryInv, ReferInv, FormChoice(p), InHand(p), Quiet(p)
  PROVE  FormChoice(p)'
<1>0. UNCHANGED committed /\ Memory(p) /\ RefersToRows(nodes, installs, primary)
  BY QuietSteps DEF MemoryInv, ReferInv
<1>1. CASE pc'[p] \notin HasNode
  BY <1>1 DEF FormChoice
<1>2. CASE inum'[p] = Null
  BY <1>2 DEF FormChoice, IsForm
<1>3. CASE ScanInstalls(p) \/ CheckNumber(p) \/ SaveNode(p)
  <2>1. obj' = obj /\ inum' = inum /\ pc[p] \in HasNode
    BY <1>3 DEF ScanInstalls, CheckNumber, SaveNode, HasNode
  <2>2. \/ pc[p] = "scanInstalls" /\ pc'[p] = "scanNodes"
        \/ pc[p] \in {"claimCheck", "save", "saveCheck"}
           /\ pc'[p] \in {"claimDonor", "saveCheck", "saveDonor", "write", "lock", "commit", "rollback"}
    BY <1>3 DEF ScanInstalls, CheckNumber, SaveNode, ValueError, Answer, Raise, Finish, Goto, TypeOK
  <2> QED BY <1>0, <2>1, <2>2, ChoicesKept DEF FormChoice, IsForm, HasNode
<1>4. CASE ChooseNode(p)
  <2>1. inum' = inum /\ IsForm(p) /\ inum[p] \in Installs
    BY <1>0, <1>4 DEF ChooseNode, Memory, HoldsInstall
  <2>2. ASSUME NEW n \in Node, obj' = [obj EXCEPT ![p] = Revived(ObjectOf(n))], Registry!Host(inum[p], n),
               nodes[n].status # "absent", Goto(p, IF ObjectOf(n).nn = Null THEN "number" ELSE "save")
        PROVE  FormChoice(p)'
    <3>1. /\ obj'[p].id = n /\ obj'[p].nn = nodes[n].nn
          /\ obj'[p].status = IF nodes[n].status \in {"absent", "INACTIVE"} THEN "PLANNED" ELSE nodes[n].status
      BY <2>2 DEF Revived, ObjectOf, TypeOK
    <3>2. pc'[p] = IF nodes[n].nn = Null THEN "number" ELSE "save"
      BY <2>2 DEF Goto, ObjectOf, TypeOK
    <3>3. nodes[n].nn # Null => Registry!GivenNumber(inum[p], n, nodes[n].nn)
      BY DEF Registry!GivenNumber
    <3> QED BY <1>0, <2>1, <2>2, <3>1, <3>2, <3>3, ChoicesKept DEF FormChoice
  <2>3. ASSUME NEW n \in Fresh, Goto(p, "number"), Registry!Host(inum[p], n),
               obj' = [obj EXCEPT ![p] = [id |-> n, adding |-> TRUE, nn |-> Null, status |-> "PLANNED"]]
        PROVE  FormChoice(p)'
    <3>1. obj'[p].id = n /\ obj'[p].nn = Null /\ obj'[p].status = "PLANNED" /\ pc'[p] = "number"
      BY <2>3 DEF Goto, TypeOK
    <3>2. nodes[n].status = "absent" /\ nodes[n].nn = Null
      BY <1>0 DEF Fresh, RefersToRows
    <3> QED BY <1>0, <2>1, <2>3, <3>1, <3>2, ChoicesKept DEF FormChoice
  <2>4. CASE pc'[p] = "commit"
    BY <2>4 DEF FormChoice, HasNode
  <2>5. Reusable(inum[p]) # Null =>
           Reusable(inum[p]) \in Node /\ nodes[Reusable(inum[p])].status # "absent"
    BY <1>0, <2>1, BuildingAssumption DEF Reusable, RefersToRows, TypeOK, InstallRow
  <2>6. Reusable(inum[p]) # Null /\ (installs[inum[p]].node # Null \/ ~Refused(inum[p])) =>
           Registry!Host(inum[p], Reusable(inum[p]))
    BY DEF Reusable, Refused, Registry!Host
  <2>7. \A n \in Fresh : ~Refused(inum[p]) /\ Reusable(inum[p]) = Null => Registry!Host(inum[p], n)
    BY DEF Reusable, Refused, Registry!Host, Fresh
  <2> QED BY <1>4, <2>2, <2>3, <2>4, <2>5, <2>6, <2>7 DEF ChooseNode, Answer, Finish, Goto, TypeOK
<1>5. CASE ChooseNumber(p)
  <2>1. /\ inum' = inum /\ IsForm(p) /\ inum[p] \in Installs /\ pc[p] = "number"
        /\ nodes[obj[p].id].nn = Null /\ Registry!Host(inum[p], obj[p].id)
    BY <1>0, <1>5 DEF ChooseNumber, Memory, HoldsInstall, HasNode, FormChoice
  <2>2. obj'[p].id = obj[p].id /\ obj'[p].status = obj[p].status
    BY <1>5 DEF ChooseNumber, TypeOK, NodeObject
  <2>3. \/ pc'[p] = "save" /\ Registry!OwnNumber(inum[p]) /\ obj'[p].nn = inum[p]
        \/ pc'[p] = "scanInstalls" /\ ~Registry!OwnNumber(inum[p])
    BY <1>5, <2>1, OwnIsOwn DEF ChooseNumber, Goto, TypeOK, NodeObject
  <2>4. Registry!OwnNumber(inum[p]) => Registry!GivenNumber(inum[p], obj[p].id, inum[p])
    BY <2>1 DEF Registry!GivenNumber
  <2> QED BY <1>0, <2>1, <2>2, <2>3, <2>4, ChoicesKept DEF FormChoice, HasNode
<1>6. CASE ScanNodes(p)
  <2>1. inum' = inum /\ pc[p] = "scanNodes"
    BY <1>6 DEF ScanNodes
  <2>2. FreeNumbers(p) = Registry!Free
    BY <2>1, SearchIsLowest DEF InHand
  <2>3. obj'[p].id = obj[p].id /\ obj'[p].status = obj[p].status
    BY <1>6 DEF ScanNodes, TypeOK, NodeObject
  <2>4. \/ pc'[p] = "claimCheck" /\ Registry!LowestFree(obj'[p].nn)
        \/ pc'[p] = "rollback"
    <3>1. CASE FreeNumbers(p) # {}
      <4>1. PICK k \in FreeNumbers(p) : (\A j \in FreeNumbers(p) : k =< j) /\ obj' = [obj EXCEPT ![p].nn = k]
        BY <1>6, <3>1 DEF ScanNodes
      <4>2. obj'[p].nn = k /\ pc'[p] = "claimCheck"
        BY <1>6, <3>1, <4>1 DEF ScanNodes, Goto, TypeOK, NodeObject
      <4> QED BY <2>2, <4>1, <4>2 DEF Registry!LowestFree
    <3>2. CASE FreeNumbers(p) = {}
      BY <1>6, <3>2 DEF ScanNodes, Raise, Finish, Goto, TypeOK
    <3> QED BY <3>1, <3>2
  <2>5. IsForm(p) => Registry!Host(inum[p], obj[p].id) /\ nodes[obj[p].id].nn = Null /\ ~Registry!OwnNumber(inum[p])
    BY <2>1 DEF FormChoice, HasNode
  <2>6. \A k : IsForm(p) /\ Registry!LowestFree(k) => Registry!GivenNumber(inum[p], obj[p].id, k)
    BY <2>5 DEF Registry!GivenNumber
  <2>7. IsForm(p) => obj[p].status = IF nodes[obj[p].id].status \in {"absent", "INACTIVE"} THEN "PLANNED"
                                     ELSE nodes[obj[p].id].status
    BY <2>1 DEF FormChoice, HasNode
  <2> QED BY <1>0, <2>1, <2>3, <2>4, <2>5, <2>6, <2>7, ChoicesKept DEF FormChoice, HasNode, IsForm
<1>7. CASE (\E i \in Installs \cup {0} : PostForm(p, i)) \/ (\E i \in Installs : ReadInstall(p, i)) \/ LockInstall(p)
           \/ CloseSession(p)
  <2>1. pc'[p] \in {"lock", "editInstall", "node", "commit", "idle"}
    BY <1>7 DEF PostForm, ReadInstall, LockInstall, CloseSession, Answer, Finish, Goto, TypeOK
  <2> QED BY <1>1, <2>1 DEF HasNode
<1>8. CASE (\E n \in Node : ReadNode(p, n) \/ NewNode(p, n))
           \/ (\E s \in NodeStatus, k \in Vanity \cup {obj[p].nn} : EditNode(p, s, k))
  <2>1. inum' = inum /\ pc[p] \in {"idle", "edit"}
    BY <1>8 DEF ReadNode, NewNode, EditNode
  <2> QED BY <1>0, <1>2, <2>1 DEF Memory
<1>9. CASE AcquireLock(p)
  <2>1. inum' = inum /\ pc'[p] = IF IsForm(p) THEN "install" ELSE "scanInstalls"
    BY <1>9 DEF AcquireLock, Goto, TypeOK
  <2> QED BY <1>1, <1>2, <2>1 DEF IsForm, HasNode
<1> QED BY <1>3, <1>4, <1>5, <1>6, <1>7, <1>8, <1>9 DEF Quiet

(* And what a save of a node has. *)
LEMMA QuietSave ==
  ASSUME NEW p \in Proc, TypeOK, MemoryInv, ReferInv, SaveChoice(p), Quiet(p)
  PROVE  SaveChoice(p)'
<1>0. UNCHANGED committed /\ Memory(p) /\ RefersToRows(nodes, installs, primary)
  BY QuietSteps DEF MemoryInv, ReferInv
<1>1. CASE inum'[p] # Null
  BY <1>1 DEF SaveChoice, IsForm
<1>2. CASE pc'[p] \notin HasNode \cup {"lock"}
  BY <1>2 DEF SaveChoice, HasNode
<1>3. ASSUME NEW n \in Node, ReadNode(p, n) PROVE SaveChoice(p)'
  <2>1. obj'[p] = ObjectOf(n) /\ pc'[p] = "edit"
    BY <1>3 DEF ReadNode, Goto, TypeOK
  <2> QED BY <1>0, <2>1 DEF SaveChoice, ObjectOf, committed
<1>4. ASSUME NEW n \in Node, NewNode(p, n) PROVE SaveChoice(p)'
  <2>1. obj'[p].id = n /\ obj'[p].nn = Null /\ pc'[p] = "edit"
    BY <1>4 DEF NewNode, Goto, TypeOK
  <2>2. nodes[n].nn = Null
    BY <1>0, <1>4 DEF NewNode, Fresh, RefersToRows
  <2> QED BY <1>0, <2>1, <2>2 DEF SaveChoice, committed
<1>5. ASSUME NEW s \in NodeStatus, NEW k \in Vanity \cup {obj[p].nn}, EditNode(p, s, k) PROVE SaveChoice(p)'
  <2>1. pc[p] = "edit" /\ pc'[p] = "save" /\ ~IsForm(p)
    BY <1>0, <1>5 DEF EditNode, Goto, TypeOK, Memory, IsForm
  <2>2. obj'[p].id = obj[p].id /\ obj'[p].adding = obj[p].adding /\ obj'[p].nn = k
    BY <1>5 DEF EditNode, TypeOK, NodeObject
  <2>3. k \in Typed(obj[p].id) /\ (obj[p].adding => nodes[obj[p].id].nn = Null)
    BY <2>1 DEF SaveChoice, Typed, HasNode
  <2> QED BY <1>0, <2>1, <2>2, <2>3, ChoicesKept DEF SaveChoice
<1>6. CASE AcquireLock(p)
  <2>1. obj' = obj /\ inum' = inum /\ pc[p] = "lock" /\ pc'[p] = IF IsForm(p) THEN "install" ELSE "scanInstalls"
    BY <1>6 DEF AcquireLock, Goto, TypeOK
  <2> QED BY <1>0, <2>1, ChoicesKept DEF SaveChoice, IsForm
<1>7. CASE SaveNode(p)
  <2> DEFINE o == obj[p]
  <2>1. obj' = obj /\ inum' = inum /\ pc[p] = "save"
    BY <1>7 DEF SaveNode
  <2> SUFFICES ASSUME ~IsForm(p), pc'[p] # "rollback" PROVE SaveChoice(p)'
    BY <1>2, <2>1 DEF SaveChoice, IsForm, HasNode
  <2>2. o.nn \in Typed(o.id) /\ (o.adding => nodes[o.id].nn = Null)
    BY <2>1 DEF SaveChoice, HasNode
  <2>3. CASE Searches(o)
    <3>1. pc'[p] = "lock" /\ o.status = "ACTIVE" /\ Unset(o.nn)
      BY <1>7, <2>3 DEF SaveNode, Searches, Goto, TypeOK
    <3> QED BY <1>0, <2>1, <2>2, <3>1, ChoicesKept DEF SaveChoice, HasNode
  <2>4. CASE ~Searches(o)
    <3>1. ~Renumbered(o)
      BY <1>7, <2>4 DEF SaveNode, Raise, Finish, Goto, TypeOK
    <3>2. pc'[p] = IF Unset(o.nn) THEN "write" ELSE "saveCheck"
      BY <1>7, <2>4, <3>1 DEF SaveNode, Goto, TypeOK
    <3>3. nodes[o.id].nn \in {Null, o.nn}
      BY <2>2, <3>1 DEF Renumbered
    <3>4. Asked(o.id, o.status, o.nn, o.nn)
      BY <2>4, <3>3 DEF Asked, Searches
    <3> QED BY <1>0, <2>1, <2>2, <3>2, <3>3, <3>4, ChoicesKept DEF SaveChoice
  <2> QED BY <2>3, <2>4
<1>8. CASE ScanInstalls(p) \/ ScanNodes(p) \/ CheckNumber(p)
  <2>1. /\ inum' = inum /\ obj'[p].id = obj[p].id /\ obj'[p].adding = obj[p].adding
        /\ obj'[p].status = obj[p].status /\ pc[p] \in HasNode
    BY <1>8 DEF ScanInstalls, ScanNodes, CheckNumber, TypeOK, NodeObject, HasNode
  <2>2. \/ pc[p] \in {"scanInstalls", "scanNodes", "claimCheck"} /\ pc'[p] \in {"scanNodes", "claimCheck", "claimDonor"}
        \/ pc[p] = "saveCheck" /\ pc'[p] = "saveDonor" /\ obj' = obj
        \/ pc'[p] \in {"commit", "rollback"}
    BY <1>8 DEF ScanInstalls, ScanNodes, CheckNumber, ValueError, Answer, Raise, Finish, Goto, TypeOK
  <2> QED BY <1>0, <2>1, <2>2, ChoicesKept DEF SaveChoice, IsForm, HasNode
<1>9. CASE (\E i \in Installs \cup {0} : PostForm(p, i)) \/ (\E i \in Installs : ReadInstall(p, i))
  BY <1>1, <1>9, NumberAssumption DEF PostForm, ReadInstall, TypeOK
<1>10. CASE LockInstall(p) \/ CloseSession(p)
  <2>1. pc'[p] \in {"node", "commit", "idle"}
    BY <1>10 DEF LockInstall, CloseSession, Answer, Finish, Goto, TypeOK
  <2> QED BY <1>2, <2>1 DEF HasNode
<1>11. CASE ChooseNode(p) \/ ChooseNumber(p)
  BY <1>0, <1>1, <1>11 DEF ChooseNode, ChooseNumber, Memory, IsForm
<1> QED BY <1>3, <1>4, <1>5, <1>6, <1>7, <1>8, <1>9, <1>10, <1>11 DEF Quiet

(* The rows it has locked are still as committed, or marked. *)
LEMMA QuietHand ==
  ASSUME NEW p \in Proc, TypeOK, MemoryInv, NodeInv, ReferInv, SearchInv, AloneInv(p), Quiet(p)
  PROVE  InHand(p)' /\ RowsSettled'
<1>0. /\ UNCHANGED <<committed, latest>> /\ LocksTaken(p) /\ Memory(p)
      /\ pc[p] \notin {"claimDonor", "saveDonor", "write", "commit", "rollback"}
      /\ InHand(p) /\ RowsSettled
  BY QuietSteps DEF MemoryInv, AloneInv
<1>1. RowsSettled'
  BY <1>0, ProcAssumption DEF RowsSettled, LocksTaken, committed, latest
<1> SUFFICES InHand(p)'
  BY <1>1
<1>2. Clean' <=> Clean
  BY <1>0 DEF Clean, committed, latest
<1>3. UNCHANGED <<nodesW, installsW, primaryW>>
  BY <1>0 DEF latest
<1>4. pc[p] \notin {"save", "saveCheck"} => Clean
  BY <1>0 DEF InHand
<1>5. ASSUME Clean, pc'[p] \notin {"editInstall", "scanNodes", "claimCheck", "claimDonor", "saveDonor", "write"}
      PROVE  InHand(p)'
  BY <1>0, <1>2, <1>5 DEF InHand, Clean
<1>6. ASSUME NEW i \in Installs, ReadInstall(p, i) PROVE InHand(p)'
  <2>1. pc[p] = "idle" /\ pc'[p] = "editInstall" /\ inum'[p] = i /\ row'[p] = installs[i]
    BY <1>6 DEF ReadInstall, Goto, TypeOK
  <2> QED BY <1>0, <1>2, <1>4, <2>1 DEF InHand, committed
<1>7. CASE ScanInstalls(p)
  <2>1. pc[p] = "scanInstalls" /\ pc'[p] = "scanNodes" /\ seen'[p] = Unavailable(installs)
    BY <1>7 DEF ScanInstalls, Goto, TypeOK
  <2>2. Unavailable(installs)' = Unavailable(installs)
    BY <1>0 DEF Unavailable, committed
  <2> QED BY <1>2, <1>4, <2>1, <2>2 DEF InHand
<1>8. CASE ScanNodes(p)
  <2>1. pc[p] = "scanNodes" /\ FreeNumbers(p) = Registry!Free
    BY <1>0, <1>8, SearchIsLowest DEF ScanNodes, InHand
  <2>2. CASE FreeNumbers(p) # {}
    <3>1. PICK k \in FreeNumbers(p) : (\A j \in FreeNumbers(p) : k =< j) /\ obj' = [obj EXCEPT ![p].nn = k]
      BY <1>8, <2>2 DEF ScanNodes
    <3>2. obj'[p].nn = k /\ pc'[p] = "claimCheck"
      BY <1>8, <2>2, <3>1 DEF ScanNodes, Goto, TypeOK, NodeObject
    <3>3. Registry!LowestFree(k)
      BY <2>1, <3>1 DEF Registry!LowestFree
    <3> QED BY <1>0, <1>2, <1>4, <2>1, <3>2, <3>3, ChoicesKept DEF InHand
  <2>3. CASE FreeNumbers(p) = {}
    <3>1. pc'[p] = "rollback"
      BY <1>8, <2>3 DEF ScanNodes, Raise, Finish, Goto, TypeOK
    <3> QED BY <3>1 DEF InHand
  <2> QED BY <2>2, <2>3
<1>9. CASE CheckNumber(p)
  <2> DEFINE n == obj[p].id
             k == obj[p].nn
  <2>1. obj' = obj /\ inum' = inum /\ pc[p] \in {"claimCheck", "saveCheck"}
    BY <1>9 DEF CheckNumber
  <2>2. CASE pc[p] = "claimCheck"
    <3>1. pc'[p] \in {"claimDonor", "commit", "rollback"}
      BY <1>9, <2>2 DEF CheckNumber, ValueError, Answer, Raise, Finish, Goto, TypeOK
    <3>2. Clean /\ Registry!LowestFree(k)
      BY <1>0, <2>2 DEF InHand
    <3> QED BY <1>0, <1>2, <2>1, <3>1, <3>2, ChoicesKept DEF InHand
  <2>3. CASE pc[p] = "saveCheck"
    <3>1. \/ pc'[p] = "saveDonor" /\ InRange(k) /\ ~UsedByAnother(p)
          \/ pc'[p] = "rollback"
      BY <1>9, <2>3 DEF CheckNumber, ValueError, Raise, Finish, Goto, TypeOK
    <3>2. ~UsedByAnother(p) => Unused(n, k)
      BY <2>3 DEF UsedByAnother, Unused
    <3>3. /\ nodesW = nodes /\ primaryW = primary
          /\ installsW = installs \/ (installsW = Marks(n, k) /\ Spare(n, k))
      BY <1>0, <2>3 DEF InHand
    <3> QED BY <1>0, <1>3, <2>1, <3>1, <3>2, <3>3, ChoicesKept DEF InHand, InRange
  <2> QED BY <2>1, <2>2, <2>3
<1>10. CASE SaveNode(p)
  <2> DEFINE n == obj[p].id
             k == obj[p].nn
  <2>1. /\ obj' = obj /\ inum' = inum /\ pc[p] = "save" /\ n \in Node /\ k \in Number
        /\ pc'[p] \in {"lock", "rollback", "write", "saveCheck"}
        /\ pc'[p] = "lock" => Searches(obj[p])
        /\ pc'[p] \in {"lock", "write"} => Unset(k)
    BY <1>0, <1>10 DEF SaveNode, Searches, Raise, Finish, Goto, TypeOK, NodeObject, Memory, HasNode
  <2>2. /\ nodesW = nodes /\ primaryW = primary
        /\ installsW = installs \/ (installsW = Marks(n, k) /\ Spare(n, k))
    BY <1>0, <2>1 DEF InHand
  <2>3. Unset(k) => k \notin Installs /\ k \in {Null} \cup Givable
    BY NumberAssumption DEF Unset, Givable
  <2>4. Unset(k) => Marks(n, k) = installs /\ Spare(n, k)
    BY <2>3, NothingToMark DEF Spare
  <2>5. CASE pc'[p] = "saveCheck"
    BY <1>0, <1>3, <2>1, <2>2, <2>5, ChoicesKept DEF InHand
  <2>6. CASE pc'[p] = "lock"
    BY <1>5, <2>1, <2>2, <2>4, <2>6 DEF Clean
  <2>7. CASE pc'[p] = "rollback"
    BY <2>7 DEF InHand
  <2>8. CASE pc'[p] = "write"
    <3>1. IsForm(p) => Unused(n, k)
      <4> SUFFICES ASSUME IsForm(p), NEW m \in Node \ {n} PROVE nodes[m].nn # k
        BY DEF Unused
      <4>1. Registry!GivenNumber(inum[p], n, k) /\ inum[p] \in Installs
        BY <1>0, <2>1 DEF AloneInv, FormChoice, Memory, HoldsInstall, HasNode
      <4>2. ~Registry!LowestFree(k) /\ k # inum[p]
        BY <2>1, <2>3, <2>8, <4>1, LowestIsSet
      <4>3. nodes[n].nn # Null /\ k = nodes[n].nn
        BY <4>1, <4>2 DEF Registry!GivenNumber
      <4> QED BY <2>1, <4>3 DEF NodeInv, VersionsApart, Versions
    <3> QED BY <1>0, <1>3, <2>1, <2>2, <2>3, <2>4, <2>8, <3>1, ChoicesKept DEF InHand, IsForm, Givable
  <2> QED BY <2>1, <2>5, <2>6, <2>7, <2>8
<1>11. CASE (\E i \in Installs \cup {0} : PostForm(p, i)) \/ (\E n \in Node : ReadNode(p, n) \/ NewNode(p, n))
            \/ (\E s \in NodeStatus, k \in Vanity \cup {obj[p].nn} : EditNode(p, s, k)) \/ AcquireLock(p)
  <2>1. /\ pc[p] \in {"idle", "edit", "lock"}
        /\ pc'[p] \in {"lock", "edit", "save", "install", "scanInstalls"}
    BY <1>11 DEF PostForm, ReadNode, NewNode, EditNode, AcquireLock, Goto, TypeOK
  <2> QED BY <1>4, <1>5, <2>1
<1>12. CASE LockInstall(p) \/ CloseSession(p) \/ ChooseNumber(p)
  <2>1. /\ pc[p] \in {"install", "close", "number"}
        /\ pc'[p] \in {"node", "commit", "idle", "save", "scanInstalls"}
    BY <1>12 DEF LockInstall, CloseSession, ChooseNumber, Answer, Finish, Goto, TypeOK
  <2> QED BY <1>4, <1>5, <2>1
<1>13. CASE ChooseNode(p)
  <2>1. pc[p] = "node" /\ pc'[p] \in {"commit", "number", "save"}
    BY <1>13 DEF ChooseNode, Answer, Finish, Goto, TypeOK
  <2> QED BY <1>4, <1>5, <2>1
<1> QED BY <1>6, <1>7, <1>8, <1>9, <1>10, <1>11, <1>12, <1>13 DEF Quiet

LEMMA QuietAlone ==
  ASSUME NEW p \in Proc, TypeOK, MemoryInv, NodeInv, ReferInv, SearchInv, AloneInv(p), Quiet(p)
  PROVE  AloneInv(p)' /\ UNCHANGED committed
<1>1. FormChoice(p) /\ SaveChoice(p) /\ InHand(p)
  BY DEF AloneInv
<1>2. FormChoice(p)' /\ SaveChoice(p)'
  BY <1>1, QuietForm, QuietSave
<1>3. InHand(p)' /\ RowsSettled' /\ UNCHANGED committed
  BY QuietHand, QuietSteps
<1> QED BY <1>2, <1>3 DEF AloneInv

LEMMA ClaimAlone ==
  ASSUME NEW p \in Proc, TypeOK, MemoryInv, AloneInv(p), ClaimDonor(p)
  PROVE  AloneInv(p)' /\ UNCHANGED committed
<1> DEFINE n == obj[p].id
           k == obj[p].nn
<1>1. /\ UNCHANGED committed /\ obj' = obj /\ inum' = inum /\ UNCHANGED <<nodesW, primaryW>>
      /\ pc[p] \in {"claimDonor", "saveDonor"} /\ n \in Node
      /\ pc'[p] \in {"save", "write", "commit", "rollback"}
      /\ pc'[p] = "save" => IsForm(p) /\ pc[p] = "claimDonor"
      /\ pc'[p] = "write" => ~(IsForm(p) /\ pc[p] = "claimDonor")
      /\ pc'[p] = "commit" => IsForm(p) /\ pc[p] = "claimDonor"
  BY DEF ClaimDonor, Claim, ValueError, Answer, Raise, Finish, Goto, TypeOK, latest, MemoryInv, Memory, HasNode
<1>2. FormChoice(p) /\ SaveChoice(p) /\ InHand(p) /\ RowsSettled
  BY DEF AloneInv
<1>3. FormChoice(p)'
  BY <1>1, <1>2, ChoicesKept DEF FormChoice, IsForm, HasNode
<1>4. /\ pc[p] = "claimDonor" => Registry!LowestFree(k) /\ installsW = installs
      /\ pc[p] = "saveDonor" => InRange(k) /\ Unused(n, k)
      /\ installsW \in {installs, Marks(n, k)}
      /\ nodesW = nodes /\ primaryW = primary
      /\ installsW # installs => Spare(n, k)
  BY <1>1, <1>2 DEF InHand, Clean
<1>5. SaveChoice(p)'
  <2> SUFFICES ASSUME ~IsForm(p), pc'[p] = "write"
               PROVE  \E typed \in Typed(n) : Asked(n, obj[p].status, typed, k)
    BY <1>1, <1>2, ChoicesKept DEF SaveChoice, IsForm, HasNode
  <2>1. CASE pc[p] = "claimDonor"
    BY <1>2, <1>4, <2>1 DEF SaveChoice, Asked
  <2>2. CASE pc[p] = "saveDonor"
    <3>1. Asked(n, obj[p].status, k, k) /\ k \in Typed(n)
      BY <1>2, <2>2 DEF SaveChoice, Asked
    <3> QED BY <3>1
  <2> QED BY <1>1, <2>1, <2>2
<1>6. pc'[p] # "rollback" =>
        /\ pc'[p] # "commit" => installsW' = Marks(n, k) /\ Spare(n, k)
        /\ pc'[p] = "commit" => installsW' = installsW
  <2>1. CASE k \notin Installs
    <3>1. Marks(n, k) = installs /\ Spare(n, k)
      BY <2>1, NothingToMark DEF Spare
    <3>2. installsW' = installsW
      BY <2>1 DEF ClaimDonor, latest
    <3>3. pc'[p] # "commit"
      BY <2>1 DEF ClaimDonor, Goto, TypeOK
    <3> QED BY <1>4, <3>1, <3>2, <3>3
  <2>2. CASE k \in Installs /\ AttachedAlready(p, k)
    <3>1. installs[k].node = n
      BY <1>4, <2>2 DEF AttachedAlready, Marks, TypeOK, InstallRow
    <3>2. Marks(n, k) = installs /\ Spare(n, k)
      BY <3>1, NothingToMark DEF Spare
    <3>3. installsW' = installsW /\ pc'[p] # "commit"
      BY <2>2 DEF ClaimDonor, Goto, TypeOK
    <3> QED BY <1>4, <3>2, <3>3
  <2>3. CASE k \in Installs /\ ~AttachedAlready(p, k) /\ Occupied(k)
    <3>1. installsW' = installsW /\ pc'[p] \in {"commit", "rollback"}
      BY <2>3 DEF ClaimDonor, ValueError, Answer, Raise, Finish, Goto, TypeOK
    <3> QED BY <3>1
  <2>4. CASE k \in Installs /\ ~AttachedAlready(p, k) /\ ~Occupied(k)
    <3>1. installsW' = [installsW EXCEPT ![k].status = "NN_REASSIGNED"] /\ pc'[p] # "commit"
      BY <2>4 DEF ClaimDonor, Retired, Goto, TypeOK
    <3>2. installs[k].node # n
      <4>1. CASE pc[p] = "claimDonor"
        BY <1>1, <1>4, <2>4, <4>1, LowestIsSet, NumberAssumption
      <4>2. CASE pc[p] = "saveDonor"
        <5>1. installsW[k].node # n
          BY <2>4, <4>2 DEF AttachedAlready
        <5>2. installsW[k].node = installs[k].node
          BY <1>4, <2>4 DEF Marks, TypeOK, InstallRow
        <5> QED BY <5>1, <5>2
      <4> QED BY <1>1, <4>1, <4>2
    <3>3. installsW' = Marks(n, k)
      BY <1>4, <2>4, <3>1, <3>2, OneToMark
    <3>4. Spare(n, k)
      BY <1>4, <2>4 DEF Occupied, Spare
    <3> QED BY <3>1, <3>3, <3>4
  <2> QED BY <2>1, <2>2, <2>3, <2>4
<1>7. k \in Givable
  BY <1>1, <1>4, LowestIsSet DEF InRange, Givable
<1>8. RowsSettled'
  <2>1. \A i \in Installs : installLock'[i] = NoProc => installLock[i] = NoProc /\ installsW'[i] = installsW[i]
    BY ProcAssumption DEF ClaimDonor, Claim, Retired, TypeOK, latest, locks
  <2>2. primaryLock' = primaryLock
    BY DEF ClaimDonor, Claim, locks
  <2> QED BY <1>1, <1>2, <2>1, <2>2 DEF RowsSettled, committed
<1>9. InHand(p)'
  <2>1. CASE pc'[p] = "rollback"
    BY <2>1 DEF InHand
  <2>2. CASE pc'[p] = "commit"
    BY <1>1, <1>4, <1>6, <2>2 DEF InHand, Clean, committed
  <2>3. CASE pc'[p] = "save"
    BY <1>1, <1>4, <1>6, <2>3, ChoicesKept DEF InHand
  <2>4. CASE pc'[p] = "write"
    <3>1. IsForm(p) => Unused(n, k)
      BY <1>1, <1>4, <2>4
    <3> QED BY <1>1, <1>4, <1>6, <1>7, <2>4, <3>1, ChoicesKept DEF InHand, IsForm, Givable
  <2> QED BY <1>1, <2>1, <2>2, <2>3, <2>4
<1> QED BY <1>1, <1>3, <1>5, <1>8, <1>9 DEF AloneInv

LEMMA WriteAlone ==
  ASSUME NEW p \in Proc, TypeOK, MemoryInv, ReferInv, AloneInv(p), WriteNode(p)
  PROVE  AloneInv(p)' /\ UNCHANGED committed
<1>0. obj[p].id \in Node
  BY DEF WriteNode, MemoryInv, Memory, HasNode
<1> PICK n \in Node : n = obj[p].id
  BY <1>0
<1> PICK k, i, s : k = obj[p].nn /\ i = inum[p] /\ s = obj[p].status
  OBVIOUS
<1>1. /\ UNCHANGED <<committed, installLock, primaryLock>> /\ pc[p] = "write" /\ pc'[p] \in {"commit", "rollback"}
      /\ inum' = inum /\ s \in NodeStatus
      /\ IsForm(p) => /\ i \in Installs /\ BuildingOf[i] \in Building
                      /\ installLock[i] = p /\ primaryLock[BuildingOf[i]] = p
  BY BuildingAssumption
  DEF WriteNode, DuplicateNumber, Answer, Finish, Goto, MemoryInv, Memory, HoldsInstall, HasNode, ReferInv, KnowsRow,
      TypeOK, NodeObject
<1>2. /\ nodesW = nodes /\ primaryW = primary /\ installsW = Marks(n, k)
      /\ k \in {Null} \cup Givable /\ Spare(n, k)
      /\ IsForm(p) => Unused(n, k)
  BY <1>1 DEF AloneInv, InHand
<1>3. FormChoice(p)' /\ SaveChoice(p)'
  BY <1>1 DEF FormChoice, SaveChoice, HasNode
<1>4. RowsSettled'
  <2>1. /\ \A j \in Installs : installsW'[j] = installsW[j] \/ installLock[j] = p
        /\ \A b \in Building : primaryW'[b] = primaryW[b] \/ primaryLock[b] = p
    BY <1>1 DEF WriteNode, StoreRows, DuplicateNumber, TypeOK
  <2> QED BY <1>1, <2>1, ProcAssumption DEF AloneInv, RowsSettled, committed
<1>5. ASSUME pc'[p] = "commit" PROVE Promised'
  <2>1. ~IndexTaken(obj[p]) /\ StoreRows(p)
    <3>1. IndexTaken(obj[p]) => ~Unused(n, k)
      BY DEF IndexTaken, Unused
    <3> QED BY <1>2, <1>5, <3>1 DEF WriteNode, DuplicateNumber, Goto, TypeOK
  <2>2. k # Null => Registry!MayCarry(n, k)
    BY <1>2, <2>1 DEF IndexTaken, Registry!MayCarry, Givable, Spare
  <2>3. k # Null => Registry!MayCarry(n, k)'
    BY <1>1, <2>2 DEF Registry!MayCarry, committed
  <2>4. nodesW' = [nodes EXCEPT ![n] = [nn |-> k, status |-> s]]
    BY <1>2, <2>1 DEF StoreRows
  <2>5. CASE IsForm(p)
    <3>1. /\ Registry!Host(i, n) /\ Registry!GivenNumber(i, n, k)
          /\ s = IF nodes[n].status \in {"absent", "INACTIVE"} THEN "PLANNED" ELSE nodes[n].status
      BY <1>1, <2>5 DEF AloneInv, FormChoice, HasNode
    <3>2. k # Null /\ k \in Givable
      <4>1. Registry!LowestFree(k) => k # Null
        BY LowestIsSet, NumberAssumption
      <4>2. k # Null
        BY <1>1, <2>5, <3>1, <4>1, NumberAssumption DEF Registry!GivenNumber
      <4> QED BY <1>2, <4>2
    <3>3. nodesW' = [nodes EXCEPT ![n] =
            [nn |-> k, status |-> IF @.status \in {"absent", "INACTIVE"} THEN "PLANNED" ELSE @.status]]
      BY <2>4, <3>1
    <3>4. primaryW' = [primary EXCEPT ![BuildingOf[i]] = IF @ = Null THEN n ELSE @]
      BY <1>2, <2>1, <2>5 DEF StoreRows
    <3>5. installsW' = [j \in Installs |->
            IF j = i
            THEN [node |-> n, status |-> IF installs[i].status = "REQUEST_RECEIVED"
                                         THEN "PENDING" ELSE installs[i].status]
            ELSE [installs[j] EXCEPT !.status = IF Registry!Retired(n, k, j) THEN "NN_REASSIGNED" ELSE @]]
      <4>1. installsW' = [Marks(n, k) EXCEPT ![i] = Attached(i, n)]
        BY <1>2, <2>1, <2>5 DEF StoreRows
      <4>2. Attached(i, n) = [node |-> n, status |-> IF installs[i].status = "REQUEST_RECEIVED"
                                                     THEN "PENDING" ELSE installs[i].status]
        BY DEF Attached
      <4> QED BY <1>1, <2>5, <4>1, <4>2 DEF Marks
    <3>6. FormRows(i, n, k)'
      <4>1. Registry!Host(i, n)' /\ Registry!GivenNumber(i, n, k)'
        BY <1>1, <3>1, ChoicesKept
      <4>2. nodes' = nodes /\ installs' = installs /\ primary' = primary
        BY <1>1 DEF committed
      <4>3. \A j : Registry!Retired(n, k, j)' <=> Registry!Retired(n, k, j)
        BY <4>2 DEF Registry!Retired
      <4> QED BY <2>3, <3>2, <3>3, <3>4, <3>5, <4>1, <4>2, <4>3 DEF FormRows
    <3> QED BY <1>1, <2>5, <3>2, <3>6 DEF Promised
  <2>6. CASE ~IsForm(p)
    <3>1. PICK typed \in Typed(n) : Asked(n, s, typed, k)
      BY <1>1, <2>6 DEF AloneInv, SaveChoice
    <3>2. installsW' = Marks(n, k) /\ primaryW' = primary
      BY <1>2, <2>1, <2>6 DEF StoreRows
    <3>3. SaveRows(n, s, typed, k)'
      BY <1>1, <2>3, <2>4, <3>1, <3>2, ChoicesKept DEF SaveRows
    <3>4. typed \in Typed(n)'
      BY <1>1, ChoicesKept
    <3> QED BY <1>1, <1>2, <3>3, <3>4 DEF Promised, Givable
  <2> QED BY <2>5, <2>6
<1>6. InHand(p)'
  BY <1>1, <1>5 DEF InHand
<1> QED BY <1>1, <1>3, <1>4, <1>6 DEF AloneInv

(* What the last statement stored is what the commit publishes. *)
LEMMA PublishedAlone ==
  ASSUME NEW p \in Proc, Proc \subseteq {p}, TypeOK, NodeInv, AloneInv(p)
  PROVE  /\ Merge(nodesW, nodes, nodeLock, p) = nodesW /\ Merge(nodes, nodesW, nodeLock, p) = nodes
         /\ Merge(installsW, installs, installLock, p) = installsW
         /\ Merge(installs, installsW, installLock, p) = installs
         /\ Merge(primaryW, primary, primaryLock, p) = primaryW
         /\ Merge(primary, primaryW, primaryLock, p) = primary
<1>1. /\ \A n \in Node : nodeLock[n] # p => nodesW[n] = nodes[n]
      /\ \A i \in Installs : installLock[i] # p => installsW[i] = installs[i]
      /\ \A b \in Building : primaryLock[b] # p => primaryW[b] = primary[b]
  BY DEF NodeInv, UnlockedIsCommitted, AloneInv, RowsSettled, TypeOK
<1>2. /\ Merge(nodesW, nodes, nodeLock, p) = nodesW /\ Merge(nodes, nodesW, nodeLock, p) = nodes
  BY <1>1 DEF Merge, TypeOK
<1>3. /\ Merge(installsW, installs, installLock, p) = installsW
      /\ Merge(installs, installsW, installLock, p) = installs
  BY <1>1 DEF Merge, TypeOK
<1>4. /\ Merge(primaryW, primary, primaryLock, p) = primaryW
      /\ Merge(primary, primaryW, primaryLock, p) = primary
  BY <1>1 DEF Merge, TypeOK
<1> QED BY <1>2, <1>3, <1>4

LEMMA IdleAlone ==
  ASSUME NEW p \in Proc, Clean', pc'[p] \in {"idle", "close"}
  PROVE  AloneInv(p)'
<1>1. RowsSettled'
  BY DEF Clean, RowsSettled
<1> QED BY <1>1 DEF AloneInv, FormChoice, SaveChoice, InHand, HasNode

LEMMA CommitAlone ==
  ASSUME NEW p \in Proc, Proc \subseteq {p}, TypeOK, NodeInv, AloneInv(p), Commit(p)
  PROVE  AloneInv(p)' /\ (Registry!Next \/ UNCHANGED committed)
<1>1. /\ nodes' = nodesW /\ installs' = installsW /\ primary' = primaryW
      /\ nodesW' = nodesW /\ installsW' = installsW /\ primaryW' = primaryW
      /\ pc[p] = "commit" /\ pc'[p] = "idle"
  BY PublishedAlone DEF Commit, Goto, TypeOK, latest
<1>2. AloneInv(p)'
  BY <1>1, IdleAlone DEF Clean
<1>3. CASE Clean
  BY <1>1, <1>2, <1>3 DEF Clean, committed
<1>4. ASSUME NEW i \in Installs, NEW n \in Node, NEW k \in Givable, FormRows(i, n, k) PROVE Registry!Next
  <2>1. Registry!Assign(i)
    BY <1>1, <1>4 DEF FormRows, Registry!Assign, Givable
  <2> QED BY <2>1 DEF Registry!Next
<1>5. ASSUME NEW n \in Node, NEW s \in NodeStatus, NEW k \in {Null} \cup Givable, NEW typed \in Typed(n),
             SaveRows(n, s, typed, k)
      PROVE  Registry!Next
  <2>1. k \in {Null, 0} \cup (NNMin .. NNMax)
    BY DEF Givable
  <2>2. Registry!Unset(typed) <=> Unset(typed)
    BY DEF Registry!Unset, Unset
  <2>3. Registry!Save(n, s, typed)
    BY <1>1, <1>5, <2>1, <2>2 DEF SaveRows, Asked, Marks, Registry!Save
  <2> QED BY <2>3 DEF Registry!Next, Typed, NodeStatus
<1> QED BY <1>1, <1>2, <1>3, <1>4, <1>5 DEF AloneInv, InHand, Promised

LEMMA RollbackAlone ==
  ASSUME NEW p \in Proc, Proc \subseteq {p}, TypeOK, NodeInv, AloneInv(p), Rollback(p)
  PROVE  AloneInv(p)' /\ UNCHANGED committed
<1>1. /\ UNCHANGED committed /\ nodesW' = nodes /\ installsW' = installs /\ primaryW' = primary
      /\ pc'[p] \in {"idle", "close"}
  BY PublishedAlone DEF Rollback, Goto, TypeOK
<1> QED BY <1>1, IdleAlone DEF Clean, committed

LEMMA SaveInstallAlone ==
  ASSUME NEW p \in Proc, NEW s \in InstallStatus, TypeOK, MemoryInv, AloneInv(p), SaveInstall(p, s)
  PROVE  AloneInv(p)' /\ Registry!Next
<1>1. pc[p] = "editInstall" /\ inum[p] \in Installs /\ pc'[p] = "idle"
  BY DEF SaveInstall, Goto, MemoryInv, Memory, TypeOK
<1>2. Clean /\ row[p] = installs[inum[p]]
  BY <1>1 DEF AloneInv, InHand
<1>3. AloneInv(p)'
  BY <1>1, <1>2, IdleAlone DEF SaveInstall, Clean
<1>4. Registry!Update(inum[p], s)
  BY <1>2 DEF SaveInstall, Registry!Update
<1> QED BY <1>1, <1>3, <1>4 DEF Registry!Next, Registry!InstallStatus, InstallStatus

LEMMA NextAlone ==
  ASSUME NEW p, Proc = {p}, TypeOK, MemoryInv, NodeInv, ReferInv, SearchInv, AloneInv(p), [Next]_vars
  PROVE  AloneInv(p)' /\ [Registry!Next]_(Registry!vars)
<1>1. UNCHANGED committed => UNCHANGED Registry!vars
  BY DEF committed, Registry!vars
<1>2. CASE UNCHANGED vars
  <2>1. FormChoice(p)' /\ SaveChoice(p)'
    BY <1>2, ChoicesKept DEF AloneInv, vars, FormChoice, SaveChoice, IsForm
  <2>2. Promised' <=> Promised
    BY <1>2 DEF vars, committed, latest, Promised, FormRows, SaveRows, Asked, Typed, Marks,
       Registry!Host, Registry!GivenNumber, Registry!OwnNumber, Registry!LowestFree, Registry!Free, Registry!Used,
       Registry!Unwanted, Registry!MayCarry, Registry!Retired
  <2>3. InHand(p)' /\ RowsSettled'
    <3>1. Unavailable(installs)' = Unavailable(installs) /\ (Clean' <=> Clean)
      BY <1>2 DEF vars, committed, latest, Unavailable, Clean
    <3> QED BY <1>2, <2>2, <3>1, ChoicesKept DEF AloneInv, vars, latest, locks, InHand, RowsSettled, IsForm
  <2> QED BY <1>1, <1>2, <2>1, <2>3 DEF AloneInv, vars
<1>3. ASSUME Request(p) \/ Waiting(p) \/ Working(p) PROVE AloneInv(p)' /\ (Registry!Next \/ UNCHANGED committed)
  <2>1. p \in Proc /\ Proc \subseteq {p}
    OBVIOUS
  <2> QED BY <1>3, <2>1, StepKinds, QuietAlone, ClaimAlone, WriteAlone, CommitAlone, RollbackAlone, SaveInstallAlone
<1> QED BY <1>1, <1>2, <1>3 DEF Next

(* One session, whatever it serves, does what the registry says: each      *)
(* request to the form, each save of a node and each change of an install  *)
(* is one step of it at the commit, or changes nothing.                    *)
THEOREM ServedAlone ==
  ASSUME NEW p, Proc = {p}
  PROVE  Spec => ImplementsRegistry
<1> DEFINE Inv == TypeOK /\ MemoryInv /\ NodeInv /\ ReferInv /\ SearchInv /\ AloneInv(p)
<1>1. Init => Inv /\ Registry!Init
  BY InitType, InitNodes, InitRefer, InitSearch, InitAlone
<1>2. Inv /\ [Next]_vars => Inv'
  BY NextType, NextNodes, NextRefer, NextSearch, NextAlone
<1>3. Inv /\ [Next]_vars => [Registry!Next]_(Registry!vars)
  BY NextAlone
<1> HIDE DEF Inv
<1> QED BY <1>1, <1>2, <1>3, PTL DEF Spec, ImplementsRegistry, Registry!Spec
=============================================================================
