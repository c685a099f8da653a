--------------------------- MODULE NetworkNumbers ---------------------------
(***************************************************************************)
(* The assignment of network numbers (NNs).  Database sessions run against *)
(* one PostgreSQL database in READ COMMITTED mode and serve one request    *)
(* after the other, of the kinds they are given:                           *)
(*                                                                         *)
(*   Form    a worker serving POST /api/v1/nn-assign/,                     *)
(*   Admin   a worker serving a Node save (admin form, API PUT / PATCH,    *)
(*           API or admin creation), which ends in Node.save(),            *)
(*   Editor  a worker that read an Install row and later saves all of it   *)
(*           (API PATCH, admin form, the osTicket receiver).               *)
(*                                                                         *)
(* A step is one SQL statement, or several that no other session can tell  *)
(* apart.  A row has a committed version and a latest one; the two differ  *)
(* only while a session holds the row's lock.  The advisory lock belongs   *)
(* to a session, not to its transaction: the form gives it back before its *)
(* transaction commits.                                                    *)
(*                                                                         *)
(* A definition commented "Variant" is a plausible mistake in the one that *)
(* follows it.  No action uses it; it shows that a property would notice.  *)
(***************************************************************************)
EXTENDS Integers, FiniteSets

CONSTANTS
  Form, Admin, Editor,       \* the sessions, by what they may serve
  Node, Building,            \* identifiers of rows; a Node starts "absent"
  Installs, BuildingOf,      \* the install numbers, and each one's building
  NNMin, NNAssignMin, NNMax, \* NETWORK_NUMBER_MIN, ..._ASSIGN_MIN, ..._MAX
  Vanity,                    \* what callers put in a Node's network_number
  Start,                     \* the databases to start from
  Null, NoProc

Proc == Form \cup Admin \cup Editor

ASSUME ProcAssumption == NoProc \notin Proc

ASSUME NumberAssumption ==
  /\ NNMin \in Nat \ {0} /\ NNAssignMin \in Nat /\ NNMax \in Nat
  /\ NNMin =< NNAssignMin
  /\ Installs \subseteq Nat \ {0}
  /\ Vanity \subseteq Nat \cup {Null}
  /\ Null \notin Nat /\ Null \notin Node

ASSUME BuildingAssumption == BuildingOf \in [Installs -> Building]

(***************************************************************************)
(* Rows.  PENDING stands for BLOCKED and INACTIVE too: this code treats    *)
(* the three alike.                                                        *)
(***************************************************************************)
NodeStatus    == {"PLANNED", "ACTIVE", "INACTIVE"}
InstallStatus == {"REQUEST_RECEIVED", "PENDING", "ACTIVE", "CLOSED", "NN_REASSIGNED"}
Number        == Nat \cup {Null}
NodeRow       == [nn : Number, status : NodeStatus \cup {"absent"}]
InstallRow    == [status : InstallStatus, node : Node \cup {Null}]
NodeObject    == [id : Node \cup {Null}, adding : BOOLEAN, nn : Number,
                  status : NodeStatus \cup {"absent"}]

NoNode    == [nn |-> Null, status |-> "absent"]
NoObject  == [id |-> Null, adding |-> FALSE, nn |-> Null, status |-> "PLANNED"]
NoInstall == [status |-> "CLOSED", node |-> Null]

(***************************************************************************)
(* What must hold of the committed rows for the data to make sense, and    *)
(* holds of the database this code starts from: numbers are unique, active *)
(* nodes have one, references point at rows, and an install whose number   *)
(* is some node's NN is attached to that node or marked NN_REASSIGNED.     *)
(***************************************************************************)
Unique(ns) == \A m, n \in Node : m # n /\ ns[m].nn # Null => ns[m].nn # ns[n].nn

Unset(k) == k \in {Null, 0}   \* what Python's "not network_number" is true of

NumberedIfActive(ns) == \A n \in Node : ns[n].status = "ACTIVE" => ~Unset(ns[n].nn)

Claimed(ns, is) ==
  \A n \in Node : ns[n].nn \in Installs =>
     \/ is[ns[n].nn].status = "NN_REASSIGNED"
     \/ is[ns[n].nn].node = n

RefersToRows(ns, is, ps) ==
  /\ \A i \in Installs : is[i].node # Null => ns[is[i].node].status # "absent"
  /\ \A b \in Building : ps[b] # Null => ns[ps[b]].status # "absent"
  /\ \A n \in Node : ns[n].status = "absent" => ns[n].nn = Null

Consistent(ns, is, ps) ==
  Unique(ns) /\ NumberedIfActive(ns) /\ Claimed(ns, is) /\ RefersToRows(ns, is, ps)

ASSUME StartAssumption ==
  \A db \in Start :
    /\ db.nodes \in [Node -> NodeRow]
    /\ db.installs \in [Installs -> InstallRow]
    /\ db.primary \in [Building -> Node \cup {Null}]
    /\ Consistent(db.nodes, db.installs, db.primary)

VARIABLES
  nodes, installs, primary,          \* the committed version of each row
  nodesW, installsW, primaryW,       \* the latest version of each row
  nodeLock, installLock, primaryLock,\* who holds the row's lock
  advisory,                          \* who holds "nn_assignment_lock"
  pc, obj, inum, row, seen, reply    \* a session's request and its memory

committed == <<nodes, installs, primary>>
latest    == <<nodesW, installsW, primaryW>>
locks     == <<nodeLock, installLock, primaryLock>>
vars == <<committed, latest, locks, advisory, pc, obj, inum, row, seen, reply>>

Init ==
  /\ \E db \in Start : nodes = db.nodes /\ installs = db.installs /\ primary = db.primary
  /\ nodesW = nodes /\ installsW = installs /\ primaryW = primary
  /\ nodeLock = [n \in Node |-> NoProc]
  /\ installLock = [i \in Installs |-> NoProc]
  /\ primaryLock = [b \in Building |-> NoProc]
  /\ advisory = NoProc
  /\ pc = [p \in Proc |-> "idle"]
  /\ obj = [p \in Proc |-> NoObject]
  /\ inum = [p \in Proc |-> Null]
  /\ row = [p \in Proc |-> NoInstall]
  /\ seen = [p \in Proc |-> {}]
  /\ reply = [p \in Proc |-> "none"]

-----------------------------------------------------------------------------
Goto(p, label) == pc' = [pc EXCEPT ![p] = label]

IsForm(p) == inum[p] # Null   \* the request is one to the form

(* The view or the save is over: the advisory lock, if held, is given back. *)
(* The transaction stays open until Commit or Rollback.                     *)
Finish(p, answer, label) ==
  /\ reply' = [reply EXCEPT ![p] = answer]
  /\ advisory' = IF advisory = p THEN NoProc ELSE advisory
  /\ Goto(p, label)

Answer(p, code)  == Finish(p, code, "commit")     \* a Response: the transaction commits
(* Variant: no transaction around the view. *)
Handled(p, error) == Finish(p, error, "commit")

Raise(p, error)  == Finish(p, error, "rollback")  \* uncaught: the transaction rolls back

Reserved == {obj[p].id : p \in Proc}   \* uuid4 never returns an id twice

Fresh == {n \in Node : nodes[n].status = "absent"} \ Reserved

MayNeedNode(i) == i \in Installs /\ primary[BuildingOf[i]] = Null

Undecided == {p \in Proc : pc[p] \in {"lock", "install", "node"} /\ MayNeedNode(inum[p])}

(* The bound on the number of nodes: no request that may need a new id is  *)
(* started when the ids could run out.                                     *)
IdsLeft == Cardinality(Fresh) > Cardinality(Undecided)

(***************************************************************************)
(* The form: network_number_assignment.                                    *)
(***************************************************************************)
PostForm(p, i) ==
  /\ p \in Form /\ pc[p] = "idle"
  /\ MayNeedNode(i) => IdsLeft
  /\ inum' = [inum EXCEPT ![p] = i]
  /\ Goto(p, "lock")
  /\ UNCHANGED <<committed, latest, locks, advisory, obj, row, seen, reply>>

(* advisory_lock("nn_assignment_lock"): of the form, and of Node.save for  *)
(* an active node without a number, which goes straight to the search.     *)
AcquireLock(p) ==
  /\ pc[p] = "lock" /\ advisory = NoProc
  /\ advisory' = p
  /\ Goto(p, IF IsForm(p) THEN "install" ELSE "scanInstalls")
  /\ UNCHANGED <<committed, latest, locks, obj, inum, row, seen, reply>>

(* The request is read, then Install ... select_for_update()               *)
(* .select_related(): the install's row and its building's are locked, an  *)
(* attached node's is not.  A number that no install has stands for a      *)
(* request that cannot be read, too.                                       *)
LockInstall(p) ==
  /\ pc[p] = "install"
  /\ LET i == inum[p] IN
     \/ /\ i \notin Installs
        /\ \E code \in {"400", "404"} : Answer(p, code)
        /\ UNCHANGED locks
     \/ /\ i \in Installs
        /\ installLock[i] = NoProc /\ primaryLock[BuildingOf[i]] = NoProc
        /\ installLock' = [installLock EXCEPT ![i] = p]
        /\ primaryLock' = [primaryLock EXCEPT ![BuildingOf[i]] = p]
        /\ Goto(p, "node")
        /\ UNCHANGED <<nodeLock, advisory, reply>>
  /\ UNCHANGED <<committed, latest, obj, inum, row, seen>>

(* The node the form will use: the install's, else the building's, else a  *)
(* new one; and the changes that make the request dirty.                   *)
Reusable(i) == IF installs[i].node # Null THEN installs[i].node ELSE primary[BuildingOf[i]]

ObjectOf(n) == [id |-> n, adding |-> FALSE, nn |-> nodes[n].nn, status |-> nodes[n].status]

Revived(o) == [o EXCEPT !.status = IF @ = "INACTIVE" THEN "PLANNED" ELSE @]

Dirty(i, o) ==
  \/ installs[i].node = Null
  \/ primary[BuildingOf[i]] = Null
  \/ o.nn = Null
  \/ o.status = "INACTIVE"
  \/ installs[i].status = "REQUEST_RECEIVED"

Refused(i) == installs[i].status \in {"CLOSED", "NN_REASSIGNED"}

ChooseNode(p) ==
  /\ pc[p] = "node"
  /\ LET i == inum[p] IN
     \/ /\ installs[i].node = Null /\ Refused(i)
        /\ Answer(p, "409")
        /\ UNCHANGED obj
     \/ /\ installs[i].node # Null \/ ~Refused(i)
        /\ Reusable(i) # Null
        /\ LET o == ObjectOf(Reusable(i)) IN
           \/ /\ ~Dirty(i, o)
              /\ Answer(p, "200")
              /\ UNCHANGED obj
           \/ /\ Dirty(i, o)
              /\ obj' = [obj EXCEPT ![p] = Revived(o)]
              /\ Goto(p, IF o.nn = Null THEN "number" ELSE "save")
              /\ UNCHANGED <<advisory, reply>>
     \/ /\ ~Refused(i) /\ Reusable(i) = Null
        /\ \E n \in Fresh :
              obj' = [obj EXCEPT ![p] =
                           [id |-> n, adding |-> TRUE, nn |-> Null, status |-> "PLANNED"]]
        /\ Goto(p, "number")
        /\ UNCHANGED <<advisory, reply>>
  /\ UNCHANGED <<committed, latest, locks, inum, row, seen>>

(* The install's own number, when it is in range and nobody uses it.       *)
OwnNumberUsable(i) ==
  /\ i \in NNAssignMin .. NNMax
  /\ \A n \in Node : nodes[n].nn # i
  /\ ~Refused(i)

ChooseNumber(p) ==
  /\ pc[p] = "number"
  /\ \/ /\ OwnNumberUsable(inum[p])
        /\ obj' = [obj EXCEPT ![p].nn = inum[p]]
        /\ Goto(p, "save")
     \/ /\ ~OwnNumberUsable(inum[p])
        /\ Goto(p, "scanInstalls")
        /\ UNCHANGED obj
  /\ UNCHANGED <<committed, latest, locks, advisory, inum, row, seen, reply>>

(***************************************************************************)
(* get_next_available_network_number, called by the form and by Node.save: *)
(* a SELECT of the installs, a SELECT of the nodes, and the claim of the   *)
(* lowest number in neither.                                               *)
(***************************************************************************)
Unavailable(is) == {i \in Installs : is[i].status # "REQUEST_RECEIVED" \/ is[i].node # Null}

ScanInstalls(p) ==
  /\ pc[p] = "scanInstalls"
  /\ seen' = [seen EXCEPT ![p] = Unavailable(installs)]
  /\ Goto(p, "scanNodes")
  /\ UNCHANGED <<committed, latest, locks, advisory, obj, inum, row, reply>>

(* Variant: the search starts at NETWORK_NUMBER_MIN. *)
UnusedNumbers(p) == (NNMin .. NNMax) \ (seen[p] \cup {nodes[n].nn : n \in Node})

FreeNumbers(p) == (NNAssignMin .. NNMax) \ (seen[p] \cup {nodes[n].nn : n \in Node})

ScanNodes(p) ==
  /\ pc[p] = "scanNodes"
  /\ \/ /\ FreeNumbers(p) # {}
        /\ \E k \in FreeNumbers(p) :
              /\ \A j \in FreeNumbers(p) : k =< j
              /\ obj' = [obj EXCEPT ![p].nn = k]
        /\ Goto(p, "claimCheck")
        /\ UNCHANGED <<advisory, reply>>
     \/ /\ FreeNumbers(p) = {}            \* next() over nothing
        /\ Raise(p, "StopIteration")
        /\ UNCHANGED obj
  /\ UNCHANGED <<committed, latest, locks, inum, row, seen>>

(***************************************************************************)
(* validate_network_number_unused_and_claim_install_if_needed.  It runs in *)
(* the search ("claim", no node id given) and in Node.save ("save").       *)
(***************************************************************************)
UsedByAnother(p) ==
  \E n \in Node : nodes[n].nn = obj[p].nn /\ (pc[p] = "claimCheck" \/ n # obj[p].id)

(* The form's try around the search turns a ValueError into a 500; Node.save *)
(* lets it through.                                                          *)
ValueError(p) ==
  IF IsForm(p) /\ pc[p] \in {"claimCheck", "claimDonor"}
  THEN Answer(p, "500")
  ELSE Raise(p, "ValueError")

InRange(k) == k \in NNMin .. NNMax

CheckNumber(p) ==
  /\ pc[p] \in {"claimCheck", "saveCheck"}
  /\ \/ /\ ~InRange(obj[p].nn) \/ UsedByAnother(p)
        /\ ValueError(p)
     \/ /\ InRange(obj[p].nn) /\ ~UsedByAnother(p)
        /\ Goto(p, IF pc[p] = "claimCheck" THEN "claimDonor" ELSE "saveDonor")
        /\ UNCHANGED <<advisory, reply>>
  /\ UNCHANGED <<committed, latest, locks, obj, inum, row, seen>>

Claim(p, k) ==
  /\ installLock' = [installLock EXCEPT ![k] = p]
  /\ UNCHANGED <<nodeLock, primaryLock, nodesW, primaryW>>

AttachedAlready(p, k) == pc[p] = "saveDonor" /\ installsW[k].node = obj[p].id

(* Variant: active but bare installs lose their number. *)
OccupiedIfAttached(k) == installsW[k].status = "ACTIVE" /\ installsW[k].node # Null

Occupied(k) == installsW[k].status = "ACTIVE"

(* Variant: the donor is not saved. *)
NotRetired(k) == installsW

Retired(k) == [installsW EXCEPT ![k].status = "NN_REASSIGNED"]

ClaimDonor(p) ==
  /\ pc[p] \in {"claimDonor", "saveDonor"}
  /\ LET k    == obj[p].nn
         next == IF pc[p] = "claimDonor" /\ IsForm(p) THEN "save" ELSE "write"
     IN \/ /\ k \notin Installs
           /\ Goto(p, next)
           /\ UNCHANGED <<latest, locks, advisory, reply>>
        \/ /\ k \in Installs
           /\ installLock[k] \in {NoProc, p}
           /\ Claim(p, k)
           /\ \/ /\ AttachedAlready(p, k)
                 /\ Goto(p, next)
                 /\ UNCHANGED <<installsW, advisory, reply>>
              \/ /\ ~AttachedAlready(p, k) /\ Occupied(k)
                 /\ ValueError(p)
                 /\ UNCHANGED installsW
              \/ /\ ~AttachedAlready(p, k) /\ ~Occupied(k)
                 /\ installsW' = Retired(k)
                 /\ Goto(p, next)
                 /\ UNCHANGED <<advisory, reply>>
  /\ UNCHANGED <<committed, obj, inum, row, seen>>

(***************************************************************************)
(* Node.save, on the Node object the session holds.                        *)
(***************************************************************************)
ReadNode(p, n) ==
  /\ p \in Admin /\ pc[p] = "idle"
  /\ nodes[n].status # "absent"
  /\ obj' = [obj EXCEPT ![p] = ObjectOf(n)]
  /\ Goto(p, "edit")
  /\ UNCHANGED <<committed, latest, locks, advisory, inum, row, seen, reply>>

NewNode(p, n) ==
  /\ p \in Admin /\ pc[p] = "idle"
  /\ n \in Fresh /\ IdsLeft
  /\ obj' = [obj EXCEPT ![p] = [id |-> n, adding |-> TRUE, nn |-> Null, status |-> "PLANNED"]]
  /\ Goto(p, "edit")
  /\ UNCHANGED <<committed, latest, locks, advisory, inum, row, seen, reply>>

EditNode(p, s, k) ==
  /\ pc[p] = "edit"
  /\ obj' = [obj EXCEPT ![p].status = s, ![p].nn = k]
  /\ Goto(p, "save")
  /\ UNCHANGED <<committed, latest, locks, advisory, inum, row, seen, reply>>

(* Variant: only new nodes get a number. *)
SearchesIfNew(o) == Unset(o.nn) /\ o.status = "ACTIVE" /\ o.adding

Searches(o) == Unset(o.nn) /\ o.status = "ACTIVE"

Renumbered(o) == ~o.adding /\ nodes[o.id].nn \notin {Null, o.nn}

SaveNode(p) ==
  /\ pc[p] = "save"
  /\ LET o == obj[p] IN
     \/ /\ Searches(o)
        /\ Goto(p, "lock")
        /\ UNCHANGED <<advisory, reply>>
     \/ /\ ~Searches(o) /\ Renumbered(o)
        /\ Raise(p, "ValidationError")
     \/ /\ ~Searches(o) /\ ~Renumbered(o)
        /\ Goto(p, IF Unset(o.nn) THEN "write" ELSE "saveCheck")
        /\ UNCHANGED <<advisory, reply>>
  /\ UNCHANGED <<committed, latest, locks, obj, inum, row, seen>>

(* The unique index: an entry of another transaction's uncommitted row     *)
(* makes the writer wait; a committed one makes it fail.                   *)
IndexBusy(o) ==
  \E m \in Node \ {o.id} : /\ nodeLock[m] # NoProc
                           /\ o.nn # Null
                           /\ o.nn \in {nodes[m].nn, nodesW[m].nn}

(* Variant: network_number is not unique. *)
NoIndex(o) == FALSE

IndexTaken(o) == \E m \in Node \ {o.id} : o.nn # Null /\ nodes[m].nn = o.nn

Attached(i, n) ==
  [status |-> IF installs[i].status = "REQUEST_RECEIVED" THEN "PENDING" ELSE installs[i].status,
   node   |-> n]

(* super().save(), and for the form the saves of the building and the      *)
(* install, whose rows it holds.                                           *)
StoreRows(p) ==
  LET o == obj[p]
      i == inum[p]
  IN /\ nodesW' = [nodesW EXCEPT ![o.id] = [nn |-> o.nn, status |-> o.status]]
     /\ nodeLock' = [nodeLock EXCEPT ![o.id] = p]
     /\ \/ /\ IsForm(p)
           /\ installsW' = [installsW EXCEPT ![i] = Attached(i, o.id)]
           /\ primaryW' = [primaryW EXCEPT ![BuildingOf[i]] = IF @ = Null THEN o.id ELSE @]
        \/ /\ ~IsForm(p)
           /\ UNCHANGED <<installsW, primaryW>>

(* The form catches the IntegrityError after Node.save's savepoint is      *)
(* rolled back, and commits the rest.  In Node.save's own search the error *)
(* leaves the transaction unusable, so the advisory lock's release fails   *)
(* and the session keeps it until it is closed.                            *)
DuplicateNumber(p) ==
  \/ /\ IsForm(p)
     /\ installsW' = [installsW EXCEPT ![inum[p]] = installs[inum[p]]]
     /\ Answer(p, "500")
  \/ /\ ~IsForm(p)
     /\ reply' = [reply EXCEPT ![p] = "IntegrityError"]
     /\ Goto(p, "rollback")
     /\ UNCHANGED <<installsW, advisory>>

WriteNode(p) ==
  /\ pc[p] = "write"
  /\ nodeLock[obj[p].id] = NoProc
  /\ ~IndexBusy(obj[p])
  /\ \/ /\ ~IndexTaken(obj[p])
        /\ StoreRows(p)
        /\ Answer(p, "saved")
     \/ /\ IndexTaken(obj[p])
        /\ DuplicateNumber(p)
        /\ UNCHANGED <<nodesW, nodeLock, primaryW>>
  /\ UNCHANGED <<committed, installLock, primaryLock, obj, inum, row, seen>>

(***************************************************************************)
(* The end of the transaction, and of the session.                         *)
(***************************************************************************)
Merge(new, old, lock, p) == [r \in DOMAIN old |-> IF lock[r] = p THEN new[r] ELSE old[r]]

Unlock(lock, p) == [r \in DOMAIN lock |-> IF lock[r] = p THEN NoProc ELSE lock[r]]

Unlocked(p) ==
  /\ nodeLock' = Unlock(nodeLock, p)
  /\ installLock' = Unlock(installLock, p)
  /\ primaryLock' = Unlock(primaryLock, p)

Forget(p) ==
  /\ obj' = [obj EXCEPT ![p] = NoObject]
  /\ inum' = [inum EXCEPT ![p] = Null]
  /\ row' = [row EXCEPT ![p] = NoInstall]
  /\ seen' = [seen EXCEPT ![p] = {}]
  /\ reply' = [reply EXCEPT ![p] = "none"]

Commit(p) ==
  /\ pc[p] = "commit"
  /\ nodes' = Merge(nodesW, nodes, nodeLock, p)
  /\ installs' = Merge(installsW, installs, installLock, p)
  /\ primary' = Merge(primaryW, primary, primaryLock, p)
  /\ Unlocked(p) /\ Forget(p)
  /\ Goto(p, "idle")
  /\ UNCHANGED <<latest, advisory>>

Rollback(p) ==
  /\ pc[p] = "rollback"
  /\ nodesW' = Merge(nodes, nodesW, nodeLock, p)
  /\ installsW' = Merge(installs, installsW, installLock, p)
  /\ primaryW' = Merge(primary, primaryW, primaryLock, p)
  /\ Unlocked(p) /\ Forget(p)
  /\ Goto(p, IF advisory = p THEN "close" ELSE "idle")
  /\ UNCHANGED <<committed, advisory>>

(* Variant: connections are pooled. *)
KeepSession(p) ==
  /\ pc[p] = "close"
  /\ Goto(p, "idle")
  /\ UNCHANGED <<committed, latest, locks, advisory, obj, inum, row, seen, reply>>

CloseSession(p) ==
  /\ pc[p] = "close"
  /\ advisory' = NoProc
  /\ Goto(p, "idle")
  /\ UNCHANGED <<committed, latest, locks, obj, inum, row, seen, reply>>

(***************************************************************************)
(* A full-row save of an Install that was read some time ago.              *)
(***************************************************************************)
ReadInstall(p, i) ==
  /\ p \in Editor /\ pc[p] = "idle"
  /\ inum' = [inum EXCEPT ![p] = i]
  /\ row' = [row EXCEPT ![p] = installs[i]]
  /\ Goto(p, "editInstall")
  /\ UNCHANGED <<committed, latest, locks, advisory, obj, seen, reply>>

SaveInstall(p, s) ==
  /\ pc[p] = "editInstall"
  /\ installLock[inum[p]] = NoProc
  /\ LET new == [row[p] EXCEPT !.status = s]
     IN /\ installs' = [installs EXCEPT ![inum[p]] = new]
        /\ installsW' = [installsW EXCEPT ![inum[p]] = new]
  /\ Forget(p)
  /\ Goto(p, "idle")
  /\ UNCHANGED <<nodes, primary, nodesW, primaryW, locks, advisory>>

-----------------------------------------------------------------------------
(* What users ask for, and what a session then does on its own.            *)
Request(p) ==
  \/ \E i \in Installs \cup {0} : PostForm(p, i)
  \/ \E n \in Node : ReadNode(p, n) \/ NewNode(p, n)
  \/ \E s \in NodeStatus, k \in Vanity \cup {obj[p].nn} : EditNode(p, s, k)
  \/ \E i \in Installs : ReadInstall(p, i)
  \/ \E s \in InstallStatus : SaveInstall(p, s)

Waiting(p) == AcquireLock(p) \/ LockInstall(p) \/ ClaimDonor(p) \/ WriteNode(p)

Working(p) ==
  \/ ChooseNode(p) \/ ChooseNumber(p) \/ ScanInstalls(p) \/ ScanNodes(p)
  \/ CheckNumber(p) \/ SaveNode(p) \/ Commit(p) \/ Rollback(p) \/ CloseSession(p)

Next == \E p \in Proc : Request(p) \/ Waiting(p) \/ Working(p)

Spec == Init /\ [][Next]_vars

(* A worker goes on with its request; the server queues lock waiters, so   *)
(* one that could be granted again and again is granted.  Nobody has to    *)
(* send a request or to finish editing.                                    *)
Fairness == \A p \in Proc : WF_vars(Working(p)) /\ SF_vars(Waiting(p))

FairSpec == Spec /\ Fairness

-----------------------------------------------------------------------------
Label == {"idle", "lock", "install", "node", "number", "scanInstalls", "scanNodes",
          "claimCheck", "claimDonor", "edit", "save", "saveCheck", "saveDonor",
          "write", "commit", "rollback", "close", "editInstall"}

Reply == {"none", "saved", "200", "400", "404", "409", "500",
          "ValueError", "ValidationError", "IntegrityError", "StopIteration"}

(* Every variable keeps its type. *)
TypeOK ==
  /\ nodes \in [Node -> NodeRow] /\ nodesW \in [Node -> NodeRow]
  /\ installs \in [Installs -> InstallRow] /\ installsW \in [Installs -> InstallRow]
  /\ primary \in [Building -> Node \cup {Null}] /\ primaryW \in [Building -> Node \cup {Null}]
  /\ nodeLock \in [Node -> Proc \cup {NoProc}]
  /\ installLock \in [Installs -> Proc \cup {NoProc}]
  /\ primaryLock \in [Building -> Proc \cup {NoProc}]
  /\ advisory \in Proc \cup {NoProc}
  /\ pc \in [Proc -> Label]
  /\ obj \in [Proc -> NodeObject]
  /\ inum \in [Proc -> Number]
  /\ row \in [Proc -> InstallRow]
  /\ seen \in [Proc -> SUBSET Installs]
  /\ reply \in [Proc -> Reply]

(* No two nodes ever have the same network number, whichever of the form,  *)
(* the admin and the automatic assignment gave them out (node.py l.58,     *)
(* network_number.py l.50).                                                *)
UniqueNumbers == Unique(nodes)

(* An active node always has a network number (node.py l.124-127).         *)
ActiveNumbered == NumberedIfActive(nodes)

(* The install whose number a node carries is that node's own, or is       *)
(* marked NN_REASSIGNED, at every commit (network_number.py l.54-69,       *)
(* against the form's later save of the same row).                         *)
DonorClaimed == Claimed(nodes, installs)

(* A session never goes to its commit with an install marked NN_REASSIGNED *)
(* unless, at that moment, a node has the install's number: the one it     *)
(* stored, or the committed one that made it fail.  Between a mark and the *)
(* commit lie two validations, a row lock and an index entry, each of      *)
(* which can fail after others changed what the search saw; some failures  *)
(* are answered and the rest committed, so no error may burn a number      *)
(* (network_number.py l.67-69, node.py l.143-155, the form's handlers      *)
(* l.596-640).  What it does not say: that the node still has the number   *)
(* when the commit is done.  A save that clears an active node's number    *)
(* (see NumbersImmutable) can come in between.                             *)
Marked(i) == installsW[i].status = "NN_REASSIGNED" /\ installs[i].status # "NN_REASSIGNED"

NoBurnedNumber ==
  [][\A p \in Proc, i \in Installs :
       pc[p] # "commit" /\ pc'[p] = "commit" /\ installLock'[i] = p /\ Marked(i)'
         => \E n \in Node : nodesW'[n].nn = i]_vars

(* An active install never loses its number to a node of others            *)
(* (network_number.py l.61-65): of forms and node saves, that is.  An      *)
(* editor who saves a row read before can set any status.                  *)
ActiveNeverRecycled ==
  [][\A i \in Installs :
       installs[i].status = "ACTIVE" => installs'[i].status # "NN_REASSIGNED"]_vars

(* A network number is immutable once set (node.py l.135-141, and          *)
(* test_node.py l.291-310 for a number that is cleared).                   *)
NumbersImmutable == [][\A n \in Node : nodes[n].nn # Null => nodes'[n].nn = nodes[n].nn]_vars

(* Two requests for different installs both succeed: none is answered with *)
(* an error because the other got the same number (test_nn.py l.793-).     *)
NoFormLosesARace == \A p \in Proc : IsForm(p) => reply[p] \notin {"500", "ValueError", "ValidationError"}

(* Every submitted request is answered, whatever locks it has to wait for. *)
Busy(p) == pc[p] \notin {"idle", "edit", "editInstall"}

EveryRequestAnswered == \A p \in Proc : Busy(p) ~> ~Busy(p)

(* Served one at a time, the requests do what the registry says: each is   *)
(* one step of it, or changes nothing.                                     *)
Registry == INSTANCE NNRegistry WITH nodes <- nodes, installs <- installs, primary <- primary

ImplementsRegistry == Registry!Spec
=============================================================================
