------------------------------- MODULE JoinForm -------------------------------
(***************************************************************************)
(* Join requests.  A browser stores a PRE record of a submission in a      *)
(* bucket, posts the submission to the join form, and stores a POST record *)
(* with the answer.  The form finds or makes a member, a building and an   *)
(* install, each saved on its own: there is no transaction, and a worker   *)
(* that dies leaves behind what it has saved.  An advisory lock keeps form *)
(* requests apart.  The command replay_join_records runs the same code,    *)
(* without the lock, on the records that have no install.                  *)
(*                                                                         *)
(* A step is one database statement, or several that nobody can tell       *)
(* apart.  Rows are numbered in the order they are made.  Of a row, only   *)
(* the columns by which rows find each other are kept.                     *)
(***************************************************************************)
EXTENDS Integers, Sequences, FiniteSets

CONSTANTS
  Form, Replay,   \* workers serving the join form; runs of the command
  Sub,            \* submissions, with email, address, unit and flaw
  Email, Address, Unit, BinOf, \* what they may say; an address's structure (BIN)
  Node,           \* nodes that stand on buildings
  Start,          \* the databases and submissions to start from
  MaxFaults,      \* bound: crashes, API failures, lost records and answers
  MaxRuns,        \* bound: how often the command is run
  Null, NoProc

Proc == Form \cup Replay

(* What is wrong with a submission: nothing; an address the geocoder writes *)
(* differently; an address or an email it refuses; a null roof_access.      *)
Flaw == {"none", "spelling", "invalid", "null"}

Submission  == [email : Email, address : Address, unit : Unit, flaw : Flaw]
MemberRow   == [email : Email, live : BOOLEAN]
BuildingRow == [address : Address, primary : Node \cup {Null}, nodes : SUBSET Node, live : BOOLEAN]
InstallRow  == [member : Nat, building : Nat, unit : Unit, open : BOOLEAN, node : Node \cup {Null}]
JoinRecord  == [code : {200, 201, 400, 409, 500, Null}, install : Nat \cup {Null}]

ASSUME JoinAssumption ==
  /\ \A s \in Start : /\ s.members \in Seq(MemberRow) /\ s.buildings \in Seq(BuildingRow)
                      /\ s.installs \in Seq(InstallRow) /\ s.submission \in [Sub -> Submission]
  /\ DOMAIN BinOf = Address
  /\ Form \cap Replay = {} /\ NoProc \notin Proc
  /\ Null \notin Node \cup Sub \cup Nat /\ MaxFaults \in Nat /\ MaxRuns \in Nat

OneMember(people) ==
  \A i, j \in DOMAIN people :
     people[i].live /\ people[j].live /\ people[i].email = people[j].email => i = j

OneBuilding(houses) ==
  \A i, j \in DOMAIN houses :
     houses[i].live /\ houses[j].live /\ houses[i].address = houses[j].address => i = j

OneRequest(requests) ==
  \A i, j \in DOMAIN requests :
     /\ requests[i].open /\ requests[j].open
     /\ requests[i].member = requests[j].member
     /\ requests[i].building = requests[j].building
     /\ requests[i].unit = requests[j].unit
     => i = j

(* The databases to start from are as the form leaves them.                *)
ASSUME StartAssumption ==
  \A s \in Start :
    /\ OneMember(s.members) /\ OneBuilding(s.buildings) /\ OneRequest(s.installs)
    /\ \A i \in DOMAIN s.members : s.members[i].live
    /\ \A i \in DOMAIN s.buildings : /\ s.buildings[i].live
                                    /\ s.buildings[i].primary \in s.buildings[i].nodes \cup {Null}
    /\ \A i \in DOMAIN s.installs :
         /\ s.installs[i].member \in DOMAIN s.members /\ s.installs[i].building \in DOMAIN s.buildings
         /\ \A j \in DOMAIN s.buildings :
              BinOf[s.buildings[j].address] = BinOf[s.buildings[s.installs[i].building].address]
                => s.buildings[j].nodes \subseteq s.buildings[s.installs[i].building].nodes

VARIABLES
  members,    \* rows: email, live
  buildings,  \* rows: address, primary, nodes, live
  installs,   \* rows: member, building, unit, open (REQUEST_RECEIVED), node
  submission, \* what each submission says; never changes
  stage,      \* new, sent, confirmed (sent again with the answer's address) or done
  pre, post,  \* the bucket: stored PRE records; POST records by submission
  lock,       \* who holds "join_form_lock"
  pc, mem,    \* a process's step, and its local variables
  todo,       \* join_records_to_replay of a command
  faults, runs,
  overlap     \* history: a replay has processed a record while a form or a replay was

rows == <<members, buildings, installs>>
bucket == <<pre, post>>
vars == <<rows, submission, stage, bucket, lock, pc, mem, todo, faults, runs, overlap>>

NoMemory == [sub |-> Null, confirmed |-> FALSE, member |-> 0, building |-> 0,
             primary |-> Null, nodes |-> {}, created |-> FALSE,
             code |-> Null, install |-> Null]

NoRecord == [code |-> Null, install |-> Null]

Init ==
  /\ \E s \in Start : /\ members = s.members /\ buildings = s.buildings
                      /\ installs = s.installs /\ submission = s.submission
  /\ stage = [s \in Sub |-> "new"]
  /\ pre = {} /\ post = [s \in Sub |-> NoRecord]
  /\ lock = NoProc
  /\ pc = [p \in Proc |-> "idle"]
  /\ mem = [p \in Proc |-> NoMemory]
  /\ todo = [p \in Replay |-> {}]
  /\ faults = 0 /\ runs = 0
  /\ overlap = FALSE

-----------------------------------------------------------------------------
Goto(p, label) == pc' = [pc EXCEPT ![p] = label]

Said(p) == submission[mem[p].sub]

Fault == faults < MaxFaults /\ faults' = faults + 1

Processing(p) == pc[p] \notin {"idle", "lock", "answered", "next"}

Begin(p, s, confirmed) ==
  /\ mem' = [mem EXCEPT ![p] = [NoMemory EXCEPT !.sub = s, !.confirmed = confirmed]]
  /\ overlap' = (overlap \/ \E q \in Proc \ {p} : Processing(q) /\ ~({p, q} \subseteq Form))

(***************************************************************************)
(* The browser.                                                            *)
(***************************************************************************)
Submit(s) ==
  /\ stage[s] = "new"
  /\ stage' = [stage EXCEPT ![s] = "sent"]
  /\ \/ pre' = pre \cup {s} /\ UNCHANGED faults
     \/ Fault /\ UNCHANGED pre
  /\ UNCHANGED <<rows, submission, post, lock, pc, mem, todo, runs, overlap>>

(* advisory_lock("join_form_lock") and join_form. *)
Receive(p, s) ==
  /\ p \in Form /\ pc[p] = "idle"
  /\ stage[s] \in {"sent", "confirmed"} /\ \A q \in Form : mem[q].sub # s
  /\ mem' = [mem EXCEPT ![p] = [NoMemory EXCEPT !.sub = s, !.confirmed = stage[s] = "confirmed"]]
  /\ Goto(p, "lock")
  /\ UNCHANGED <<rows, submission, stage, bucket, lock, todo, faults, runs, overlap>>

(* Variant: the lock keeps nobody out. *)
Unguarded == TRUE

LockFree == lock = NoProc

AcquireLock(p) ==
  /\ pc[p] = "lock" /\ LockFree
  /\ lock' = p
  /\ Begin(p, mem[p].sub, mem[p].confirmed)
  /\ Goto(p, "member")
  /\ UNCHANGED <<rows, submission, stage, bucket, todo, faults, runs>>

(***************************************************************************)
(* process_join_form.                                                      *)
(***************************************************************************)
Answer(p, code, i) ==
  /\ mem' = [mem EXCEPT ![p].code = code, ![p].install = i]
  /\ Goto(p, "answered")

(* Variant: installs that are not open protect nothing. *)
ProtectedIfOpen(column, i) == \E j \in DOMAIN installs : installs[j].open /\ installs[j][column] = i

(* on_delete=PROTECT *)
Protected(column, i) == \E j \in DOMAIN installs : installs[j][column] = i

(* A member is looked up by primary email address; 0 stands for a new one. *)
Known(email) == {i \in DOMAIN members : members[i].live /\ members[i].email = email}

(* The license, the email, the phone number and the address are checked,   *)
(* and the member is looked up.                                            *)
FindMember(p) ==
  /\ pc[p] = "member"
  /\ \/ /\ Said(p).flaw = "invalid"
        /\ Answer(p, 400, Null)
        /\ UNCHANGED faults
     \/ /\ Said(p).flaw = "spelling" /\ ~mem[p].confirmed
        /\ Answer(p, 409, Null)
        /\ UNCHANGED faults
     \/ /\ Said(p).flaw \in {"none", "null"} \/ (Said(p).flaw = "spelling" /\ mem[p].confirmed)
        /\ \/ Known(Said(p).email) = {} /\ UNCHANGED mem
           \/ \E i \in Known(Said(p).email) : mem' = [mem EXCEPT ![p].member = i]
        /\ Goto(p, "structure")
        /\ UNCHANGED faults
     \/ /\ Fault
        /\ Answer(p, 500, Null)
  /\ UNCHANGED <<rows, submission, stage, bucket, lock, todo, runs, overlap>>

Structure(address) ==
  {i \in DOMAIN buildings : buildings[i].live /\ BinOf[buildings[i].address] = BinOf[address]}

(* The nodes of all buildings with the BIN, and one of their primary nodes: *)
(* the first element of a set in which None may be.                         *)
FindStructure(p) ==
  /\ pc[p] = "structure"
  /\ LET S == Structure(Said(p).address) IN
     \/ S = {} /\ UNCHANGED mem
     \/ \E i \in S : mem' = [mem EXCEPT ![p].nodes = UNION {buildings[j].nodes : j \in S},
                                        ![p].primary = buildings[i].primary]
  /\ Goto(p, "building")
  /\ UNCHANGED <<rows, submission, stage, bucket, lock, todo, faults, runs, overlap>>

Exact(address) == {i \in Structure(address) : buildings[i].address = address}

FindBuilding(p) ==
  /\ pc[p] = "building"
  /\ \/ /\ Exact(Said(p).address) = {}
        /\ mem' = [mem EXCEPT ![p].created = TRUE]
     \/ \E i \in Exact(Said(p).address) :
          mem' = [mem EXCEPT ![p].building = i,
                             ![p].primary = IF buildings[i].primary # Null
                                            THEN buildings[i].primary ELSE @]
  /\ Goto(p, "install")
  /\ UNCHANGED <<rows, submission, stage, bucket, lock, todo, faults, runs, overlap>>

(* Variant: everybody's installs. *)
OfAnybody(p) ==
  {i \in DOMAIN installs :
     /\ installs[i].open /\ installs[i].unit = Said(p).unit
     /\ installs[i].building = mem[p].building}

Open(p) ==
  {i \in DOMAIN installs :
     /\ installs[i].open /\ installs[i].unit = Said(p).unit
     /\ installs[i].member = mem[p].member /\ installs[i].building = mem[p].building}

FindInstall(p) ==
  /\ pc[p] = "install"
  /\ \/ \E i \in Open(p) : Answer(p, 200, i)
     \/ Open(p) = {} /\ Goto(p, "saveMember") /\ UNCHANGED mem
  /\ UNCHANGED <<rows, submission, stage, bucket, lock, todo, faults, runs, overlap>>

(* save(): an UPDATE of the row, or an INSERT if there is none, also when  *)
(* the row has been deleted since it was read.                             *)
SaveMember(p) ==
  /\ pc[p] = "saveMember"
  /\ \/ /\ mem[p].member = 0
        /\ members' = Append(members, [email |-> Said(p).email, live |-> TRUE])
        /\ mem' = [mem EXCEPT ![p].member = Len(members) + 1]
     \/ /\ mem[p].member # 0
        /\ members' = [members EXCEPT ![mem[p].member].live = TRUE]
        /\ UNCHANGED mem
  /\ Goto(p, "saveBuilding")
  /\ UNCHANGED <<buildings, installs, submission, stage, bucket, lock, todo, faults, runs, overlap>>

SaveBuilding(p) ==
  /\ pc[p] = "saveBuilding"
  /\ \/ /\ mem[p].building = 0
        /\ buildings' = Append(buildings, [address |-> Said(p).address, primary |-> mem[p].primary,
                                           nodes |-> {}, live |-> TRUE])
        /\ mem' = [mem EXCEPT ![p].building = Len(buildings) + 1]
     \/ /\ mem[p].building # 0
        /\ buildings' = [buildings EXCEPT ![mem[p].building].primary = mem[p].primary,
                                          ![mem[p].building].live = TRUE]
        /\ UNCHANGED mem
  /\ Goto(p, "addNodes")
  /\ UNCHANGED <<members, installs, submission, stage, bucket, lock, todo, faults, runs, overlap>>

(* Building.save adds the primary node, the form all nodes of the          *)
(* structure.                                                              *)
(* Variant: nodes are added to new buildings only. *)
MissingIfNew(p) == IF mem[p].created THEN mem[p].nodes \cup ({mem[p].primary} \ {Null}) ELSE {}

Missing(p) == mem[p].nodes \cup ({mem[p].primary} \ {Null})

AddNodes(p) ==
  /\ pc[p] = "addNodes"
  /\ \/ /\ Missing(p) = {} \/ buildings[mem[p].building].live
        /\ buildings' = [buildings EXCEPT ![mem[p].building].nodes = @ \cup Missing(p)]
        /\ Goto(p, "saveInstall")
        /\ UNCHANGED mem
     \/ /\ Missing(p) # {} /\ ~buildings[mem[p].building].live
        /\ mem' = [mem EXCEPT ![p].created = FALSE]   \* the building is not deleted here
        /\ Goto(p, "deleteMember")
        /\ UNCHANGED buildings
  /\ UNCHANGED <<members, installs, submission, stage, bucket, lock, todo, faults, runs, overlap>>

(* An IntegrityError: a null column, or a reference to a deleted row.      *)
Refused(p) ==
  \/ Said(p).flaw = "null"
  \/ ~members[mem[p].member].live
  \/ ~buildings[mem[p].building].live

SaveInstall(p) ==
  /\ pc[p] = "saveInstall"
  /\ \/ /\ ~Refused(p)
        /\ installs' = Append(installs, [member |-> mem[p].member, building |-> mem[p].building,
                                         unit |-> Said(p).unit, open |-> TRUE, node |-> mem[p].primary])
        /\ mem' = [mem EXCEPT ![p].install = Len(installs) + 1]
        /\ Goto(p, "ticket")
     \/ /\ Refused(p)
        /\ Goto(p, "deleteMember")
        /\ UNCHANGED <<installs, mem>>
  /\ UNCHANGED <<members, buildings, submission, stage, bucket, lock, todo, faults, runs, overlap>>

(* An uncaught exception: a 500 for the browser; the command dies.         *)
Escape(p) ==
  \/ /\ p \in Form
     /\ Answer(p, 500, Null)
     /\ UNCHANGED todo
  \/ /\ p \in Replay
     /\ mem' = [mem EXCEPT ![p] = NoMemory]
     /\ todo' = [todo EXCEPT ![p] = {}]
     /\ Goto(p, "idle")

(* The receivers of the install's post_save: they call Slack and OSTicket, *)
(* and if there is a ticket, its number is saved with the whole row as it  *)
(* was read before the call.  A failed call escapes; the install stays.    *)
CreateTicket(p) ==
  /\ pc[p] = "ticket"
  /\ \/ /\ \/ UNCHANGED installs
           \/ installs' = [installs EXCEPT ![mem[p].install].open = TRUE]
        /\ Answer(p, 201, mem[p].install)
        /\ UNCHANGED <<todo, faults>>
     \/ /\ Fault
        /\ Escape(p)
        /\ UNCHANGED installs
  /\ UNCHANGED <<members, buildings, submission, stage, bucket, lock, runs, overlap>>

DeleteMember(p) ==
  /\ pc[p] = "deleteMember"
  /\ \/ /\ Protected("member", mem[p].member)
        /\ Escape(p)
        /\ UNCHANGED members
     \/ /\ ~Protected("member", mem[p].member)
        /\ members' = [members EXCEPT ![mem[p].member].live = FALSE]
        /\ IF mem[p].created THEN Goto(p, "deleteBuilding") /\ UNCHANGED mem
                             ELSE Answer(p, 400, Null)
        /\ UNCHANGED todo
  /\ UNCHANGED <<buildings, installs, submission, stage, bucket, lock, faults, runs, overlap>>

DeleteBuilding(p) ==
  /\ pc[p] = "deleteBuilding"
  /\ \/ /\ Protected("building", mem[p].building)
        /\ Escape(p)
        /\ UNCHANGED buildings
     \/ /\ ~Protected("building", mem[p].building)
        /\ buildings' = [buildings EXCEPT ![mem[p].building].live = FALSE,
                                          ![mem[p].building].nodes = {}]
        /\ Answer(p, 400, Null)
        /\ UNCHANGED todo
  /\ UNCHANGED <<members, installs, submission, stage, bucket, lock, faults, runs, overlap>>

(***************************************************************************)
(* The answer, seen by the browser.  It confirms a 409, or gives up; the   *)
(* POST record or the answer may be lost.                                  *)
(***************************************************************************)
Release(p) ==
  /\ lock' = IF lock = p THEN NoProc ELSE lock
  /\ mem' = [mem EXCEPT ![p] = NoMemory]
  /\ Goto(p, "idle")

Respond(p) ==
  /\ p \in Form /\ pc[p] = "answered"
  /\ LET s == mem[p].sub IN
     \/ /\ mem[p].code = 409
        /\ stage' = [stage EXCEPT ![s] = "confirmed"]
        /\ UNCHANGED <<post, faults>>
     \/ /\ stage' = [stage EXCEPT ![s] = "done"]
        /\ post' = [post EXCEPT ![s] = [code |-> mem[p].code, install |-> mem[p].install]]
        /\ UNCHANGED faults
     \/ /\ stage' = [stage EXCEPT ![s] = "done"]
        /\ Fault
        /\ UNCHANGED post
  /\ Release(p)
  /\ UNCHANGED <<rows, submission, pre, todo, runs, overlap>>

(* A worker or the command dies; PostgreSQL releases the session's lock.   *)
Crash(p) ==
  /\ pc[p] # "idle" /\ Fault
  /\ \/ /\ p \in Form
        /\ stage' = [stage EXCEPT ![mem[p].sub] = "done"]
        /\ UNCHANGED todo
     \/ /\ p \in Replay
        /\ todo' = [todo EXCEPT ![p] = {}]
        /\ UNCHANGED stage
  /\ Release(p)
  /\ UNCHANGED <<rows, submission, bucket, runs, overlap>>

(***************************************************************************)
(* replay_join_records --write.                                            *)
(***************************************************************************)
Stored == {s \in Sub : s \in pre \/ post[s].code # Null}

(* Variant: errors of the server are not replayed. *)
AnyError(s) == post[s].install # Null \/ post[s].code \in {400, 409, 500}

(* filter_irrelevant_record *)
Irrelevant(s) == post[s].install # Null \/ post[s].code \in {400, 409}

ListRecords(p) ==
  /\ p \in Replay /\ pc[p] = "idle" /\ runs < MaxRuns
  /\ runs' = runs + 1
  /\ {s \in Stored : ~Irrelevant(s)} # {}
  /\ todo' = [todo EXCEPT ![p] = {s \in Stored : ~Irrelevant(s)}]
  /\ Goto(p, "next")
  /\ UNCHANGED <<rows, submission, stage, bucket, lock, mem, faults, overlap>>

NextRecord(p) ==
  /\ p \in Replay /\ pc[p] = "next"
  /\ \/ /\ todo[p] = {}
        /\ Goto(p, "idle")
        /\ UNCHANGED <<mem, todo, overlap>>
     \/ \E s \in todo[p] :
        /\ todo' = [todo EXCEPT ![p] = @ \ {s}]
        /\ Begin(p, s, FALSE)
        /\ Goto(p, "member")
  /\ UNCHANGED <<rows, submission, stage, bucket, lock, faults, runs>>

(* A 409 is accepted or rejected, and resubmitted, or skipped.  Anything   *)
(* else goes into the POST record; upload() swallows errors.               *)
Record(p) ==
  /\ p \in Replay /\ pc[p] = "answered"
  /\ \/ /\ mem[p].code = 409 /\ ~mem[p].confirmed
        /\ Begin(p, mem[p].sub, TRUE)
        /\ Goto(p, "member")
        /\ UNCHANGED <<post, faults>>
     \/ /\ mem[p].code = 409 /\ ~mem[p].confirmed
        /\ mem' = [mem EXCEPT ![p] = NoMemory]
        /\ Goto(p, "next")
        /\ UNCHANGED <<post, faults, overlap>>
     \/ /\ mem[p].code # 409
        /\ \/ /\ post' = [post EXCEPT ![mem[p].sub] =
                            [code    |-> mem[p].code,
                             install |-> IF mem[p].install # Null THEN mem[p].install ELSE @.install]]
              /\ UNCHANGED faults
           \/ Fault /\ UNCHANGED post
        /\ mem' = [mem EXCEPT ![p] = NoMemory]
        /\ Goto(p, "next")
        /\ UNCHANGED overlap
  /\ UNCHANGED <<rows, submission, stage, pre, lock, todo, runs>>

(* Somebody works on a request: its install is not REQUEST_RECEIVED any    *)
(* more (the network number form, the admin site).                         *)
Progress(i) ==
  /\ installs[i].open
  /\ installs' = [installs EXCEPT ![i].open = FALSE]
  /\ UNCHANGED <<members, buildings, submission, stage, bucket, lock, pc, mem, todo, faults, runs, overlap>>

-----------------------------------------------------------------------------
Process(p) ==
  \/ FindMember(p) \/ FindStructure(p) \/ FindBuilding(p) \/ FindInstall(p)
  \/ SaveMember(p) \/ SaveBuilding(p) \/ AddNodes(p) \/ SaveInstall(p)
  \/ CreateTicket(p) \/ DeleteMember(p) \/ DeleteBuilding(p)

Next ==
  \/ \E s \in Sub : Submit(s) \/ \E p \in Proc : Receive(p, s)
  \/ \E p \in Proc : \/ AcquireLock(p) \/ Process(p) \/ Respond(p)
                     \/ ListRecords(p) \/ NextRecord(p) \/ Record(p) \/ Crash(p)
  \/ \E i \in DOMAIN installs : Progress(i)

Spec == Init /\ [][Next]_vars

-----------------------------------------------------------------------------
Label == {"idle", "lock", "member", "structure", "building", "install", "saveMember",
          "saveBuilding", "addNodes", "saveInstall", "ticket", "deleteMember", "deleteBuilding",
          "answered", "next"}

(* Every variable keeps its type, and rows refer to rows. *)
TypeOK ==
  /\ members \in Seq(MemberRow) /\ buildings \in Seq(BuildingRow) /\ installs \in Seq(InstallRow)
  /\ submission \in [Sub -> Submission] /\ post \in [Sub -> JoinRecord]
  /\ todo \in [Replay -> SUBSET Sub]
  /\ pc \in [Proc -> Label] /\ lock \in Form \cup {NoProc}
  /\ stage \in [Sub -> {"new", "sent", "confirmed", "done"}]
  /\ pre \subseteq Sub /\ faults \in 0 .. MaxFaults /\ runs \in 0 .. MaxRuns /\ overlap \in BOOLEAN
  /\ \A p \in Proc : /\ mem[p].member \in {0} \cup DOMAIN members
                     /\ mem[p].building \in {0} \cup DOMAIN buildings
                     /\ mem[p].sub \in Sub \cup {Null}
                     /\ Processing(p) => mem[p].sub # Null
  /\ \A i \in DOMAIN installs : /\ installs[i].member \in DOMAIN members
                                /\ installs[i].building \in DOMAIN buildings
  /\ \A s \in Sub : post[s].install \in {Null} \cup DOMAIN installs

(* No sequence of form requests, errors, crashes, resubmissions and        *)
(* replays makes two members with one email address, two buildings of one  *)
(* structure and address, or two open requests of a member for a unit, as  *)
(* long as no replay runs beside it (forms.py l.228-238, l.268-273,  *)
(* l.303-328, test_join_form.py l.1435).                                   *)
NothingTwice == ~overlap => OneMember(members) /\ OneBuilding(buildings) /\ OneRequest(installs)

(* The clean-up after an error never takes away the member or the building *)
(* of an install, its own or another's, even beside a replay (forms.py     *)
(* l.362-380).                                                             *)
InstallsKeepTheirRows ==
  \A i \in DOMAIN installs :
     members[installs[i].member].live /\ buildings[installs[i].building].live

(* An install is only stored for a building that shares the nodes of its   *)
(* structure, also if an earlier attempt left the building without them    *)
(* (forms.py l.357-361, building.py l.108-114).                            *)
NodesShared ==
  \A i \in DOMAIN installs : \A j \in Structure(buildings[installs[i].building].address) :
     buildings[j].nodes \subseteq buildings[installs[i].building].nodes

(* The install that a submission asks for is there, open or not. *)
Serves(i, s) ==
  /\ i \in DOMAIN installs
  /\ members[installs[i].member].email = submission[s].email
  /\ buildings[installs[i].building].address = submission[s].address
  /\ installs[i].unit = submission[s].unit

Served(s) == \E i \in DOMAIN installs : Serves(i, s)

(* A sound submission that left a record is served, or is still among the  *)
(* records to replay, whatever failed (replay_join_records.py l.180-189,   *)
(* join_records.py l.143-175).                                             *)
Replayable ==
  ~overlap => \A s \in Stored :
     /\ submission[s].flaw = "none" /\ stage[s] = "done"
     /\ \A p \in Proc : mem[p].sub # s
     => Served(s) \/ ~Irrelevant(s)

(* The install that an answer names is the one asked for: it belongs to    *)
(* the submission's person, stands in its building and is for its unit     *)
(* when the answer is given (forms.py l.317-328, l.436-449), and so does   *)
(* the one that a stored record names, at any time after.                  *)
AnswerTrue ==
  /\ \A p \in Proc : pc[p] = "answered" /\ mem[p].install # Null
       => Serves(mem[p].install, mem[p].sub)
  /\ \A s \in Sub : post[s].install # Null => Serves(post[s].install, s)
=============================================================================
