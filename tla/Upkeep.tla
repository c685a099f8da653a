-------------------------------- MODULE Upkeep --------------------------------
(***************************************************************************)
(* The tasks that keep the database: the panorama sync, the database       *)
(* backup and the reset of a development database, which restores the      *)
(* newest backup and scrambles it, with the flags that switch them on and  *)
(* the maintenance mode in which no request is served.  The flags are rows *)
(* of the same database.  Celery's workers take tasks off one queue; beat  *)
(* puts them there, and a worker that dies loses its task.                 *)
(*                                                                         *)
(* A row is read, and later saved whole.  Of its columns, a row has here   *)
(* its panoramas and what it still holds of production's.                  *)
(***************************************************************************)
EXTENDS Integers, Sequences, FiniteSets, SequencesExt

CONSTANTS
  Worker, Request,  \* celery's workers; requests of admins and API clients
  Row,
  Tables,           \* those that are scrambled, table by table; the histories of
                    \* all rows, and what is billed for installs, are in none
  File,             \* pictures in the GitHub repository, ever
  Keys,             \* their install and network numbers in the order of the listing
  FilesOf,          \* the files of each number
  BuildingOf,       \* the building of the install, or of the node's first
                    \* install; Null: there is no such install, node, or any
  Start,            \* the databases, backups and repositories to start from
  MaxQueue, MaxFails, MaxEdits, MaxResets,  \* bounds: tasks waiting, errors
                    \* and deaths, requests that save, resets
  Null

Scrambled == UNION Range(Tables)
Key == Range(Keys)
Building == Range(BuildingOf) \ {Null}
Task == {"panoramas", "import", "backup", "reset"}
Flag == Task \cup {"maintenance"}
Actor == Worker \cup Request

(* Production's names, notes and dates, and its street numbers: numbers,   *)
(* and ranges such as 31-16, which are none.                               *)
Private == {"text", "number", "range"}

(* The panoramas of a row may be null.                                     *)
Panoramas == (SUBSET File) \cup {Null}
Database == [rows : [Row -> [private : SUBSET Private, panos : Panoramas]], flags : SUBSET Flag]

ASSUME UpkeepAssumption ==
  /\ Null \notin Actor /\ Keys \in Seq(Key) /\ Tables \in Seq(SUBSET Row)
  /\ FilesOf \in [Key -> (SUBSET File) \ {{}}]
  /\ DOMAIN BuildingOf = Key /\ Building \subseteq Row
  /\ \A s \in Start : s.db \in Database /\ s.backup \in Database /\ s.files \subseteq File
  /\ {MaxQueue, MaxFails, MaxEdits, MaxResets} \subseteq Nat

VARIABLES
  rows, flags,  \* the database
  backup,       \* the newest one in meshdb-backups/prod/
  files,        \* in the repository
  queue,        \* tasks
  lock,         \* who holds update_panoramas_lock
  pc, mem,      \* an actor's step, and its local variables
  fails, edits, resets,
  stale,        \* history: whose rows in hand were saved by a request or a reset
  by,           \* history: who turned the maintenance mode on
  failed,       \* history: a reset has failed
  crossed       \* history: a row read before it was scrambled has been saved since

database == <<rows, flags>>
bounds == <<fails, edits, resets>>
vars == <<database, backup, files, queue, lock, pc, mem, bounds, stale, by, failed, crossed>>

NoMemory == [todo |-> <<>>, files |-> {}, tries |-> 0, hand |-> <<>>]

Init ==
  /\ \E s \in Start : rows = s.db.rows /\ flags = s.db.flags /\ backup = s.backup /\ files = s.files
  /\ queue = <<>> /\ lock = Null
  /\ pc = [a \in Actor |-> "idle"] /\ mem = [a \in Actor |-> NoMemory]
  /\ fails = 0 /\ edits = 0 /\ resets = 0
  /\ stale = {} /\ by = Null /\ failed = FALSE /\ crossed = FALSE

-----------------------------------------------------------------------------
Goto(a, label) == pc' = [pc EXCEPT ![a] = label]

Keep(a, m) == mem' = [mem EXCEPT ![a] = m]

InHand(a) == DOMAIN mem[a].hand

Take(a, S, m) ==
  /\ Keep(a, [m EXCEPT !.hand = [r \in S |-> rows[r]]])
  /\ stale' = stale \ {a}

(* A row that has not been scrambled; ranges are never.                    *)
Exposed(row) == row.private \ {"range"} # {}

(* The rows in hand, with what New makes of them, take the place of        *)
(* whatever has been saved since they were read.                           *)
Save(a, New(_)) ==
  /\ rows' = [r \in Row |-> IF r \in InHand(a) THEN New(mem[a].hand[r]) ELSE rows[r]]
  /\ crossed' = (crossed \/ \E r \in Scrambled : Exposed(rows'[r]) /\ ~Exposed(rows[r]))

(* The others that hold a row of S.                                        *)
Overtaken(a, S) == {c \in Actor \ {a} : InHand(c) \cap S # {}}

Done(w) ==
  /\ Goto(w, "idle") /\ Keep(w, NoMemory)
  /\ lock' = IF lock = w THEN Null ELSE lock

(***************************************************************************)
(* Beat, the queue and its workers.                                        *)
(***************************************************************************)
Enqueue(t) ==
  /\ Len(queue) < MaxQueue /\ queue' = Append(queue, t)
  /\ UNCHANGED <<database, backup, files, lock, pc, mem, fails, edits, stale, by, failed, crossed>>

(* The daily entry run-reset-dev-database-daily names run_database_backup. *)
Beat == \E t \in Task \ {"reset"} : t \notin Range(queue) /\ Enqueue(t) /\ UNCHANGED resets

(* So somebody has to ask for a reset.                                     *)
AskReset == resets < MaxResets /\ resets' = resets + 1 /\ Enqueue("reset")

(* skip_if_flag_disabled *)
StartTask(w) ==
  /\ pc[w] = "idle" /\ queue # <<>>
  /\ queue' = Tail(queue)
  /\ Goto(w, IF Head(queue) \in flags THEN Head(queue) ELSE "idle")
  /\ UNCHANGED <<database, backup, files, lock, mem, bounds, stale, by, failed, crossed>>

(* Variant: the lock of the sync is not given back. *)
FailLocked(w) ==
  /\ pc[w] # "idle" /\ fails < MaxFails /\ fails' = fails + 1
  /\ failed' = (failed \/ pc[w] \in {"reset", "restore", "scramble", "scrambling"})
  /\ Goto(w, "idle") /\ Keep(w, NoMemory)
  /\ UNCHANGED <<database, backup, files, queue, lock, edits, resets, stale, by, crossed>>

(* An exception ends the task, or the worker dies; the lock goes with the  *)
(* session.  GitHub's timeouts are exceptions, too.                        *)
Fail(w) ==
  /\ pc[w] # "idle" /\ fails < MaxFails /\ fails' = fails + 1
  /\ failed' = (failed \/ pc[w] \in {"reset", "restore", "scramble", "scrambling"})
  /\ Done(w)
  /\ UNCHANGED <<database, backup, files, queue, edits, resets, stale, by, crossed>>

(***************************************************************************)
(* sync_github_panoramas.                                                  *)
(***************************************************************************)
Publish(f) ==
  /\ f \notin files /\ files' = files \cup {f}
  /\ UNCHANGED <<database, backup, queue, lock, pc, mem, bounds, stale, by, failed, crossed>>

(* Variant: the lock is shared. *)
LockShared(w) ==
  /\ pc[w] = "panoramas"
  /\ lock' = w /\ Goto(w, "github") /\ Keep(w, [NoMemory EXCEPT !.tries = 3])
  /\ UNCHANGED <<database, backup, files, queue, bounds, stale, by, failed, crossed>>

(* advisory_lock("update_panoramas_lock") *)
Lock(w) ==
  /\ pc[w] = "panoramas" /\ lock = Null
  /\ lock' = w /\ Goto(w, "github") /\ Keep(w, [NoMemory EXCEPT !.tries = 3])
  /\ UNCHANGED <<database, backup, files, queue, bounds, stale, by, failed, crossed>>

(* get_head_tree_sha and list_files_in_git_directory: an answer that is    *)
(* not 200, or without files, is as good as none.                          *)
Answered == files # {}

(* Three attempts.                                                         *)
List(w) ==
  /\ pc[w] = "github"
  /\ \/ /\ Answered
        /\ Keep(w, [mem[w] EXCEPT !.files = files, !.todo = Keys])
        /\ Goto(w, "keys") /\ UNCHANGED <<lock, fails>>
     \/ /\ ~Answered /\ fails' = fails
        /\ IF mem[w].tries = 1 THEN Done(w)
           ELSE Keep(w, [mem[w] EXCEPT !.tries = @ - 1]) /\ UNCHANGED <<pc, lock>>
     \/ /\ Answered /\ mem[w].tries > 1 /\ fails < MaxFails /\ fails' = fails + 1
        /\ Keep(w, [mem[w] EXCEPT !.tries = @ - 1]) /\ UNCHANGED <<pc, lock>>
  /\ UNCHANGED <<database, backup, files, queue, edits, resets, stale, by, failed, crossed>>

New(w) == FilesOf[Head(mem[w].todo)] \cap mem[w].files

(* set_panoramas: no install, node or files with the number: next.         *)
ReadBuilding(w) ==
  /\ pc[w] = "keys" /\ mem[w].todo # <<>>
  /\ IF BuildingOf[Head(mem[w].todo)] = Null \/ New(w) = {}
     THEN Keep(w, [mem[w] EXCEPT !.todo = Tail(@)]) /\ UNCHANGED <<pc, stale>>
     ELSE Take(w, {BuildingOf[Head(mem[w].todo)]}, mem[w]) /\ Goto(w, "save")
  /\ UNCHANGED <<database, backup, files, queue, lock, bounds, by, failed, crossed>>

(* save_building_panoramas: unchanged panoramas are not saved, null ones   *)
(* raise; the next number follows.                                         *)
SaveBuilding(w) ==
  /\ pc[w] = "save"
  /\ LET panos == mem[w].hand[BuildingOf[Head(mem[w].todo)]].panos IN
     IF panos \in {Null, New(w)} THEN UNCHANGED <<rows, crossed>>
     ELSE Save(w, LAMBDA row : [row EXCEPT !.panos = @ \cup New(w)])
  /\ Keep(w, [mem[w] EXCEPT !.todo = Tail(@), !.hand = <<>>])
  /\ Goto(w, "keys")
  /\ UNCHANGED <<flags, backup, files, queue, lock, bounds, stale, by, failed>>

EndSync(w) ==
  /\ pc[w] = "keys" /\ mem[w].todo = <<>> /\ Done(w)
  /\ UNCHANGED <<database, backup, files, queue, bounds, stale, by, failed, crossed>>

(***************************************************************************)
(* run_database_backup, and the hourly import as far as rows are concerned.*)
(***************************************************************************)
Backup(w) ==
  /\ pc[w] = "backup" /\ Done(w)
  /\ backup' = [rows |-> rows, flags |-> flags]
  /\ UNCHANGED <<database, files, queue, bounds, stale, by, failed, crossed>>

ReadRow(w) ==
  /\ pc[w] = "import"
  /\ \E r \in Scrambled \ Building : Take(w, {r}, NoMemory)
  /\ Goto(w, "importing")
  /\ UNCHANGED <<database, backup, files, queue, lock, bounds, by, failed, crossed>>

SaveRow(w) ==
  /\ pc[w] = "importing" /\ Save(w, LAMBDA row : row) /\ Done(w)
  /\ UNCHANGED <<flags, backup, files, queue, bounds, stale, by, failed>>

(***************************************************************************)
(* reset_dev_database.                                                     *)
(***************************************************************************)
EnableMaintenance(w) ==
  /\ pc[w] = "reset" /\ Goto(w, "restore")
  /\ flags' = flags \cup {"maintenance"} /\ by' = "reset"
  /\ UNCHANGED <<rows, backup, files, queue, lock, mem, bounds, stale, failed, crossed>>

(* dbrestore is one transaction.  It brings the backup's flags.            *)
Restore(w) ==
  /\ pc[w] = "restore" /\ Goto(w, "scramble")
  /\ rows' = backup.rows /\ flags' = backup.flags
  /\ stale' = stale \cup Overtaken(w, Row)
  /\ Keep(w, [NoMemory EXCEPT !.todo = Tables])
  /\ UNCHANGED <<backup, files, queue, lock, bounds, by, failed, crossed>>

(* scramble_members: a table is a transaction; all its rows are read, then *)
(* each is saved.  Of what is private only a street number stays that int  *)
(* does not take.                                                          *)
ReadTable(w) ==
  /\ pc[w] = "scramble" /\ mem[w].todo # <<>> /\ Goto(w, "scrambling")
  /\ Take(w, Head(mem[w].todo), mem[w])
  /\ UNCHANGED <<database, backup, files, queue, lock, bounds, by, failed, crossed>>

(* Variant: the last table is left out. *)
SaveTableNotLast(w) ==
  /\ pc[w] = "scrambling"
  /\ IF Len(mem[w].todo) = 1 THEN UNCHANGED <<rows, crossed>>
     ELSE Save(w, LAMBDA row : [row EXCEPT !.private = @ \cap {"range"}])
  /\ stale' = stale \cup Overtaken(w, InHand(w))
  /\ Keep(w, [mem[w] EXCEPT !.todo = Tail(@), !.hand = <<>>])
  /\ Goto(w, "scramble")
  /\ UNCHANGED <<flags, backup, files, queue, lock, bounds, by, failed>>

SaveTable(w) ==
  /\ pc[w] = "scrambling"
  /\ Save(w, LAMBDA row : [row EXCEPT !.private = @ \cap {"range"}])
  /\ stale' = stale \cup Overtaken(w, InHand(w))
  /\ Keep(w, [mem[w] EXCEPT !.todo = Tail(@), !.hand = <<>>])
  /\ Goto(w, "scramble")
  /\ UNCHANGED <<flags, backup, files, queue, lock, bounds, by, failed>>

(* Variant: the mode is left on, as the restore has left it off. *)
LeaveMaintenance(w) ==
  /\ pc[w] = "scramble" /\ mem[w].todo = <<>> /\ Done(w)
  /\ UNCHANGED <<database, backup, files, queue, bounds, stale, by, failed, crossed>>

DisableMaintenance(w) ==
  /\ pc[w] = "scramble" /\ mem[w].todo = <<>> /\ Done(w)
  /\ flags' = flags \ {"maintenance"}
  /\ UNCHANGED <<rows, backup, files, queue, bounds, stale, by, failed, crossed>>

(***************************************************************************)
(* Requests.                                                               *)
(***************************************************************************)
(* MaintenanceModeMiddleware: no request but those that toggle the mode.   *)
Serve(q) ==
  /\ pc[q] = "idle" /\ "maintenance" \notin flags /\ edits < MaxEdits /\ edits' = edits + 1
  /\ Goto(q, "served")
  /\ UNCHANGED <<database, backup, files, queue, lock, mem, fails, resets, stale, by, failed, crossed>>

(* What has been let through reads on, whatever the mode is by then.       *)
ReadForm(q) ==
  /\ pc[q] = "served" /\ Goto(q, "edit")
  /\ \E r \in Row : Take(q, {r}, NoMemory)
  /\ UNCHANGED <<database, backup, files, queue, lock, bounds, by, failed, crossed>>

(* A form saves what it read, and with EDIT_PANORAMAS other panoramas.     *)
Edit(q) ==
  /\ pc[q] = "edit" /\ Goto(q, "idle") /\ Keep(q, NoMemory)
  /\ \E S \in {{}, File} : Save(q, LAMBDA row : IF row.panos = Null THEN row ELSE [row EXCEPT !.panos = @ \cap S])
  /\ stale' = stale \cup Overtaken(q, InHand(q))
  /\ UNCHANGED <<flags, backup, files, queue, lock, bounds, by, failed>>

(* enable_maintenance and disable_maintenance *)
Toggle ==
  /\ edits < MaxEdits /\ edits' = edits + 1
  /\ IF "maintenance" \in flags THEN flags' = flags \ {"maintenance"} /\ UNCHANGED by
     ELSE flags' = flags \cup {"maintenance"} /\ by' = "person"
  /\ UNCHANGED <<rows, backup, files, queue, lock, pc, mem, fails, resets, stale, failed, crossed>>

-----------------------------------------------------------------------------
Sync(w) == Lock(w) \/ List(w) \/ ReadBuilding(w) \/ SaveBuilding(w) \/ EndSync(w)

Reset(w) ==
  EnableMaintenance(w) \/ Restore(w) \/ ReadTable(w) \/ SaveTable(w) \/ DisableMaintenance(w)

Work(w) == StartTask(w) \/ Sync(w) \/ Backup(w) \/ ReadRow(w) \/ SaveRow(w) \/ Reset(w)

Next ==
  \/ Beat \/ AskReset \/ Toggle
  \/ \E f \in File : Publish(f)
  \/ \E w \in Worker : Work(w) \/ Fail(w)
  \/ \E q \in Request : Serve(q) \/ ReadForm(q) \/ Edit(q)

(* Beat enqueues the sync again and again, and the workers work.  Nobody   *)
(* is promised the lock, nor that a request ends.                          *)
Spec ==
  /\ Init /\ [][Next]_vars
  /\ SF_vars("panoramas" \notin Range(queue) /\ Enqueue("panoramas") /\ UNCHANGED resets)
  /\ \A w \in Worker : WF_vars(Work(w))

-----------------------------------------------------------------------------
Resetting(w) == pc[w] \in {"reset", "restore", "scramble", "scrambling"}

(* A sync takes away nothing that another sync has added: the building it  *)
(* has in hand is as the last sync left it.  Only a request or a reset may *)
(* come between (panoramas.py l.117, l.198).                               *)
SyncsKeep ==
  \A w \in Worker : pc[w] = "save" /\ w \notin stale => \A b \in InHand(w) : mem[w].hand[b] = rows[b]

(* When the sync stays enabled, every picture comes to its building and    *)
(* stays there, whatever else fails, but for buildings whose panoramas are *)
(* null (panoramas.py l.138-158, l.204-245).                               *)
Arrived(k) ==
  LET b == BuildingOf[k] IN
    b = Null \/ rows[b].panos = Null \/ FilesOf[k] \cap files \subseteq rows[b].panos

PanoramasArrive == <>[]("panoramas" \in flags) => \A k \in Key : <>[]Arrived(k)

(* A reset turns the maintenance mode off again, unless it fails           *)
(* (tasks.py l.66-76).                                                     *)
MaintenanceEnds ==
  "maintenance" \in flags /\ by = "reset" ~> "maintenance" \notin flags \/ by # "reset" \/ failed

(* After a reset nothing is left of what production had in the tables that *)
(* are scrambled but the street numbers that are no numbers, unless the    *)
(* reset fails, or something that was read before it was scrambled is      *)
(* saved afterwards (scramble_members.py l.54-135).                        *)
NothingPrivate ==
  ~failed /\ ~crossed /\ (\A w \in Worker : ~Resetting(w)) => \A r \in Scrambled : ~Exposed(rows[r])
=============================================================================
