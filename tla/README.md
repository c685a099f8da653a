# A verification development for MeshDB

MeshDB is the database of NYC Mesh: a Django application on PostgreSQL that keeps the
members, buildings, installs, nodes, devices, links and lines of sight of a community
network, with a REST API, an admin site, public forms, webhooks and scheduled imports.
This directory holds TLA+ modules translated from that code, TLC configurations that
check them on small instances, and theorems that TLAPS checks for every size.

Paths below are relative to the repository; `meshapi` stands for `src/meshapi`, and so on.

## The system

| Component | State | Operations | What is hard | What makes it correct |
|---|---|---|---|---|
| Network number assignment (`meshapi/views/forms.py`, `util/network_number.py`, `models/node.py`) | node rows (number, status), install rows (status, node), buildings' primary nodes, an advisory lock | the NN form; `Node.save` from the admin site and the API; the search for a free number, which may take the number of an install that never came to anything | requests run in parallel transactions; rows are read without locks; the advisory lock and the transaction end at different times; errors are answered, and commit, or escape, and roll back | numbers are unique; an active node has one; an install's number goes to another node only after the install is marked; every request is answered |
| Join form (`views/forms.py`) and replay of stored submissions (`management/commands/replay_join_records.py`, `util/join_records.py`) | members, buildings, installs; records in S3 | a submission; a resubmission; replaying what failed | no transaction around three saves; the advisory lock covers the form but not the replay; crashes between saves | one member per email address, one building per address, one open request per member, building and unit; what failed can be replayed |
| Validation and geocoding (`validation.py`, `views/geography.py`, `util/requests.py`, `static/widgets/auto_populate_location.js`) | the fields of a page | a captcha and up to four services of the city are asked in turn | outages, retries, placeholders for numbers; answers in another order than the clicks | an address gets its own number, an error, or a placeholder nobody recognised; no look-up for a sender who is not judged human; the page says what it asked for |
| Webhook delivery (`meshapi_hooks/`) | the hook's row (enabled, count of failures), the Celery queue | an event is queued; a worker posts, retries, gives up, counts, disables | workers share the row and save all of it after an HTTP request; tasks are lost with their worker | bounded attempts; disabled only after more failures than the limit; every event settled |
| UISP import (`util/uisp_import/`) | devices, links, lines of sight | hourly and on-demand imports; links become lines of sight | two imports with different snapshots of UISP run at once; objects are looked up and created in different transactions | one object per UISP id, and per pair of devices without redundant links; what is gone from UISP becomes inactive, what comes back active; inactive only after the grace period and reported once; lines of sight follow links |
| Panorama sync (`util/panoramas.py`) | the pictures of a building | list the repository, group by number, save | a building read before and saved after other saves; a lock; retries | no sync takes away what another added; every picture arrives |
| Scheduled tasks, flags and maintenance mode (`tasks.py`, `meshweb/middleware.py`, `management/commands/scramble_members.py`) | flags (rows of the database itself), the newest backup, the queue | backup, import, panorama sync, reset of a development database | a restore replaces the flags the tasks depend on; rows in hand during the scrambling | the maintenance mode ends; a reset leaves nothing private in the tables it scrambles |
| Map of the website (`views/map.py`) | none | queries that group nodes, links and installs, as numbers move | counts over joins; numbers of recycled installs | every number is shown once, at its node; ends of links are on the map |
| KML files and lookups (`views/active_mesh_kml.py`, `views/geography.py`, `views/lookups.py`, `views/helpers.py`) | none | grouping by place and pair; what a number stands for | two sources (installs, nodes) for one dot; ends in either order; recycled numbers | every active place has one dot; a pair has one line; a number means one node everywhere |
| Website statistics (`meshweb/views/website_stats.py`) | none | counting installs into buckets of time | dates in UTC and in New York; bucket ends | a graph never shows more installs than there are, and misses few |
| Map of the admin site (`meshweb/static/admin/map.js`) | panel, map, look-ups under way | a page moves the map; a click opens a page | two windows that send each other messages; fetches that overlap | panel and map agree after an act that nothing came between |
| Other views, serializers, permissions, notifications, settings, deployment | none | | | |

How they meet: the join form makes installs, the NN form and the admin site turn them into
nodes, the UISP import hangs devices and links on nodes by their number and derives lines
of sight from links, maps and files read all of it, and every save of a model instance may
fire a webhook. They share PostgreSQL tables, three advisory locks (`nn_assignment_lock`,
`join_form_lock`, `update_panoramas_lock`) and the Celery workers. Requests run in
autocommit mode, READ COMMITTED, except where a view opens a transaction.

## The modules

**NetworkNumbers** is the core. A session (`Form`, `Admin`, `Editor`; one may be several)
serves one request after the other; a step is one SQL statement, or several that no other
session can tell apart. Every row has a committed version (`nodes`, `installs`, `primary`)
and a latest one (`nodesW`, ...) that differ only while a session holds the row's lock, so
that what a plain `SELECT` sees, what `SELECT FOR UPDATE` waits for and what a rollback
undoes are as in PostgreSQL. The form's path is `PostForm`, `AcquireLock`, `LockInstall`,
`ChooseNode`, `ChooseNumber`, `ScanInstalls`, `ScanNodes`, `CheckNumber`, `ClaimDonor`,
`WriteNode`, `Commit` or `Rollback`; a save of a node goes through `ReadNode` or `NewNode`,
`EditNode`, `SaveNode` and joins it at the search or the check. The advisory lock is given
back when the view returns, before the commit, as the order of the decorators has it. An
insert waits for another session's uncommitted insert of the same number (`IndexBusy`) and
fails on a committed one (`IndexTaken`). A failed transaction rolls back; an advisory lock
taken in it stays with the session until that is closed (`CloseSession`).

**NNRegistry** is what the assignment promises when every request is one step: no locks, no
transactions, no order of statements. `NetworkNumbers` implements it (`ImplementsRegistry`),
with the committed rows as the refinement mapping, when requests are served one at a time;
with more it does not (a form may fail where the registry has an answer, see the findings),
and the invariants say what remains. A number that is cleared on an active node, or 0, counts
as none there too (`Unset`), as the code tests `not self.network_number`.

**JoinForm** has the browser (`Submit`, `Respond`), the form (`Receive`, `AcquireLock`), the
steps of `process_join_form` (`FindMember`, `FindStructure`, `FindBuilding`, `FindInstall`,
`SaveMember`, `SaveBuilding`, `AddNodes`, `SaveInstall`, the receivers of its `post_save`
(`CreateTicket`), and the clean-up `DeleteMember`, `DeleteBuilding`), the bucket (`pre`,
`post`) and the command (`ListRecords`, `NextRecord`, `Record`). Rows are numbered in the
order they are made; a deleted row stays in the sequence with `live` FALSE, because a stale
`save()` inserts it again. Of a row it keeps the columns by which rows find each other. What
can be wrong with a submission is one of four flaws, since the code only tells these apart.
A database to start from is as the form leaves it (`StartAssumption`): no row is there twice,
and an install's building has the nodes of its structure. `overlap` records that a record was
replayed beside anything, a form or another command.

**Geocode** is what a submission, or the admin's building page, goes through before: calls
pass `Captcha`, `Area`, `Search`, `Parse`, `NewBuildings`, `Height`, each of which may be
asked again (`Retry`) or given up (`Fail`). What the city knows (`City`) is a constant; the
page (`BuildAddressQuery`, `Click`, `Deliver`) and the form (`Post`) make the calls.

**Webhooks** has one hook (hooks share nothing but the workers), its row, the task of each
event, and workers that read the row at `Start`, post, and save the whole of it at `Save`.

**UISPImport** has UISP (`udev`, `ulink`, a date), MeshDB's devices, links and lines of
sight, and imports that pass through the task: `FetchDevices`, `LookUpDevice`,
`UpdateDevice` or `CreateDevice`, `SweepDevices`, `SaveLostDevices`, the same five for links,
then `ReadLinks`, `SyncSight`, `CreateSight` and `EndSights`. Row locks (`Unlocked`) are held
from the look-up to the commit; creations and final passes happen outside them. What UISP
says of a device is a node's number in its name, or none, whether it is online, and when it
was last; names without such a number and excluded categories are the same to the code.
The databases to start from are as imports leave them (`StartAssumption`): nothing is there
twice, no active row has an abandon date, and links join the rows of their devices.

**Upkeep** has the queue that beat fills and workers empty (`Beat`, `StartTask`), the panorama sync
(`Lock`, `List`, `ReadBuilding`, `SaveBuilding`, `EndSync`), the backup, the import as far as it
reads and saves a row, the reset (`EnableMaintenance`, `Restore`, `ReadTable`, `SaveTable`,
`DisableMaintenance`), and requests that the maintenance mode turns away (`Serve`, `Toggle`) or
that were let through before it and read and save a row when it is on (`ReadForm`, `Edit`). The
flags are in the database that is restored. Not every `Row` is in one of the `Tables` that are
scrambled: the histories and what is billed for installs are not. Of what a row holds of production
(`Private`) scrambling leaves a street number that is none to `int`, such as 31-16.

**MapData** composes the registry (`Registry!Next`, so every step of `NNRegistry`) with the
changes of links (`SetLink`; nobody types 0), and has the three pages of the website's map as operators of
that state: `Entries` and `IsNodeDot` (first page), `MapLinks`, `CableRuns` and
`PotentialLinks` (second page), `MapSectors` (third page). A device counts by its node only,
which is why two links can join the same nodes, except for access points, which get entries and
numbers of their own from 1,000,000 on (`ApEntries`, `ApLinks`). `JoinedBuildings` counts what the query counts: `Count("buildings")`
is taken over a join that a later `filter` multiplies.

Four modules extend it. **MeshKML** has the dots and lines of the active file and the marks, links
and lines of sight of the whole one. **Lookups** has the filters by network number and the helper
that tells what a number stands for. **SiteStats** computes the graphs of the website, for the
moments `Nows` and the days `Spans`, with time in ticks and two time zones. **AdminMap** adds the
panel (`Visit`, `Load`), the map (`ClickMap`, `MoveMap`), the pages that are looked up (`Answered`,
`OpenPage`), requests that fail (`GiveUp`) and the button that hides the map (`ToggleMap`) to the
registry's steps (`RowsChange`). The map may say that any of `Selections` is selected on it: a
number, nothing, several numbers, an access point; `Ignored` are those that the panel does not
follow. `heard` is whether the panel's listener is there: it is taken away while the answer to a
click is read, and stays away when reading fails. `apart` records that something has parted panel
and map since the last act that began while nothing was under way.

The MC modules give the databases to start from and the symmetries: `MCNetworkNumbers`,
`MCJoinForm`, `MCGeocode`, `MCWebhooks`, `MCUISPImport`, `MCUpkeep` and `MCMeshViews`, which
extends `MeshKML`, `Lookups`, `SiteStats` and `AdminMap` at once. The `*_proofs` modules hold the
theorems. A definition commented "Variant" is a plausible mistake in the definition below it. No
action uses it; putting it in that definition's place makes TLC report the property that
`PROJECT.json` pairs it with.

## What the runs show

| Run | Instance | Shows |
|---|---|---|
| `nn_forms` | two forms, of which one is also an admin who types and clears numbers, two installs on two buildings, two nodes, numbers 1..3, every consistent database with at most one node | numbers are unique, every number in use is claimed, active nodes are numbered, no session goes to its commit with a mark that no node backs, active installs keep theirs |
| `nn_serial` | one session that does everything, two installs, two nodes, vanity numbers in and out of range, 0, and cleared ones | requests served one at a time are steps of `NNRegistry` |
| `nn_live` | a form and an admin, one install, two nodes, fair | every request is answered |
| `nn_lost_race` | two forms | a violation, see findings |
| `nn_immutable` | an admin, one node, cleared numbers | a violation, see findings |
| `hooks_live` | two workers, an admin, a crash, three events, two attempts, fair | no event is posted too often; every queued event is settled |
| `join_replay` | two forms and a command, two submissions from six databases, one failure | nothing is made twice unless the command runs beside a form or another command; installs keep their rows; nodes are shared; answers and records name the submission's own install; what is not served can be replayed |
| `uisp_sync` | an hourly and an on-demand import, two devices, two links of them with three ids, one change of UISP, databases with and without redundant links | an import that was alone leaves MeshDB like UISP, and its lines of sight like its links; nothing doubles unless imports overlap or redundant links are renamed, of which administrators are told; grace period and events hold under any interleaving |
| `mesh_views` | three nodes in two places, two installs, of which the first starts at a node that has taken the other's number, three links, two lines of sight in both directions, two access points; all registry steps, numbers that are cleared, and changes of links; then two acts of an admin and one more change | every number has one entry, at its node; every active place has its dot; a pair has one line; a searched number leads to one node; map, lookups and helper agree; the graphs are sound; what is clicked stays on the map; panel and map agree after an act that nothing came between |
| `geocode` | seven addresses, one for each thing the city may say; two clicks, or a submission with six kinds of tokens; one retry | answers are true whatever fails; no robot is served; the page shows what it asked for; calls come to an end |
| `geocode_placeholder` | the same addresses, one click | a violation, see findings |
| `upkeep` | two workers, a request, a building with two numbers, a device, a bill that nothing scrambles, one failure | syncs keep each other's pictures; pictures arrive; a reset that does not fail leaves nothing private in the tables it scrambles but odd street numbers, and ends the maintenance mode |

Bounds and why they are enough. Two sessions show every pairwise race, and what the proofs below
show of numbers holds for any number of sessions. In `nn_forms` there are few enough numbers that
the search runs dry and takes a donor, and install 5 is too high for its number to be a node's; in
`nn_serial` install 1 is too low. `NNMin` and `NNAssignMin` differ as they do in the code (1 and
101 there). Statuses that the code does not tell apart are one (`PENDING`). `Vanity` has `Null`
wherever an admin can clear a number. For webhooks three events with limit 1 let a streak start,
break and pass the limit, and two attempts move a retry to the other worker. A second submission of
`JoinForm` is the first again, the same person's, another person's for the same address, or for the
same structure: all ways in which two submissions touch the same rows. `MaxFaults` and `MaxRuns`
are 1 there; a failure then falls on every step of every order. In `UISPImport` days are 0..2 with
a grace of one day, so that a device can be offline for less, exactly and more than the period;
UISP may have two links of the same devices at once, which are redundant links. In `mesh_views` two
nodes share a place, two links run in both directions and differ in type, and one type is renamed
on its way to the file; `Day` 4 and `Offset` 1 put midnight in one zone inside a day of the other,
`Buckets` 3 does not divide every span, and `Nows` has moments soon after the oldest request and
later, on both sides of a midnight. Rows change as often as they like before the admin's page is
used, so that the pages, files and graphs are checked over all states of the registry; `MaxActs` 2
is an act and one that comes in between or after, and `MaxChanges` 1 a change beside them, as
neither window hears of it. Two look-ups (`Ids`) can answer in either order. In `upkeep`
`MaxFails`, `MaxEdits` and `MaxResets` are 1: a failure, a request or a reset falls between any two
steps of two workers. Where only other tasks are switched on all pictures are there from the start
(`files`). In `geocode` one retry tells the retried from the first answer. `CHECK_DEADLOCK FALSE`
appears where the bounds let everything end: events, submissions, imports, calls and acts are used
up.

Fairness. `NetworkNumbers` assumes WF of a session's own steps (a worker that has a
request goes on with it; gunicorn's timeout only shortens it) and SF of its waits, because
PostgreSQL queues the waiters of a lock. It assumes nothing of users: nobody has to send
a request or finish an edit. `Webhooks` assumes WF of a worker's next step; a request that
never returns (`Hang`, `requests.post` has no timeout) is a state without a next step, which is why
`EveryEventSettles` has the exception it has. `Geocode` assumes WF of a call's next step but
where it waits for one of the two services that are asked without a timeout, which
`Settles` excepts in turn. `Upkeep` assumes WF of a worker's steps and SF of beat putting the
panorama sync on the queue, which is full only while the workers have something to do; it
assumes neither that a request ends nor that a task gets the lock at once. `MaintenanceEnds`
excepts a reset that fails, and it does not say that the mode was on all along.
The other modules claim no liveness.

## What is proved

`NetworkNumbers_proofs`, `Webhooks_proofs`, `JoinForm_proofs`, `UISPImport_proofs`,
`MapData_proofs`, `MeshViews_proofs`, `Geocode_proofs` and `Upkeep_proofs`, for all sets of
sessions, nodes, installs, workers, events, submissions, imports, links, addresses, calls, rows
and so on. The assumptions are the ASSUMEs of the modules (the sets of the sessions do not contain
`NoProc`, `NNMin` is positive, a starting database is consistent, and the like) and, where a
theorem says ASSUME, the hypothesis named below. Hypotheses on how many run at once, and on
who saves old copies, are there because without them the property is false or has another
argument, not for the prover's sake.

* `TypeCorrect`: `Spec => []TypeOK`. The inductive invariant is `TypeOK /\ MemoryInv`, where
  `MemoryInv` says what a session holds at each label: at the labels of `HasNode` an object with an
  id; for a form, at those of `HoldsInstall`, its install's and building's row locks. Without it
  `WriteNode` could write at `Null`.
* `NumbersAreUnique` and `ActiveNodesAreNumbered`: uniqueness of the committed rows is not
  inductive, since a commit copies the latest version of the rows that the session has locked.
  `NodeInv` adds that an unlocked row's versions agree (`UnlockedIsCommitted`), that no version of
  one row has the number of any version of another (`VersionsApart`), that every active version is
  numbered (`VersionsNumbered`), and that an object about to be written is numbered if active
  (`MayWrite`). The step that matters is `WriteNodes`: the index excludes both versions of every
  other row.
* `OnlyEditorsRetireActive`, `ActiveKeepTheirNumber`, `DonorsAreClaimed`: an active install is only
  marked NN_REASSIGNED by a save of the whole row from the admin site, and by nothing where there
  are no such saves (`Editor = {}`). `DonorInv` says of every version of a node's row what
  `DonorClaimed` says of committed ones: the lock on the install is taken before its number is
  written to a node, and given back with the node's lock (`LockedTogether`, `HoldsDonor`); a form
  that saves its install once more writes the node that it found there (`KeepsNode`). `Editor = {}`
  is needed since an editor's stale copy can undo the mark.
* `ReferencesHold`, `ConsistencyIsKept`: rows refer to nodes that are there, because an object that
  a form is about to refer to is a row that is there or its own insert (`ReferInv`). With the
  theorems above, every database that requests leave behind is `Consistent`, which is what
  `StartAssumption` asks of those to start from (where `Editor = {}`).
* `NumbersAreNotBurned`: for any sessions, editors included, and whatever is typed or cleared.
  `MarkInv` says that an unlocked install's versions agree (`InstallsSettled`) and that a mark not
  yet committed is of the number in its session's hands, which it is about to save (`MarkKept`);
  the only steps to the commit from there write that number to a node, or find it on a committed
  one. The property speaks of the step to the commit. Whether the node still has the number when
  the commit is done is up to other sessions (below).
* `ServedAlone`: `Spec => ImplementsRegistry` for one session, which may be form, admin and editor
  in one. The refinement mapping is the committed rows; a step other than a commit changes none of
  them. `AloneInv` says of the session what its rows and its object are at each label in terms of
  the committed database, that is, which registry action the commit will be: of a form, what `Host`
  and `GivenNumber` of the registry allow (`FormChoice`), of a save, what `Save` does
  (`SaveChoice`), with the object in hand (`InHand`) and the latest version of its rows
  (`RowsSettled`). That the number found by the two queries is the registry's lowest free one is
  `SearchIsLowest` and `LowestIsSet`.
* `PostsAreBounded`: `AttemptsBounded` follows from `PostsCounted`, which ties the posts of an
  event to its task's retry count, and that needs `OneWorkerEach`: no two workers run the same
  task.
* `HooksAreNotDisabledEarly`: for any workers, admins and crashes. `HonestInv` says of the row and
  of every copy of it that their count of failures is at most the deliveries given up, and that
  none is off for fewer than the limit allows. An old copy only makes the count smaller.
* `FormTypes`, `AnswersTrue`: the inductive invariant `Inv` of `JoinForm` says that the rows a
  process holds are those of its submission (`Holds`), and that the install named in an answer or a
  record is one that serves it (`Served`), since an install, once stored, keeps its member,
  building and unit.
* `CleanupSpares`: a clean-up that would take an install's member or building away fails, and an
  install is stored together with its references, whatever runs beside it.
* `MadeOnce`, `NothingLost`: for any number of forms and replays. `AloneInv` says that the lock
  keeps forms apart and, unless a record was replayed beside something, that at most one process is
  past its beginning, and what it has looked up is still so (`Knows`): what it did not find is not
  there, and no open request is. Records show no answer 400 or 409 for a sound submission (`Kept`),
  which is what keeps it among those to replay.
* `NodesAreShared`: for any number of forms and one replay. The nodes of a structure are those that
  its buildings had at the start, whose rows nobody deletes, and a process carries all of them from
  its look-up to its install (`Carries`); two that work at one building have not seen it deleted
  (`MeetLive`). With two replays beside forms a building that its maker has deleted can be inserted
  again by a stale save, without its nodes, while another process is about to store an install for
  it.
* `ImportTypes`, `OneReport`, `NoAbandonedActives`: for any number of imports at once. `Inv` says
  what an import holds at each label (`Holding`): while it has rows locked its copies are what the
  tables have, and no two imports lock the same row (`LocksApart`). `ReportsInv` adds that a device
  that is not inactive has no report behind it.
* `ObjectsAreOneRow`: for any devices and links, redundant ones included. `AloneInv` says that,
  unless imports have overlapped, what an import has not found stays missing until it makes it
  (`Sole`), that ids of links are on one row unless administrators were notified, and that a pair
  of devices has one row, and the links on an import's list join different devices, unless there
  have been redundant links.
* `ImportMirrors`, `SightsAreFollowed`: for any number of imports, of which each is judged by what
  it did when nobody else imported and UISP stayed as it was (`steady`). `ProgressInv` says that
  such an import is alone all along (`Lone`: the next one ends its `steady`), and what each pass
  has brought in at each label: devices (`DevicesSoFar`), which stay while links come
  (`LinksSoFar`), which stay while lines of sight do (`SightsSoFar`). Rows that an import has to
  leave alone are still right because their ids are neither its own nor gone. Each link written
  over a line of sight leaves its date a day of one of the links taken so far (`Followed`). No
  hypothesis on UISP's links or on what earlier imports left is needed.
* `MapTypes`, `NumbersShown`, `NoTwoDots`: the first page of the map, over every step of the
  registry. The inductive invariant is `TypeOK`, `Unique(nodes)` and that numbers belong to nodes
  that are there (`NumbersOfNodes`); uniqueness is what keeps two entries that were made up from
  sharing a number. `NumbersShown` is conditional, as `EveryNumberShown` is: where somebody
  attached the install of a number elsewhere (`~Claimed`), the number shows another node.
* `EndsFound`, `OneLinkShown`: the second page. Ends of links and of runs are entries of the first
  page, access points' included, whose numbers start where nodes' and installs' end; a pair of
  numbers is joined by one link at most, because the numbers of two nodes differ. Both properties
  name their exceptions (installs not at home, recycled installs).
* `NumbersMeanOneNode`, `SearchesLeadHome`, `PlacesAreMarked`, `PairsHaveOneLine`: the lookups and
  the KML files, which follow from the same invariant of the rows. A pair's line is the greatest by
  speed and the first by id, which exists because the links of a pair are finite or well-founded
  sets of naturals (`Least`, `Greatest`).
* `RecycledTogether`: the action property `RecycledWithNode`, over every step of the registry. Two
  kinds of steps are excepted: a status that is set by hand, and a save of an active node whose
  number was cleared, which goes from the node and leaves the install marked (`GivesWay`).
* `GraphIsSound`: no invariant is needed, since the graph is computed; the proof is arithmetic of
  two moments and a date. `GraphReaches` bounds the days of a graph by its length, with the zones'
  difference where it starts at a midnight; `InBuckets` follows for every row's bucket. Base and
  buckets share no row (`BaseApart`), so that their sizes add up to at most that of all rows dated
  by now, and what is dated on inner days is in one of them (`NothingMissed`).
* `ClicksStay`, `PanelsAgree`: for any pages, any selections and any sequence of acts. `UiInv` says
  that, unless something has parted panel and map (`apart`), one thing at most is under way, a page
  or a look-up, that a look-up for a page is of what the panel shows, and that the map has what the
  panel shows when nothing is under way.
* `GeocodeTypes`, `AnswersAreTrue`, `OnlyHumansAreServed`, `PageIsTold`: an answer is true because
  of what the calls before it established. The inductive invariant says of each call what is known
  at its stage (`CallsOK`): past the captcha its sender is judged human, past the area its ZIP is
  the city's, with a number in hand the address was found. What is true of an answer includes what
  the code gets wrong, by name: a placeholder that came as a text, and an address whose new
  buildings could not be asked and that is answered as if it did not exist (`TrueAnswer`). `PageOK`
  says of the page that after a click which no other came before, the click's call is the only one
  pending, or has been delivered.
* `SyncsKeepTheirs`: `SyncsKeep` is inductive only with the lock. `SyncLocked` says that a sync
  between listing and end has the lock, and so is alone; `HandsOK` that what a sync has in hand is
  a building and what an import has is none, so that an import cannot overtake it. Requests and
  resets can, and mark whom they overtake.
* `NothingPrivateStays`: where no starting database holds production's data in a scrambled row
  (`NonePrivate`). `PrivateInv` says that a row of a scrambled table that is `Exposed`, with more
  of production in it than a street number that is none to `int`, is one that a reset under way has
  still to restore or to scramble (`Awaited`), unless a reset failed or a row was saved that had
  been read before it was scrambled. Of the other tables it says nothing, as the code does nothing
  to them.

Only model-checked is liveness under fairness, which is out of the prover's reach: `EveryRequestAnswered`,
`EveryEventSettles`, `Settles`, `PanoramasArrive` and `MaintenanceEnds` stay with TLC. Every invariant
and action property of the passing runs has a theorem. No module of the project declares a
RECURSIVE operator; sums and sequences are folds.

## Findings

A finding is a run in which TLC reports a violation of what a comment or a test of the
repository says.

* `nn_lost_race`: `@transaction.atomic` is the outer decorator and `@advisory_lock` the inner one,
  so the lock is free before the number is committed. A second form that searches in between
  chooses the same number and fails on it, where `test_nn.py` expects two 201s.
* `nn_immutable`: "Network numbers are immutable" (`node.py:135`), and `test_node.py:306` expects
  an error when a number is set to None. The search for a number (`node.py:124-132`) comes first
  and returns, so an ACTIVE node that is saved with its number cleared gets the lowest free one.
* `geocode_placeholder`: a placeholder should make the code ask for new buildings
  (`validation.py:153`). `INVALID_BIN_NUMBERS` are integers (`validation.py:36`), the search
  answers texts (`sample_geocode_response.py:60`), so the comparison at `validation.py:156` never
  holds for them and the placeholder is stored as the building's number.

## Seen in the models

These follow from the code as the models have it. They are not stated as properties, or are
named as exceptions in the properties they limit.

* Numbers: after an ACTIVE node's number was cleared (`nn_immutable`), the old number's install
  stays NN_REASSIGNED with no node that has it, although `helpers.py:59-62` says that there is
  always one. The node a form relied on for its mark can lose the number between the form's check
  and its commit. A stale save from the admin site erases a number just assigned. A recycled
  install that is attached elsewhere in between is still marked. A form overwrites an edit of the
  node that it reuses. The value 0 passes the validation of numbers and is stored for a node that
  is not active.
* Webhooks: a task that read the hook before it was disabled saves `enabled` TRUE again
  (`hooks.py:19`). The docstring at `hooks.py:10-12` disables a hook once its count reaches the
  limit; the code (`tasks.py:20-38`) disables it with one failure more, which `NotDisabledEarly`
  states as the code has it. Deliveries queued before a hook was disabled are still made. Counts
  that stale saves take back leave a failing hook on for longer, without a bound.
* Join form: a replay beside a form makes a second building, because it does not take
  `join_form_lock`.
* UISP: overlapping imports make a device twice, after which every import of its links fails.
  Redundant links of one pair whose ids are gone at once are given the same new id, and
  administrators are told; `OneRow` excepts that by name (`notified`). A line of sight gets the
  date of whichever link comes last.
* Map: an install whose number was recycled still counts for its building when potential links are
  drawn, so they start at the node that has the number now. A node on one building that several
  numbered nodes share passes for one on several buildings and gets a cable run; a node without a
  number next to a numbered one gets a run to no number.
* KML: a planned fibre link hides an active, slower link of the same pair. Pairs are told apart by
  coordinates in three dimensions, so nodes at one place and height are one end. A node without a
  number is named "None". Where several numbered installs stand at one place, the last one's node
  names the dot. The whole file compares installs' numbers with nodes' numbers when it leaves out
  lines of sight.
* Lookups: `LOSFilter.filter_from_to_node` compares a building's id with a node's
  (`lookups.py:368`), so the far end of a line of sight is missed. The lookup of lines of sight by
  number returns one twice whose ends both match.
* Statistics: installs of the first bucket are never counted, nor, for lack of a common time zone,
  those of the day before the start. The graph of all time raises when the oldest request is very
  young.
* Geocoding: an outage of the list of new buildings passes for an invalid address (404), where the
  comment at `geography.py:455` expects an error that may be tried again. An answer 200 of that
  list that is not JSON raises outside the `try` (`validation.py:241`) and ends in a 500. Neither
  that list nor the captcha is asked with a timeout. A late answer fills in the fields of another
  address.
* Admin map: the button that recenters calls `updateMapLocation` without a page. `readURLBar` does
  not read the local storage its comment names. A click on a recycled number opens the page of the
  install that lost it. A node's answer has no statuses of installs. Overlapping fetches leave the
  map on an older selection. Clicks on access points, on several numbers or on nothing are ignored
  (`map.js:191-198`) after the map has moved, and leave the panel behind it, as a request that
  fails does. The listener is away while the answer to a click is read (`map.js:203-220`): a page
  loaded meanwhile is not heard, and after a failure nothing is.
* Upkeep: the beat entry named after the reset runs the backup (`tasks.py:131`), so nothing
  schedules the reset. The restore brings the backup's flags, `MAINTENANCE_MODE` among them, so
  that requests are served while private data is in the database (`tasks.py:67-70`), and tasks that
  production has switched on, the hourly backup among them, run in the development environment. A
  sync, an import or a request that holds a row across the scrambling restores what was scrambled;
  a request can, if it was let through before the mode was on. The histories that `simple_history`
  keeps and `InstallFeeBillingDatum` are never scrambled, so names and notes of production stay
  there, and `scramble_members.py:96` leaves a street number that is not one number. The
  maintenance mode does not stop tasks. A building whose panoramas are null never gets any. A save
  of a stale building takes back what a sync added, until the next sync.

## Plan

Done: every component of the table above but the last row, as `PROJECT.json` details. Left, in
this order:

1. `Webhooks`: deletion of a hook during a delivery, and events fired in transactions that
   roll back, which is a composition with `NetworkNumbers` too large for TLC as it stands.
2. Kiosks of the map; the directions of sectors of the import.

Abstract specifications worth stating: `NNRegistry` (done); a set of events, each
delivered at most `Attempts` times, for `Webhooks`; one step that makes MeshDB like UISP, for
an import that is alone.

## Not modelled

Names, notes, phone numbers and the wording of answers; permissions and authentication;
the history tables; generic CRUD of the framework beyond the saves that the components
above depend on; filters on texts; notifications (Slack, osTicket) except the late save of an
install; the layout of the admin site's pages; settings, deployment, migrations and sample
data; type declarations of UISP's API. `PROJECT.json` lists every component with its status
and every hazard with the properties that cover it.

## Running

    tlc -config NNForms.cfg MCNetworkNumbers.tla
    tlapm NetworkNumbers_proofs.tla

`PROJECT.json` ("runs") names the module and the configuration of every run. The longest
takes about three minutes.
