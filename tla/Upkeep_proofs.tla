---------------------------- MODULE Upkeep_proofs -----------------------------
(***************************************************************************)
(* Theorems about Upkeep, for any workers, requests, rows and pictures.    *)
(***************************************************************************)
EXTENDS Upkeep, TLAPS

(* An actor's local variables, whatever they hold.                         *)
IsMemory(m) == m = [todo |-> m.todo, files |-> m.files, tries |-> m.tries, hand |-> m.hand]

Shape ==
  /\ pc = [a \in Actor |-> pc[a]] /\ mem = [a \in Actor |-> mem[a]]
  /\ \A a \in Actor : IsMemory(mem[a])
  /\ queue \in Seq(Task)

(* A sync has the lock.                                                    *)
Syncing == {"github", "keys", "save"}

SyncLocked == \A w \in Worker : pc[w] \in Syncing => lock = w

(* A sync has numbers to do, and a building in hand; an import has none.   *)
Holding(s, m) ==
  /\ s \in {"keys", "save"} => m.todo \in Seq(Key)
  /\ s = "save" => m.todo # <<>> /\ DOMAIN m.hand \subseteq Building
  /\ s = "importing" => DOMAIN m.hand \cap Building = {}

HandsOK == \A a \in Actor : Holding(pc[a], mem[a])

Inv == Shape /\ SyncLocked /\ HandsOK /\ SyncsKeep

LEMMA InitInv == Init => Inv
<1> SUFFICES ASSUME Init PROVE Inv
  OBVIOUS
<1>1. Shape
  BY DEF Init, Shape, IsMemory, NoMemory
<1>2. SyncLocked /\ HandsOK /\ SyncsKeep
  BY DEF Init, SyncLocked, Syncing, HandsOK, Holding, SyncsKeep, Actor
<1> QED BY <1>1, <1>2 DEF Inv

(* A step of one actor: it takes or gives back the lock or leaves it, and  *)
(* changes no row that a sync has in hand which is not marked as stale.    *)
LEMMA StepInv ==
  ASSUME Inv, NEW a \in Actor, NEW s, NEW m, IsMemory(m), Holding(s, m),
         pc' = [pc EXCEPT ![a] = s], mem' = [mem EXCEPT ![a] = m], queue' \in Seq(Task),
         lock' = lock \/ (lock = Null /\ lock' = a) \/ (lock = a /\ lock' = Null),
         a \in Worker /\ s \in Syncing => lock' = a,
         stale \ {a} \subseteq stale',
         s = "save" /\ a \notin stale' => \A b \in DOMAIN m.hand : m.hand[b] = rows'[b],
         \A w \in Worker \ {a} : pc[w] = "save" /\ w \notin stale' =>
            \A b \in InHand(w) : rows'[b] = rows[b]
  PROVE  Inv'
<1>1. /\ pc'[a] = s /\ mem'[a] = m
      /\ \A c \in Actor \ {a} : pc'[c] = pc[c] /\ mem'[c] = mem[c]
  BY DEF Inv, Shape
<1>2. Shape'
  BY <1>1 DEF Inv, Shape
<1>3. SyncLocked'
  BY <1>1, UpkeepAssumption DEF Inv, SyncLocked, Actor
<1>4. HandsOK'
  BY <1>1 DEF Inv, HandsOK
<1>5. SyncsKeep'
  <2> SUFFICES ASSUME NEW w \in Worker, pc'[w] = "save", w \notin stale', NEW b \in DOMAIN mem'[w].hand
               PROVE  mem'[w].hand[b] = rows'[b]
    BY DEF SyncsKeep, InHand
  <2>1. CASE w = a
    BY <1>1, <2>1
  <2>2. CASE w # a
    BY <1>1, <2>2 DEF Inv, SyncsKeep, InHand, Actor
  <2> QED BY <2>1, <2>2
<1> QED BY <1>2, <1>3, <1>4, <1>5 DEF Inv

(* The same of a step that saves and reads no row.                         *)
LEMMA QuietInv ==
  ASSUME Inv, NEW a \in Actor, NEW s, NEW m, IsMemory(m), Holding(s, m), s # "save",
         pc' = [pc EXCEPT ![a] = s], mem' = [mem EXCEPT ![a] = m], queue' \in Seq(Task),
         lock' = lock \/ (lock = Null /\ lock' = a) \/ (lock = a /\ lock' = Null),
         a \in Worker /\ s \in Syncing => lock' = a,
         stale' = stale, rows' = rows
  PROVE  Inv'
<1> QED BY StepInv

(* What is known of an actor at the beginning of its step.                 *)
LEMMA Known ==
  ASSUME Inv, NEW a \in Actor
  PROVE  /\ IsMemory(mem[a]) /\ Holding(pc[a], mem[a]) /\ queue \in Seq(Task)
         /\ pc = [pc EXCEPT ![a] = pc[a]] /\ mem = [mem EXCEPT ![a] = mem[a]]
         /\ a \in Worker /\ pc[a] \in Syncing => lock = a
<1> QED BY DEF Inv, Shape, HandsOK, SyncLocked

(* A task ends, and gives back the lock if it has it.                      *)
LEMMA DoneInv ==
  ASSUME Inv, NEW w \in Worker, Done(w), queue' = queue, stale' = stale, rows' = rows
  PROVE  Inv'
<1>1. IsMemory(NoMemory) /\ Holding("idle", NoMemory)
  BY DEF IsMemory, NoMemory, Holding
<1>2. w \in Actor /\ queue \in Seq(Task)
  BY Known DEF Actor
<1>3. pc' = [pc EXCEPT ![w] = "idle"] /\ mem' = [mem EXCEPT ![w] = NoMemory]
  BY DEF Done, Goto, Keep
<1>4. lock' = lock \/ (lock = w /\ lock' = Null)
  BY DEF Done
<1> QED BY <1>1, <1>2, <1>3, <1>4, QuietInv DEF Syncing

(* Nobody's step, and the queue has tasks.                                 *)
LEMMA NobodysInv ==
  ASSUME Inv, queue' \in Seq(Task), UNCHANGED <<rows, lock, pc, mem, stale>>
  PROVE  Inv'
<1> QED BY DEF Inv, Shape, SyncLocked, HandsOK, SyncsKeep, InHand

LEMMA EnqueueInv == ASSUME Inv, NEW t \in Task, Enqueue(t) PROVE Inv'
<1>1. queue' \in Seq(Task)
  BY DEF Inv, Shape, Enqueue
<1> QED BY <1>1, NobodysInv DEF Enqueue, database

LEMMA StartTaskInv == ASSUME Inv, NEW w \in Worker, StartTask(w) PROVE Inv'
<1> DEFINE s == IF Head(queue) \in flags THEN Head(queue) ELSE "idle"
<1>1. w \in Actor /\ IsMemory(mem[w]) /\ queue \in Seq(Task) /\ mem = [mem EXCEPT ![w] = mem[w]]
  BY Known DEF Actor
<1>2. Head(queue) \in Task /\ queue' \in Seq(Task)
  BY <1>1 DEF StartTask
<1>3. s \notin {"github", "keys", "save", "importing"}
  BY <1>2 DEF Task
<1>4. Holding(s, mem[w]) /\ s \notin Syncing
  BY <1>3 DEF Holding, Syncing
<1> HIDE DEF s
<1>5. /\ pc' = [pc EXCEPT ![w] = s] /\ mem' = [mem EXCEPT ![w] = mem[w]]
      /\ lock' = lock /\ stale' = stale /\ rows' = rows
  BY <1>1 DEF StartTask, Goto, database, s
<1> QED BY <1>1, <1>2, <1>3, <1>4, <1>5, QuietInv

(* What the steps make of a memory.                                        *)
LEMMA Updated ==
  ASSUME NEW m, IsMemory(m), NEW v
  PROVE  /\ IsMemory([m EXCEPT !.todo = v]) /\ [m EXCEPT !.todo = v].todo = v
         /\ IsMemory([m EXCEPT !.files = v]) /\ IsMemory([m EXCEPT !.tries = v])
         /\ IsMemory([m EXCEPT !.hand = v])
         /\ [m EXCEPT !.hand = v].todo = m.todo /\ [m EXCEPT !.hand = v].hand = v
<1> DEFINE t == m.todo
           f == m.files
           n == m.tries
           h == m.hand
<1>1. m = [todo |-> t, files |-> f, tries |-> n, hand |-> h] /\ m.todo = t
  BY DEF IsMemory
<1> HIDE DEF t, f, n, h
<1>2. [m EXCEPT !.todo = v] = [todo |-> v, files |-> f, tries |-> n, hand |-> h]
  BY <1>1
<1>3. [m EXCEPT !.files = v] = [todo |-> t, files |-> v, tries |-> n, hand |-> h]
  BY <1>1
<1>4. [m EXCEPT !.tries = v] = [todo |-> t, files |-> f, tries |-> v, hand |-> h]
  BY <1>1
<1>5. [m EXCEPT !.hand = v] = [todo |-> t, files |-> f, tries |-> n, hand |-> v]
  BY <1>1
<1> QED BY <1>1, <1>2, <1>3, <1>4, <1>5 DEF IsMemory

LEMMA Saved ==
  ASSUME NEW m, IsMemory(m), NEW t, NEW h
  PROVE  LET n == [m EXCEPT !.todo = t, !.hand = h] IN IsMemory(n) /\ n.todo = t
<1> DEFINE n == [m EXCEPT !.todo = t]
<1>1. [m EXCEPT !.todo = t, !.hand = h] = [n EXCEPT !.hand = h]
  OBVIOUS
<1>2. IsMemory(n) /\ n.todo = t
  BY Updated
<1> HIDE DEF n
<1> QED BY <1>1, <1>2, Updated

-----------------------------------------------------------------------------
LEMMA LockInv == ASSUME Inv, NEW w \in Worker, Lock(w) PROVE Inv'
<1> DEFINE m == [NoMemory EXCEPT !.tries = 3]
<1>1. w \in Actor /\ queue \in Seq(Task)
  BY Known DEF Actor
<1>2. IsMemory(NoMemory)
  BY DEF IsMemory, NoMemory
<1>3. IsMemory(m)
  BY <1>2, Updated
<1> HIDE DEF m
<1>4. Holding("github", m)
  BY DEF Holding
<1>5. /\ pc' = [pc EXCEPT ![w] = "github"] /\ mem' = [mem EXCEPT ![w] = m]
      /\ lock = Null /\ lock' = w /\ queue' = queue /\ stale' = stale /\ rows' = rows
  BY DEF Lock, Goto, Keep, database, m
<1> QED BY <1>1, <1>3, <1>4, <1>5, QuietInv

LEMMA ListInv == ASSUME Inv, NEW w \in Worker, List(w) PROVE Inv'
<1>1. w \in Actor
  BY DEF Actor
<1>2. IsMemory(mem[w]) /\ queue \in Seq(Task) /\ pc = [pc EXCEPT ![w] = pc[w]]
  BY <1>1, Known
<1>3. queue' = queue /\ stale' = stale /\ rows' = rows /\ pc[w] = "github"
  BY DEF List, database
<1>4. lock = w
  BY <1>3 DEF Inv, SyncLocked, Syncing
<1>5. CASE /\ Keep(w, [mem[w] EXCEPT !.files = files, !.todo = Keys])
           /\ Goto(w, "keys") /\ UNCHANGED <<lock, fails>>
  <2> DEFINE n == [mem[w] EXCEPT !.files = files]
             m == [n EXCEPT !.todo = Keys]
  <2>1. mem' = [mem EXCEPT ![w] = m]
    BY <1>5 DEF Keep
  <2>2. IsMemory(n)
    BY <1>2, Updated
  <2> HIDE DEF n
  <2>3. IsMemory(m) /\ m.todo = Keys
    BY <2>2, Updated
  <2> HIDE DEF m
  <2>4. Holding("keys", m)
    BY <2>3, UpkeepAssumption DEF Holding
  <2>5. pc' = [pc EXCEPT ![w] = "keys"] /\ lock' = lock
    BY <1>5 DEF Goto
  <2> QED BY <1>1, <1>2, <1>3, <1>4, <2>1, <2>3, <2>4, <2>5, QuietInv
<1>6. CASE Keep(w, [mem[w] EXCEPT !.tries = @ - 1]) /\ UNCHANGED <<pc, lock>>
  <2> DEFINE m == [mem[w] EXCEPT !.tries = @ - 1]
  <2>1. mem' = [mem EXCEPT ![w] = m]
    BY <1>6 DEF Keep
  <2>2. IsMemory(m)
    BY <1>2, Updated
  <2> HIDE DEF m
  <2>3. Holding("github", m)
    BY DEF Holding
  <2>4. pc' = [pc EXCEPT ![w] = "github"] /\ lock' = lock
    BY <1>2, <1>3, <1>6
  <2> QED BY <1>1, <1>2, <1>3, <1>4, <2>1, <2>2, <2>3, <2>4, QuietInv
<1>7. CASE Done(w)
  BY <1>3, <1>7, DoneInv
<1> QED BY <1>5, <1>6, <1>7 DEF List

(* The building in hand, and what is left to do after it.                  *)
LEMMA ReadBuildingInv == ASSUME Inv, NEW w \in Worker, ReadBuilding(w) PROVE Inv'
<1>1. w \in Actor
  BY DEF Actor
<1>2. IsMemory(mem[w]) /\ queue \in Seq(Task) /\ pc = [pc EXCEPT ![w] = pc[w]]
  BY <1>1, Known
<1>3. Holding(pc[w], mem[w])
  BY <1>1, Known
<1>4. queue' = queue /\ rows' = rows /\ lock' = lock /\ pc[w] = "keys" /\ mem[w].todo # <<>>
  BY DEF ReadBuilding, database
<1>5. lock = w
  BY <1>4 DEF Inv, SyncLocked, Syncing
<1>6. mem[w].todo \in Seq(Key)
  BY <1>3, <1>4 DEF Holding
<1> DEFINE k == Head(mem[w].todo)
<1>7. CASE Keep(w, [mem[w] EXCEPT !.todo = Tail(@)]) /\ UNCHANGED <<pc, stale>>
  <2> DEFINE m == [mem[w] EXCEPT !.todo = Tail(@)]
  <2>1. mem' = [mem EXCEPT ![w] = m]
    BY <1>7 DEF Keep
  <2>2. IsMemory(m) /\ m.todo = Tail(mem[w].todo)
    BY <1>2, Updated
  <2> HIDE DEF m
  <2>3. m.todo \in Seq(Key)
    BY <1>4, <1>6, <2>2
  <2>4. Holding("keys", m)
    BY <2>3 DEF Holding
  <2>5. pc' = [pc EXCEPT ![w] = "keys"] /\ stale' = stale
    BY <1>2, <1>4, <1>7
  <2> QED BY <1>1, <1>2, <1>4, <1>5, <2>1, <2>2, <2>4, <2>5, QuietInv
<1>8. CASE BuildingOf[k] # Null /\ Take(w, {BuildingOf[k]}, mem[w]) /\ Goto(w, "save")
  <2> DEFINE h == [r \in {BuildingOf[k]} |-> rows[r]]
             m == [mem[w] EXCEPT !.hand = h]
  <2>1. mem' = [mem EXCEPT ![w] = m] /\ stale' = stale \ {w}
    BY <1>8 DEF Take, Keep
  <2>2. DOMAIN h = {BuildingOf[k]} /\ \A b \in DOMAIN h : h[b] = rows[b]
    OBVIOUS
  <2> HIDE DEF h
  <2>3. IsMemory(m) /\ m.todo = mem[w].todo /\ m.hand = h
    BY <1>2, Updated
  <2> HIDE DEF m
  <2>4. k \in Key
    BY <1>4, <1>6
  <2>5. BuildingOf[k] \in Building
    BY <1>8, <2>4, UpkeepAssumption DEF Building, Range
  <2>6. Holding("save", m)
    BY <1>4, <1>6, <2>2, <2>3, <2>5 DEF Holding
  <2>7. pc' = [pc EXCEPT ![w] = "save"]
    BY <1>8 DEF Goto
  <2> QED BY <1>1, <1>2, <1>4, <1>5, <2>1, <2>2, <2>3, <2>6, <2>7, StepInv
<1> QED BY <1>7, <1>8 DEF ReadBuilding

(* No other sync saves a building meanwhile.                               *)
LEMMA SaveBuildingInv == ASSUME Inv, NEW w \in Worker, SaveBuilding(w) PROVE Inv'
<1>1. w \in Actor
  BY DEF Actor
<1>2. IsMemory(mem[w]) /\ queue \in Seq(Task)
  BY <1>1, Known
<1>3. Holding(pc[w], mem[w])
  BY <1>1, Known
<1>4. queue' = queue /\ stale' = stale /\ lock' = lock /\ pc[w] = "save"
  BY DEF SaveBuilding
<1>5. lock = w
  BY <1>4 DEF Inv, SyncLocked, Syncing
<1>6. mem[w].todo \in Seq(Key) /\ mem[w].todo # <<>>
  BY <1>3, <1>4 DEF Holding
<1> DEFINE m == [mem[w] EXCEPT !.todo = Tail(@), !.hand = <<>>]
<1>7. pc' = [pc EXCEPT ![w] = "keys"] /\ mem' = [mem EXCEPT ![w] = m]
  BY DEF SaveBuilding, Goto, Keep
<1>8. IsMemory(m) /\ m.todo = Tail(mem[w].todo)
  BY <1>2, Saved
<1> HIDE DEF m
<1>9. m.todo \in Seq(Key)
  BY <1>6, <1>8
<1>10. Holding("keys", m)
  BY <1>9 DEF Holding
<1>11. \A v \in Worker \ {w} : pc[v] # "save"
  BY <1>5 DEF Inv, SyncLocked, Syncing
<1> QED BY <1>1, <1>2, <1>4, <1>5, <1>7, <1>8, <1>10, <1>11, StepInv

LEMMA EndSyncInv == ASSUME Inv, NEW w \in Worker, EndSync(w) PROVE Inv'
<1> QED BY DoneInv DEF EndSync, database

LEMMA BackupInv == ASSUME Inv, NEW w \in Worker, Backup(w) PROVE Inv'
<1> QED BY DoneInv DEF Backup, database

LEMMA FailInv == ASSUME Inv, NEW w \in Worker, Fail(w) PROVE Inv'
<1> QED BY DoneInv DEF Fail, database

LEMMA DisableMaintenanceInv == ASSUME Inv, NEW w \in Worker, DisableMaintenance(w) PROVE Inv'
<1> QED BY DoneInv DEF DisableMaintenance

LEMMA EnableMaintenanceInv == ASSUME Inv, NEW w \in Worker, EnableMaintenance(w) PROVE Inv'
<1>1. w \in Actor
  BY DEF Actor
<1>2. IsMemory(mem[w]) /\ queue \in Seq(Task) /\ mem = [mem EXCEPT ![w] = mem[w]]
  BY <1>1, Known
<1>3. Holding("restore", mem[w])
  BY DEF Holding
<1>4. /\ pc' = [pc EXCEPT ![w] = "restore"] /\ mem' = mem
      /\ queue' = queue /\ lock' = lock /\ stale' = stale /\ rows' = rows
  BY DEF EnableMaintenance, Goto
<1> QED BY <1>1, <1>2, <1>3, <1>4, QuietInv DEF Syncing

-----------------------------------------------------------------------------
(* One that is no sync reads rows.                                         *)
LEMMA TakeInv ==
  ASSUME Inv, NEW a \in Actor, NEW s, NEW S, NEW m, IsMemory(m),
         s \notin Syncing, s = "importing" => S \cap Building = {},
         Take(a, S, m), pc' = [pc EXCEPT ![a] = s], UNCHANGED <<rows, queue, lock>>
  PROVE  Inv'
<1> DEFINE h == [r \in S |-> rows[r]]
           n == [m EXCEPT !.hand = h]
<1>1. mem' = [mem EXCEPT ![a] = n] /\ stale' = stale \ {a}
  BY DEF Take, Keep
<1>2. DOMAIN h = S
  OBVIOUS
<1> HIDE DEF h
<1>3. IsMemory(n) /\ n.hand = h
  BY Updated
<1> HIDE DEF n
<1>4. Holding(s, n)
  BY <1>2, <1>3 DEF Holding, Syncing
<1>5. queue \in Seq(Task)
  BY Known
<1> QED BY <1>1, <1>3, <1>4, <1>5, StepInv DEF Syncing

(* One that is no sync saves what it has in hand, and marks those who hold *)
(* a building of it; a sync holds nothing else.                            *)
LEMMA SaveInv ==
  ASSUME Inv, NEW a \in Actor, NEW s, NEW m, IsMemory(m), Holding(s, m), s \notin Syncing,
         pc' = [pc EXCEPT ![a] = s], mem' = [mem EXCEPT ![a] = m], queue' = queue,
         lock' = lock \/ (lock = a /\ lock' = Null),
         stale \subseteq stale', NEW S, \A r \in Row \ S : rows'[r] = rows[r],
         S \cap Building = {} \/ Overtaken(a, S) \subseteq stale'
  PROVE  Inv'
<1>1. ASSUME NEW v \in Worker \ {a}, pc[v] = "save", v \notin stale', NEW b \in InHand(v)
      PROVE  rows'[b] = rows[b]
  <2>1. v \in Actor \ {a}
    BY DEF Actor
  <2>2. Holding(pc[v], mem[v])
    BY <2>1, Known
  <2>3. b \in Building /\ b \in Row
    BY <1>1, <2>2, UpkeepAssumption DEF Holding, InHand
  <2>4. b \notin S
    BY <1>1, <2>1, <2>3 DEF Overtaken
  <2> QED BY <2>3, <2>4
<1>2. queue' \in Seq(Task)
  BY Known
<1> QED BY <1>1, <1>2, StepInv DEF Syncing

LEMMA Hands == IsMemory(NoMemory) /\ \A s : s \notin {"keys", "save", "importing"} => \A m : Holding(s, m)
<1> QED BY DEF IsMemory, NoMemory, Holding

LEMMA ReadRowInv == ASSUME Inv, NEW w \in Worker, ReadRow(w) PROVE Inv'
<1>1. PICK r \in Scrambled \ Building : Take(w, {r}, NoMemory)
  BY DEF ReadRow
<1>2. pc' = [pc EXCEPT ![w] = "importing"] /\ UNCHANGED <<rows, queue, lock>>
  BY DEF ReadRow, Goto, database
<1>3. w \in Actor /\ "importing" \notin Syncing /\ {r} \cap Building = {}
  BY DEF Actor, Syncing
<1> QED BY <1>1, <1>2, <1>3, Hands, TakeInv

LEMMA SaveRowInv == ASSUME Inv, NEW w \in Worker, SaveRow(w) PROVE Inv'
<1>1. w \in Actor /\ "idle" \notin Syncing
  BY DEF Actor, Syncing
<1>2. Holding("importing", mem[w])
  BY <1>1, Known DEF SaveRow
<1>3. InHand(w) \cap Building = {}
  BY <1>2 DEF Holding, InHand
<1>4. \A r \in Row \ InHand(w) : rows'[r] = rows[r]
  BY DEF SaveRow, Save
<1>5. /\ pc' = [pc EXCEPT ![w] = "idle"] /\ mem' = [mem EXCEPT ![w] = NoMemory]
      /\ queue' = queue /\ stale' = stale
  BY DEF SaveRow, Done, Goto, Keep
<1>6. lock' = lock \/ (lock = w /\ lock' = Null)
  BY DEF SaveRow, Done
<1>7. InHand(w) \cap Building = {} \/ Overtaken(w, InHand(w)) \subseteq stale'
  BY <1>3
<1>8. IsMemory(NoMemory) /\ Holding("idle", NoMemory) /\ stale \subseteq stale'
  BY <1>5, Hands
<1> QED BY <1>1, <1>4, <1>5, <1>6, <1>7, <1>8, SaveInv

LEMMA RestoreInv == ASSUME Inv, NEW w \in Worker, Restore(w) PROVE Inv'
<1> DEFINE m == [NoMemory EXCEPT !.todo = Tables]
<1>1. w \in Actor /\ "scramble" \notin Syncing
  BY DEF Actor, Syncing
<1>2. mem' = [mem EXCEPT ![w] = m]
  BY DEF Restore, Keep
<1>3. IsMemory(m)
  BY Hands, Updated
<1> HIDE DEF m
<1>4. /\ pc' = [pc EXCEPT ![w] = "scramble"]
      /\ queue' = queue /\ lock' = lock /\ stale' = stale \cup Overtaken(w, Row)
  BY DEF Restore, Goto
<1> QED BY <1>1, <1>2, <1>3, <1>4, Hands, SaveInv

LEMMA ReadTableInv == ASSUME Inv, NEW w \in Worker, ReadTable(w) PROVE Inv'
<1>1. w \in Actor /\ "scrambling" \notin Syncing
  BY DEF Actor, Syncing
<1>2. IsMemory(mem[w])
  BY <1>1, Known
<1>3. /\ Take(w, Head(mem[w].todo), mem[w]) /\ pc' = [pc EXCEPT ![w] = "scrambling"]
      /\ UNCHANGED <<rows, queue, lock>>
  BY DEF ReadTable, Goto, database
<1> QED BY <1>1, <1>2, <1>3, TakeInv

LEMMA SaveTableInv == ASSUME Inv, NEW w \in Worker, SaveTable(w) PROVE Inv'
<1> DEFINE m == [mem[w] EXCEPT !.todo = Tail(@), !.hand = <<>>]
<1>1. w \in Actor /\ "scramble" \notin Syncing
  BY DEF Actor, Syncing
<1>2. mem' = [mem EXCEPT ![w] = m]
  BY DEF SaveTable, Keep
<1>3. IsMemory(mem[w])
  BY <1>1, Known
<1>4. IsMemory(m)
  BY <1>3, Saved
<1> HIDE DEF m
<1>5. \A r \in Row \ InHand(w) : rows'[r] = rows[r]
  BY DEF SaveTable, Save
<1>6. /\ pc' = [pc EXCEPT ![w] = "scramble"]
      /\ queue' = queue /\ lock' = lock /\ stale' = stale \cup Overtaken(w, InHand(w))
  BY DEF SaveTable, Goto
<1> QED BY <1>1, <1>2, <1>4, <1>5, <1>6, Hands, SaveInv

-----------------------------------------------------------------------------
LEMMA ServeInv == ASSUME Inv, NEW q \in Request, Serve(q) PROVE Inv'
<1>1. q \in Actor /\ "served" \notin Syncing
  BY DEF Actor, Syncing
<1>2. IsMemory(mem[q]) /\ queue \in Seq(Task) /\ mem = [mem EXCEPT ![q] = mem[q]]
  BY <1>1, Known
<1>3. Holding("served", mem[q])
  BY DEF Holding
<1>4. /\ pc' = [pc EXCEPT ![q] = "served"] /\ mem' = mem
      /\ queue' = queue /\ lock' = lock /\ stale' = stale /\ rows' = rows
  BY DEF Serve, Goto, database
<1> QED BY <1>1, <1>2, <1>3, <1>4, QuietInv

LEMMA ReadFormInv == ASSUME Inv, NEW q \in Request, ReadForm(q) PROVE Inv'
<1>1. PICK r \in Row : Take(q, {r}, NoMemory)
  BY DEF ReadForm
<1>2. pc' = [pc EXCEPT ![q] = "edit"] /\ UNCHANGED <<rows, queue, lock>>
  BY DEF ReadForm, Goto, database
<1>3. q \in Actor /\ "edit" \notin Syncing
  BY DEF Actor, Syncing
<1> QED BY <1>1, <1>2, <1>3, Hands, TakeInv

LEMMA EditInv == ASSUME Inv, NEW q \in Request, Edit(q) PROVE Inv'
<1>1. q \in Actor /\ "idle" \notin Syncing
  BY DEF Actor, Syncing
<1>2. \A r \in Row \ InHand(q) : rows'[r] = rows[r]
  BY DEF Edit, Save
<1>3. /\ pc' = [pc EXCEPT ![q] = "idle"] /\ mem' = [mem EXCEPT ![q] = NoMemory]
      /\ queue' = queue /\ lock' = lock /\ stale' = stale \cup Overtaken(q, InHand(q))
  BY DEF Edit, Goto, Keep
<1> QED BY <1>1, <1>2, <1>3, Hands, SaveInv

LEMMA PublishInv == ASSUME Inv, NEW f \in File, Publish(f) PROVE Inv'
<1> QED BY NobodysInv DEF Inv, Shape, Publish, database

LEMMA ToggleInv == ASSUME Inv, Toggle PROVE Inv'
<1> QED BY NobodysInv DEF Inv, Shape, Toggle

-----------------------------------------------------------------------------
LEMMA NextInv == Inv /\ [Next]_vars => Inv'
<1> SUFFICES ASSUME Inv, [Next]_vars PROVE Inv'
  OBVIOUS
<1>1. CASE Beat \/ AskReset
  BY <1>1, EnqueueInv DEF Beat, AskReset, Task
<1>2. CASE Toggle \/ \E f \in File : Publish(f)
  BY <1>2, ToggleInv, PublishInv
<1>3. CASE \E w \in Worker : Sync(w)
  BY <1>3, LockInv, ListInv, ReadBuildingInv, SaveBuildingInv, EndSyncInv DEF Sync
<1>4. CASE \E w \in Worker : Reset(w)
  BY <1>4, EnableMaintenanceInv, RestoreInv, ReadTableInv, SaveTableInv, DisableMaintenanceInv DEF Reset
<1>5. CASE \E w \in Worker : StartTask(w) \/ Backup(w) \/ ReadRow(w) \/ SaveRow(w) \/ Fail(w)
  BY <1>5, StartTaskInv, BackupInv, ReadRowInv, SaveRowInv, FailInv
<1>6. CASE \E q \in Request : Serve(q) \/ ReadForm(q) \/ Edit(q)
  BY <1>6, ServeInv, ReadFormInv, EditInv
<1>7. CASE UNCHANGED vars
  BY <1>7, NobodysInv DEF vars, database, Inv, Shape
<1> QED BY <1>1, <1>2, <1>3, <1>4, <1>5, <1>6, <1>7 DEF Next, Work

LEMMA Always == Spec => []Inv
<1> QED BY InitInv, NextInv, PTL DEF Spec

(* Whatever the workers, the rows and the pictures, the building that a    *)
(* sync is about to save is as it read it, but for requests and resets:    *)
(* no picture that another sync has added is lost (panoramas.py l.117,     *)
(* l.198).                                                                 *)
THEOREM SyncsKeepTheirs == Spec => []SyncsKeep
<1>1. Inv => SyncsKeep
  BY DEF Inv
<1> QED BY <1>1, Always, PTL

-----------------------------------------------------------------------------
(***************************************************************************)
(* What a reset has restored is exposed until it is scrambled: of the rows *)
(* that are scrambled one that is exposed is one that a reset under way    *)
(* has still to scramble, as long as no reset fails and nothing read       *)
(* before is saved after.  Rows and copies of rows keep their columns.     *)
(***************************************************************************)
IsRow(row) == row = [private |-> row.private, panos |-> row.panos]

Records == \A r \in Row : IsRow(rows[r]) /\ IsRow(backup.rows[r])

(* What an actor holds: copies of rows; a reset, a table at a time.        *)
Copies(s, m) ==
  /\ \A r \in DOMAIN m.hand : IsRow(m.hand[r])
  /\ s \in {"scramble", "scrambling"} => m.todo \in Seq(SUBSET Row)
  /\ s = "scrambling" => m.todo # <<>> /\ DOMAIN m.hand = Head(m.todo)

(* The rows that a reset has still to restore or to scramble.              *)
Left(s, m) ==
  {r \in Row : \/ s \in {"reset", "restore"}
               \/ s \in {"scramble", "scrambling"} /\ \E i \in DOMAIN m.todo : r \in m.todo[i]}

Awaited(r) == \E w \in Worker : r \in Left(pc[w], mem[w])

PrivateInv ==
  /\ Records /\ \A a \in Actor : Copies(pc[a], mem[a])
  /\ ~failed /\ ~crossed => \A r \in Scrambled : Exposed(rows[r]) => Awaited(r)

(* At the start the database is a scrambled one.                           *)
NonePrivate == \A s \in Start : \A r \in Scrambled : ~Exposed(s.db.rows[r])

LEMMA ScrambledRows == Scrambled \subseteq Row
<1> QED BY UpkeepAssumption DEF Scrambled, Range

LEMMA InitPrivate == ASSUME NonePrivate, Init PROVE PrivateInv
<1>1. PICK s \in Start : rows = s.db.rows /\ backup = s.backup
  BY DEF Init
<1>2. \A r \in Row : IsRow(s.db.rows[r]) /\ IsRow(s.backup.rows[r])
  BY UpkeepAssumption DEF Database, IsRow
<1>3. \A a \in Actor : Copies(pc[a], mem[a])
  BY DEF Init, Copies, NoMemory
<1> QED BY <1>1, <1>2, <1>3 DEF NonePrivate, PrivateInv, Records

(* A step of one actor: it exposes no row but such as it has still to      *)
(* scramble, and has scrambled those it has no longer to.                  *)
LEMMA StepPrivate ==
  ASSUME Inv, PrivateInv, NEW a \in Actor, NEW s, NEW m, Copies(s, m),
         pc' = [pc EXCEPT ![a] = s], mem' = [mem EXCEPT ![a] = m], Records',
         failed => failed', crossed => crossed',
         \A r \in Scrambled : ~failed' /\ ~crossed' /\ Exposed(rows'[r]) =>
           \/ a \in Worker /\ r \in Left(s, m)
           \/ Exposed(rows[r]) /\ r \notin Left(pc[a], mem[a])
  PROVE  PrivateInv'
<1>1. /\ pc'[a] = s /\ mem'[a] = m
      /\ \A c \in Actor \ {a} : pc'[c] = pc[c] /\ mem'[c] = mem[c]
  BY DEF Inv, Shape
<1>2. \A c \in Actor : Copies(pc'[c], mem'[c])
  BY <1>1 DEF PrivateInv
<1>3. ASSUME NEW r \in Scrambled, ~failed', ~crossed', Exposed(rows'[r]) PROVE Awaited(r)'
  <2>1. CASE a \in Worker /\ r \in Left(s, m)
    BY <1>1, <2>1 DEF Awaited
  <2>2. CASE Exposed(rows[r]) /\ r \notin Left(pc[a], mem[a])
    <3>1. PICK w \in Worker : r \in Left(pc[w], mem[w])
      BY <1>3, <2>2 DEF PrivateInv, Awaited
    <3>2. w \in Actor \ {a}
      BY <2>2, <3>1 DEF Actor
    <3>3. r \in Left(pc'[w], mem'[w])
      BY <1>1, <3>1, <3>2
    <3> QED BY <3>3 DEF Awaited
  <2> QED BY <1>3, <2>1, <2>2
<1> QED BY <1>2, <1>3 DEF PrivateInv, Copies, Left, Awaited, Exposed

(* The same of a step that saves nothing.                                  *)
LEMMA QuietPrivate ==
  ASSUME Inv, PrivateInv, NEW a \in Actor, NEW s, NEW m, Copies(s, m),
         pc' = [pc EXCEPT ![a] = s], mem' = [mem EXCEPT ![a] = m],
         rows' = rows, Records', failed => failed', crossed' = crossed,
         ~failed' => \/ Left(pc[a], mem[a]) = {}
                     \/ a \in Worker /\ Left(pc[a], mem[a]) \subseteq Left(s, m)
  PROVE  PrivateInv'
<1> QED BY StepPrivate

(* The same of a step of one that resets nothing and saves what it holds.  *)
LEMMA SavePrivate ==
  ASSUME Inv, PrivateInv, NEW a \in Actor, NEW s, NEW m, Copies(s, m),
         pc' = [pc EXCEPT ![a] = s], mem' = [mem EXCEPT ![a] = m],
         pc[a] \in {"save", "importing", "edit"}, UNCHANGED <<backup, failed>>,
         \A r \in Row : rows'[r] = rows[r] \/ IsRow(rows'[r]),
         crossed' = (crossed \/ \E r \in Scrambled : Exposed(rows'[r]) /\ ~Exposed(rows[r]))
  PROVE  PrivateInv'
<1>1. Records'
  BY DEF PrivateInv, Records, IsRow
<1>2. Left(pc[a], mem[a]) = {}
  BY DEF Left
<1>3. \A r \in Scrambled : ~crossed' /\ Exposed(rows'[r]) => Exposed(rows[r])
  OBVIOUS
<1> QED BY <1>1, <1>2, <1>3, StepPrivate

(* Nobody's step.                                                          *)
LEMMA NobodysPrivate ==
  ASSUME PrivateInv, UNCHANGED <<rows, backup, pc, mem, failed, crossed>>
  PROVE  PrivateInv'
<1> QED BY DEF PrivateInv, Records, Copies, Left, Awaited, IsRow, Exposed

(* Nothing in hand, and no reset.                                          *)
LEMMA Empty ==
  /\ \A s : s \notin {"scramble", "scrambling"} => Copies(s, NoMemory)
  /\ \A s, m : s \notin {"reset", "restore", "scramble", "scrambling"} => Left(s, m) = {}
<1> QED BY DEF Copies, NoMemory, Left

LEMMA Copied == ASSUME PrivateInv, NEW a \in Actor PROVE Copies(pc[a], mem[a]) /\ Records
<1> QED BY DEF PrivateInv

LEMMA DonePrivate ==
  ASSUME Inv, PrivateInv, NEW w \in Worker, Done(w), Records', rows' = rows,
         failed => failed', crossed' = crossed, ~failed' => Left(pc[w], mem[w]) = {}
  PROVE  PrivateInv'
<1>1. w \in Actor
  BY DEF Actor
<1>2. pc' = [pc EXCEPT ![w] = "idle"] /\ mem' = [mem EXCEPT ![w] = NoMemory]
  BY DEF Done, Goto, Keep
<1> QED BY <1>1, <1>2, Empty, QuietPrivate

-----------------------------------------------------------------------------
LEMMA StartTaskPrivate == ASSUME Inv, PrivateInv, NEW w \in Worker, StartTask(w) PROVE PrivateInv'
<1>1. w \in Actor /\ queue \in Seq(Task) /\ mem = [mem EXCEPT ![w] = mem[w]]
  BY Known DEF Actor
<1>2. PICK s : s = IF Head(queue) \in flags THEN Head(queue) ELSE "idle"
  OBVIOUS
<1>3. s \notin {"scramble", "scrambling"}
  BY <1>1, <1>2 DEF StartTask, Task
<1>4. Copies(s, mem[w])
  BY <1>1, <1>3, Copied DEF Copies
<1>5. /\ pc[w] = "idle" /\ pc' = [pc EXCEPT ![w] = s] /\ mem' = [mem EXCEPT ![w] = mem[w]]
      /\ UNCHANGED <<rows, backup, failed, crossed>>
  BY <1>1, <1>2 DEF StartTask, Goto, database
<1>6. Records' /\ Left(pc[w], mem[w]) = {}
  BY <1>1, <1>5, Copied, Empty DEF Records, IsRow
<1> QED BY <1>1, <1>4, <1>5, <1>6, QuietPrivate

LEMMA LockPrivate == ASSUME Inv, PrivateInv, NEW w \in Worker, Lock(w) PROVE PrivateInv'
<1>1. PICK m : m = [NoMemory EXCEPT !.tries = 3]
  OBVIOUS
<1>2. m.hand = <<>>
  BY <1>1 DEF NoMemory
<1>3. Copies("github", m)
  BY <1>2 DEF Copies
<1>4. w \in Actor
  BY DEF Actor
<1>5. /\ pc[w] = "panoramas" /\ pc' = [pc EXCEPT ![w] = "github"] /\ mem' = [mem EXCEPT ![w] = m]
      /\ UNCHANGED <<rows, backup, failed, crossed>>
  BY <1>1 DEF Lock, Goto, Keep, database
<1>6. Records' /\ Left(pc[w], mem[w]) = {}
  BY <1>4, <1>5, Copied, Empty DEF Records, IsRow
<1> QED BY <1>3, <1>4, <1>5, <1>6, QuietPrivate

(* A memory with other numbers to do, files or attempts holds the same.    *)
LEMMA Retained ==
  ASSUME NEW m, IsMemory(m), NEW v
  PROVE  /\ [m EXCEPT !.todo = v].hand = m.hand /\ [m EXCEPT !.files = v].hand = m.hand
         /\ [m EXCEPT !.tries = v].hand = m.hand
<1> QED BY DEF IsMemory

LEMMA ListPrivate == ASSUME Inv, PrivateInv, NEW w \in Worker, List(w) PROVE PrivateInv'
<1>1. w \in Actor
  BY DEF Actor
<1>2. IsMemory(mem[w]) /\ pc = [pc EXCEPT ![w] = pc[w]]
  BY <1>1, Known
<1>3. UNCHANGED <<rows, backup, failed, crossed>> /\ pc[w] = "github"
  BY DEF List, database
<1>4. Records' /\ Left(pc[w], mem[w]) = {}
  BY <1>1, <1>3, Copied, Empty DEF Records, IsRow
<1>5. Copies("github", mem[w])
  BY <1>1, <1>3, Copied
<1>6. CASE /\ Keep(w, [mem[w] EXCEPT !.files = files, !.todo = Keys])
           /\ Goto(w, "keys") /\ UNCHANGED <<lock, fails>>
  <2>1. PICK n : n = [mem[w] EXCEPT !.files = files]
    OBVIOUS
  <2>2. PICK m : m = [n EXCEPT !.todo = Keys]
    OBVIOUS
  <2>3. mem' = [mem EXCEPT ![w] = m] /\ pc' = [pc EXCEPT ![w] = "keys"]
    BY <1>6, <2>1, <2>2 DEF Keep, Goto
  <2>4. m.hand = mem[w].hand
    BY <1>2, <2>1, <2>2, Updated, Retained
  <2>5. Copies("keys", m)
    BY <1>5, <2>4 DEF Copies
  <2> QED BY <1>1, <1>3, <1>4, <2>3, <2>5, QuietPrivate
<1>7. CASE Keep(w, [mem[w] EXCEPT !.tries = @ - 1]) /\ UNCHANGED <<pc, lock>>
  <2>1. PICK m : m = [mem[w] EXCEPT !.tries = @ - 1]
    OBVIOUS
  <2>2. mem' = [mem EXCEPT ![w] = m] /\ pc' = [pc EXCEPT ![w] = "github"]
    BY <1>2, <1>3, <1>7, <2>1 DEF Keep
  <2>3. m.hand = mem[w].hand
    BY <1>2, <2>1, Retained
  <2>4. Copies("github", m)
    BY <1>5, <2>3 DEF Copies
  <2> QED BY <1>1, <1>3, <1>4, <2>2, <2>4, QuietPrivate
<1>8. CASE Done(w)
  BY <1>1, <1>3, <1>4, <1>8, DonePrivate
<1> QED BY <1>6, <1>7, <1>8 DEF List

(* Rows are read as they are.                                              *)
LEMMA TakePrivate ==
  ASSUME Inv, PrivateInv, NEW a \in Actor, NEW s, NEW S, NEW m, IsMemory(m), Take(a, S, m), S \subseteq Row,
         s \in {"scramble", "scrambling"} => a \in Worker /\ pc[a] = "scramble" /\ m = mem[a],
         s = "scrambling" => m.todo # <<>> /\ S = Head(m.todo),
         s \notin {"scramble", "scrambling"} => Left(pc[a], mem[a]) = {},
         pc' = [pc EXCEPT ![a] = s], UNCHANGED <<rows, backup, failed, crossed>>
  PROVE  PrivateInv'
<1>1. PICK h : h = [r \in S |-> rows[r]]
  OBVIOUS
<1>2. PICK n : n = [m EXCEPT !.hand = h]
  OBVIOUS
<1>3. mem' = [mem EXCEPT ![a] = n]
  BY <1>1, <1>2 DEF Take, Keep
<1>4. n.todo = m.todo /\ n.hand = h
  BY <1>2, Updated
<1>5. DOMAIN h = S /\ \A r \in S : IsRow(h[r])
  BY <1>1, Copied DEF Records
<1>6. Copies(s, n)
  BY <1>4, <1>5, Copied DEF Copies
<1>7. Left(pc[a], mem[a]) = {} \/ (a \in Worker /\ Left(pc[a], mem[a]) \subseteq Left(s, n))
  BY <1>4 DEF Left
<1>8. Records'
  BY Copied DEF Records, IsRow
<1> QED BY <1>3, <1>6, <1>7, <1>8, QuietPrivate

LEMMA ReadBuildingPrivate == ASSUME Inv, PrivateInv, NEW w \in Worker, ReadBuilding(w) PROVE PrivateInv'
<1>1. w \in Actor
  BY DEF Actor
<1>2. IsMemory(mem[w]) /\ pc = [pc EXCEPT ![w] = pc[w]] /\ Holding(pc[w], mem[w])
  BY <1>1, Known
<1>3. UNCHANGED <<rows, backup, failed, crossed>> /\ pc[w] = "keys" /\ mem[w].todo # <<>>
  BY DEF ReadBuilding, database
<1>4. Records' /\ Left(pc[w], mem[w]) = {}
  BY <1>1, <1>3, Copied, Empty DEF Records, IsRow
<1> DEFINE k == Head(mem[w].todo)
<1>5. k \in Key
  BY <1>2, <1>3 DEF Holding
<1>6. CASE Keep(w, [mem[w] EXCEPT !.todo = Tail(@)]) /\ UNCHANGED <<pc, stale>>
  <2>1. PICK m : m = [mem[w] EXCEPT !.todo = Tail(@)]
    OBVIOUS
  <2>2. mem' = [mem EXCEPT ![w] = m] /\ pc' = [pc EXCEPT ![w] = "keys"]
    BY <1>2, <1>3, <1>6, <2>1 DEF Keep
  <2>3. m.hand = mem[w].hand
    BY <1>2, <2>1, Retained
  <2>4. Copies("keys", m)
    BY <1>1, <2>3, Copied DEF Copies
  <2> QED BY <1>1, <1>3, <1>4, <2>2, <2>4, QuietPrivate
<1>7. CASE BuildingOf[k] # Null /\ Take(w, {BuildingOf[k]}, mem[w]) /\ Goto(w, "save")
  <2>1. BuildingOf[k] \in Row
    BY <1>5, <1>7, UpkeepAssumption DEF Building, Range
  <2>2. pc' = [pc EXCEPT ![w] = "save"]
    BY <1>7 DEF Goto
  <2>3. PICK S : S = {BuildingOf[k]} /\ Take(w, S, mem[w])
    BY <1>7
  <2>4. S \subseteq Row
    BY <2>1, <2>3
  <2> QED BY <1>1, <1>2, <1>3, <1>4, <2>2, <2>3, <2>4, TakePrivate
<1> QED BY <1>6, <1>7 DEF ReadBuilding

(* Panoramas that are saved are added to a row as it was read.             *)
LEMMA SaveBuildingPrivate == ASSUME Inv, PrivateInv, NEW w \in Worker, SaveBuilding(w) PROVE PrivateInv'
<1>1. w \in Actor
  BY DEF Actor
<1>2. IsMemory(mem[w]) /\ Copies(pc[w], mem[w])
  BY <1>1, Known, Copied
<1>3. pc[w] = "save" /\ UNCHANGED <<backup, failed>>
  BY DEF SaveBuilding
<1>4. PICK m : m = [mem[w] EXCEPT !.todo = Tail(@), !.hand = <<>>]
  OBVIOUS
<1>5. mem' = [mem EXCEPT ![w] = m] /\ pc' = [pc EXCEPT ![w] = "keys"]
  BY <1>4 DEF SaveBuilding, Keep, Goto
<1>6. m.hand = <<>>
  BY <1>2, <1>4 DEF IsMemory
<1>7. Copies("keys", m)
  BY <1>6 DEF Copies
<1>8. CASE UNCHANGED <<rows, crossed>>
  <2>1. Records' /\ Left(pc[w], mem[w]) = {}
    BY <1>1, <1>3, <1>8, Copied, Empty DEF Records, IsRow
  <2> QED BY <1>1, <1>3, <1>5, <1>7, <1>8, <2>1, QuietPrivate
<1>9. CASE /\ \A r \in Row : rows'[r] = IF r \in InHand(w)
                                       THEN [mem[w].hand[r] EXCEPT !.panos = @ \cup New(w)] ELSE rows[r]
           /\ crossed' = (crossed \/ \E r \in Scrambled : Exposed(rows'[r]) /\ ~Exposed(rows[r]))
  <2>1. \A r \in Row : rows'[r] = rows[r] \/ IsRow(rows'[r])
    BY <1>2, <1>9 DEF Copies, IsRow, InHand
  <2> QED BY <1>1, <1>3, <1>5, <1>7, <1>9, <2>1, SavePrivate
<1> QED BY <1>8, <1>9 DEF SaveBuilding, Save

LEMMA EndSyncPrivate == ASSUME Inv, PrivateInv, NEW w \in Worker, EndSync(w) PROVE PrivateInv'
<1>1. w \in Actor /\ pc[w] = "keys" /\ Done(w) /\ UNCHANGED <<rows, backup, failed, crossed>>
  BY DEF EndSync, database, Actor
<1>2. Records' /\ Left(pc[w], mem[w]) = {}
  BY <1>1, Copied, Empty DEF Records, IsRow
<1> QED BY <1>1, <1>2, DonePrivate

LEMMA BackupPrivate == ASSUME Inv, PrivateInv, NEW w \in Worker, Backup(w) PROVE PrivateInv'
<1>1. w \in Actor /\ pc[w] = "backup" /\ Done(w) /\ UNCHANGED <<rows, failed, crossed>> /\ backup'.rows = rows
  BY DEF Backup, database, Actor
<1>2. Records' /\ Left(pc[w], mem[w]) = {}
  BY <1>1, Copied, Empty DEF Records, IsRow
<1> QED BY <1>1, <1>2, DonePrivate

(* A reset that fails may leave what it has restored.                      *)
LEMMA FailPrivate == ASSUME Inv, PrivateInv, NEW w \in Worker, Fail(w) PROVE PrivateInv'
<1>1. w \in Actor /\ Done(w) /\ UNCHANGED <<rows, backup, crossed>>
  BY DEF Fail, database, Actor
<1>2. failed' = (failed \/ pc[w] \in {"reset", "restore", "scramble", "scrambling"})
  BY DEF Fail
<1>3. Records' /\ (~failed' => Left(pc[w], mem[w]) = {})
  BY <1>1, <1>2, Copied, Empty DEF Records, IsRow
<1> QED BY <1>1, <1>2, <1>3, DonePrivate

-----------------------------------------------------------------------------
LEMMA ReadRowPrivate == ASSUME Inv, PrivateInv, NEW w \in Worker, ReadRow(w) PROVE PrivateInv'
<1>1. PICK r \in Scrambled \ Building : Take(w, {r}, NoMemory)
  BY DEF ReadRow
<1>2. /\ w \in Actor /\ pc[w] = "import" /\ pc' = [pc EXCEPT ![w] = "importing"]
      /\ UNCHANGED <<rows, backup, failed, crossed>>
  BY DEF ReadRow, Goto, database, Actor
<1> QED BY <1>1, <1>2, Hands, Empty, ScrambledRows, TakePrivate

LEMMA SaveRowPrivate == ASSUME Inv, PrivateInv, NEW w \in Worker, SaveRow(w) PROVE PrivateInv'
<1>1. w \in Actor /\ pc[w] = "importing" /\ UNCHANGED <<backup, failed>>
  BY DEF SaveRow, Actor
<1>2. pc' = [pc EXCEPT ![w] = "idle"] /\ mem' = [mem EXCEPT ![w] = NoMemory]
  BY DEF SaveRow, Done, Goto, Keep
<1>3. \A r \in Row : rows'[r] = IF r \in DOMAIN mem[w].hand THEN mem[w].hand[r] ELSE rows[r]
  BY DEF SaveRow, Save, InHand
<1>4. Copies(pc[w], mem[w])
  BY <1>1, Copied
<1>5. \A r \in Row : rows'[r] = rows[r] \/ IsRow(rows'[r])
  BY <1>3, <1>4 DEF Copies
<1>6. crossed' = (crossed \/ \E r \in Scrambled : Exposed(rows'[r]) /\ ~Exposed(rows[r]))
  BY DEF SaveRow, Save
<1> QED BY <1>1, <1>2, <1>5, <1>6, Empty, SavePrivate

LEMMA EnableMaintenancePrivate ==
  ASSUME Inv, PrivateInv, NEW w \in Worker, EnableMaintenance(w) PROVE PrivateInv'
<1>1. w \in Actor /\ mem = [mem EXCEPT ![w] = mem[w]]
  BY Known DEF Actor
<1>2. /\ pc[w] = "reset" /\ pc' = [pc EXCEPT ![w] = "restore"] /\ mem' = [mem EXCEPT ![w] = mem[w]]
      /\ UNCHANGED <<rows, backup, failed, crossed>>
  BY <1>1 DEF EnableMaintenance, Goto
<1>3. Copies("restore", mem[w])
  BY <1>1, Copied DEF Copies
<1>4. Left(pc[w], mem[w]) \subseteq Left("restore", mem[w])
  BY DEF Left
<1>5. Records'
  BY <1>1, <1>2, Copied DEF Records, IsRow
<1> QED BY <1>1, <1>2, <1>3, <1>4, <1>5, QuietPrivate

(* Every row that is restored is in a table that is still to be scrambled. *)
LEMMA RestorePrivate == ASSUME Inv, PrivateInv, NEW w \in Worker, Restore(w) PROVE PrivateInv'
<1>1. PICK m : m = [NoMemory EXCEPT !.todo = Tables]
  OBVIOUS
<1>2. m.todo = Tables /\ m.hand = <<>>
  BY <1>1 DEF NoMemory
<1>3. /\ w \in Actor /\ pc' = [pc EXCEPT ![w] = "scramble"] /\ mem' = [mem EXCEPT ![w] = m]
      /\ rows' = backup.rows /\ UNCHANGED <<backup, failed, crossed>>
  BY <1>1 DEF Restore, Goto, Keep, Actor
<1>4. Copies("scramble", m)
  BY <1>2, UpkeepAssumption DEF Copies
<1>5. \A r \in Scrambled : r \in Left("scramble", m)
  BY <1>2, ScrambledRows DEF Left, Scrambled, Range
<1>6. Records'
  BY <1>3, Copied DEF Records, IsRow
<1> QED BY <1>3, <1>4, <1>5, <1>6, StepPrivate

LEMMA ReadTablePrivate == ASSUME Inv, PrivateInv, NEW w \in Worker, ReadTable(w) PROVE PrivateInv'
<1>1. /\ w \in Actor /\ pc[w] = "scramble" /\ mem[w].todo # <<>> /\ Take(w, Head(mem[w].todo), mem[w])
      /\ pc' = [pc EXCEPT ![w] = "scrambling"] /\ UNCHANGED <<rows, backup, failed, crossed>>
  BY DEF ReadTable, Goto, database, Actor
<1>2. IsMemory(mem[w]) /\ mem[w].todo \in Seq(SUBSET Row)
  BY <1>1, Known, Copied DEF Copies
<1>3. Head(mem[w].todo) \subseteq Row
  BY <1>1, <1>2
<1> QED BY <1>1, <1>2, <1>3, TakePrivate

(* The table in hand is scrambled, and what comes after it is left.        *)
LEMMA SaveTablePrivate == ASSUME Inv, PrivateInv, NEW w \in Worker, SaveTable(w) PROVE PrivateInv'
<1>1. PICK m : m = [mem[w] EXCEPT !.todo = Tail(@), !.hand = <<>>]
  OBVIOUS
<1>2. /\ w \in Actor /\ pc[w] = "scrambling" /\ pc' = [pc EXCEPT ![w] = "scramble"]
      /\ mem' = [mem EXCEPT ![w] = m] /\ UNCHANGED <<backup, failed>>
  BY <1>1 DEF SaveTable, Goto, Keep, Actor
<1>3. IsMemory(mem[w]) /\ Copies("scrambling", mem[w]) /\ Records
  BY <1>2, Known, Copied
<1>4. PICK t, h : t = mem[w].todo /\ h = mem[w].hand
  OBVIOUS
<1>5. /\ t \in Seq(SUBSET Row) /\ t # <<>> /\ DOMAIN h = Head(t) /\ \A r \in DOMAIN h : IsRow(h[r])
  BY <1>3, <1>4 DEF Copies
<1>6. m.todo = Tail(t) /\ m.hand = <<>>
  BY <1>1, <1>3, <1>4 DEF IsMemory
<1>7. Copies("scramble", m)
  BY <1>5, <1>6 DEF Copies
<1>8. \A r \in Row : rows'[r] = IF r \in DOMAIN h THEN [h[r] EXCEPT !.private = @ \cap {"range"}]
                                  ELSE rows[r]
  BY <1>4 DEF SaveTable, Save, InHand
<1>9. /\ \A r \in DOMAIN h : r \in Row => IsRow(rows'[r]) /\ ~Exposed(rows'[r])
      /\ \A r \in Row \ DOMAIN h : rows'[r] = rows[r]
  BY <1>5, <1>8 DEF IsRow, Exposed
<1>10. Records'
  BY <1>2, <1>3, <1>9 DEF Records, IsRow
<1>11. crossed => crossed'
  BY DEF SaveTable, Save
<1>12. ASSUME NEW r \in Row, r \in Left(pc[w], mem[w]), r \notin DOMAIN h PROVE r \in Left("scramble", m)
  <2>1. PICK i \in DOMAIN t : r \in t[i]
    BY <1>2, <1>4, <1>12 DEF Left
  <2>2. i # 1
    BY <1>5, <1>12, <2>1
  <2>3. i - 1 \in DOMAIN Tail(t) /\ Tail(t)[i - 1] = t[i]
    BY <1>5, <2>1, <2>2
  <2> QED BY <1>6, <2>1, <2>3 DEF Left
<1>13. \A r \in Scrambled : Exposed(rows'[r]) =>
         r \in Left("scramble", m) \/ (Exposed(rows[r]) /\ r \notin Left(pc[w], mem[w]))
  BY <1>9, <1>12, ScrambledRows
<1> QED BY <1>2, <1>7, <1>10, <1>11, <1>13, StepPrivate

LEMMA DisableMaintenancePrivate ==
  ASSUME Inv, PrivateInv, NEW w \in Worker, DisableMaintenance(w) PROVE PrivateInv'
<1>1. /\ w \in Actor /\ pc[w] = "scramble" /\ mem[w].todo = <<>> /\ Done(w)
      /\ UNCHANGED <<rows, backup, failed, crossed>>
  BY DEF DisableMaintenance, Actor
<1>2. Left(pc[w], mem[w]) = {}
  BY <1>1 DEF Left
<1>3. Records'
  BY <1>1, Copied DEF Records, IsRow
<1> QED BY <1>1, <1>2, <1>3, DonePrivate

-----------------------------------------------------------------------------
LEMMA ServePrivate == ASSUME Inv, PrivateInv, NEW q \in Request, Serve(q) PROVE PrivateInv'
<1>1. q \in Actor /\ mem = [mem EXCEPT ![q] = mem[q]]
  BY Known DEF Actor
<1>2. /\ pc[q] = "idle" /\ pc' = [pc EXCEPT ![q] = "served"] /\ mem' = [mem EXCEPT ![q] = mem[q]]
      /\ UNCHANGED <<rows, backup, failed, crossed>>
  BY <1>1 DEF Serve, Goto, database
<1>3. Copies("served", mem[q])
  BY <1>1, Copied DEF Copies
<1>4. Records' /\ Left(pc[q], mem[q]) = {}
  BY <1>1, <1>2, Copied, Empty DEF Records, IsRow
<1> QED BY <1>1, <1>2, <1>3, <1>4, QuietPrivate

LEMMA ReadFormPrivate == ASSUME Inv, PrivateInv, NEW q \in Request, ReadForm(q) PROVE PrivateInv'
<1>1. PICK r \in Row : Take(q, {r}, NoMemory)
  BY DEF ReadForm
<1>2. /\ q \in Actor /\ pc[q] = "served" /\ pc' = [pc EXCEPT ![q] = "edit"]
      /\ UNCHANGED <<rows, backup, failed, crossed>>
  BY DEF ReadForm, Goto, database, Actor
<1> QED BY <1>1, <1>2, Hands, Empty, TakePrivate

LEMMA EditPrivate == ASSUME Inv, PrivateInv, NEW q \in Request, Edit(q) PROVE PrivateInv'
<1>1. q \in Actor /\ pc[q] = "edit" /\ UNCHANGED <<backup, failed>>
  BY DEF Edit, Actor
<1>2. pc' = [pc EXCEPT ![q] = "idle"] /\ mem' = [mem EXCEPT ![q] = NoMemory]
  BY DEF Edit, Goto, Keep
<1>3. PICK S \in {{}, File} :
        rows' = [r \in Row |-> IF r \in InHand(q)
                               THEN IF mem[q].hand[r].panos = Null THEN mem[q].hand[r]
                                    ELSE [mem[q].hand[r] EXCEPT !.panos = @ \cap S]
                               ELSE rows[r]]
  BY ZenonT(60) DEF Edit, Save
<1>4. Copies(pc[q], mem[q])
  BY <1>1, Copied
<1>5. \A r \in Row :
        rows'[r] = IF r \in InHand(q)
                   THEN IF mem[q].hand[r].panos = Null THEN mem[q].hand[r]
                        ELSE [mem[q].hand[r] EXCEPT !.panos = @ \cap S]
                   ELSE rows[r]
  BY <1>3
<1>6. \A r \in Row : rows'[r] = rows[r] \/ IsRow(rows'[r])
  <2> SUFFICES ASSUME NEW r \in Row, r \in InHand(q) PROVE IsRow(rows'[r])
    BY <1>5
  <2>1. IsRow(mem[q].hand[r])
    BY <1>4 DEF Copies, InHand
  <2>2. PICK row : row = mem[q].hand[r]
    OBVIOUS
  <2>3. rows'[r] = row \/ rows'[r] = [row EXCEPT !.panos = @ \cap S]
    BY <1>5, <2>2
  <2> QED BY <2>1, <2>2, <2>3 DEF IsRow
<1>7. crossed' = (crossed \/ \E r \in Scrambled : Exposed(rows'[r]) /\ ~Exposed(rows[r]))
  BY DEF Edit, Save
<1> QED BY <1>1, <1>2, <1>6, <1>7, Empty, SavePrivate

-----------------------------------------------------------------------------
LEMMA NextPrivate == Inv /\ PrivateInv /\ [Next]_vars => PrivateInv'
<1> SUFFICES ASSUME Inv, PrivateInv, [Next]_vars PROVE PrivateInv'
  OBVIOUS
<1>1. CASE Beat \/ AskReset
  BY <1>1, NobodysPrivate DEF Beat, AskReset, Enqueue, database
<1>2. CASE Toggle \/ \E f \in File : Publish(f)
  BY <1>2, NobodysPrivate DEF Toggle, Publish, database
<1>3. CASE \E w \in Worker : Sync(w)
  BY <1>3, LockPrivate, ListPrivate, ReadBuildingPrivate, SaveBuildingPrivate, EndSyncPrivate DEF Sync
<1>4. CASE \E w \in Worker : Reset(w)
  BY <1>4, EnableMaintenancePrivate, RestorePrivate, ReadTablePrivate, SaveTablePrivate,
     DisableMaintenancePrivate DEF Reset
<1>5. CASE \E w \in Worker : StartTask(w) \/ Backup(w) \/ ReadRow(w) \/ SaveRow(w) \/ Fail(w)
  BY <1>5, StartTaskPrivate, BackupPrivate, ReadRowPrivate, SaveRowPrivate, FailPrivate
<1>6. CASE \E q \in Request : Serve(q) \/ ReadForm(q) \/ Edit(q)
  BY <1>6, ServePrivate, ReadFormPrivate, EditPrivate
<1>7. CASE UNCHANGED vars
  BY <1>7, NobodysPrivate DEF vars, database
<1> QED BY <1>1, <1>2, <1>3, <1>4, <1>5, <1>6, <1>7 DEF Next, Work

(* For any workers, requests, tables and backups: when the tables that are *)
(* scrambled hold nothing of production at the start but street numbers    *)
(* that are no numbers, they hold no more of it whenever no reset is under *)
(* way, unless a reset has failed or a row that was read before it was     *)
(* scrambled has been saved since (scramble_members.py l.54-135).          *)
THEOREM NothingPrivateStays ==
  ASSUME NonePrivate PROVE Spec => []NothingPrivate
<1>1. PrivateInv => NothingPrivate
  BY Empty DEF PrivateInv, Awaited, NothingPrivate, Resetting
<1> QED BY <1>1, Always, InitPrivate, NextPrivate, PTL DEF Spec

=============================================================================
