--------------------------- MODULE Webhooks_proofs ---------------------------
(***************************************************************************)
(* Theorems about Webhooks, for any number of workers, events and attempts. *)
(***************************************************************************)
EXTENDS Webhooks, FiniteSetTheorems, TLAPS

(* The events in a worker's hands, and the attempts made for each event.   *)
Holds(w, e) == pc[w] \in {"post", "hung"} /\ task[w] = e

OneWorkerEach ==
  /\ \A w \in Proc, e \in Event : Holds(w, e) => stage[e] = "running"
  /\ \A v, w \in Proc, e \in Event : Holds(v, e) /\ Holds(w, e) => v = w

PostsCounted ==
  \A e \in Event :
    /\ stage[e] \in {"new", "ignored", "queued"} => posts[e] = retries[e]
    /\ stage[e] \notin {"new", "ignored", "queued"} => posts[e] = retries[e] + 1

Inv == TypeOK /\ OneWorkerEach /\ PostsCounted

LEMMA InitInv == Init => Inv
<1> SUFFICES ASSUME Init PROVE Inv
  OBVIOUS
<1>1. TypeOK
  <2>1. [enabled |-> TRUE, failures |-> 0] \in Row /\ switchedOff \in BOOLEAN
    BY DEF Init, Row
  <2> QED BY <2>1, WebhookAssumption DEF Init, TypeOK, Stage
<1>2. OneWorkerEach /\ PostsCounted
  BY DEF Init, OneWorkerEach, Holds, PostsCounted
<1> QED BY <1>1, <1>2 DEF Inv

LEMMA FireInv == ASSUME Inv, NEW e \in Event, Fire(e) PROVE Inv'
<1>1. TypeOK'
  BY DEF Inv, TypeOK, Fire, Stage
<1>2. OneWorkerEach'
  BY DEF Inv, TypeOK, OneWorkerEach, Holds, Fire
<1>3. PostsCounted'
  BY DEF Inv, TypeOK, PostsCounted, Fire
<1> QED BY <1>1, <1>2, <1>3 DEF Inv

LEMMA StartInv == ASSUME Inv, NEW w \in Worker, NEW e \in Event, Start(w, e) PROVE Inv'
<1>0. w \in Proc
  BY DEF Proc
<1>1. TypeOK'
  BY <1>0, WebhookAssumption DEF Inv, TypeOK, Start, Runnable, Goto, Stage
<1>2. OneWorkerEach'
  BY <1>0, WebhookAssumption DEF Inv, TypeOK, OneWorkerEach, Holds, Start, Runnable, Goto
<1>3. PostsCounted'
  BY DEF Inv, TypeOK, PostsCounted, Start, Runnable
<1> QED BY <1>1, <1>2, <1>3 DEF Inv

(* A worker that leaves its task for good, with any row in its memory.     *)
LEMMA EndInv ==
  ASSUME Inv, NEW w \in Worker, NEW outcome \in {"delivered", "failed", "aborted", "lost"},
         pc[w] = "post", End(w, task[w], outcome),
         copy' \in [Proc -> Row], Goto(w, "idle") \/ Goto(w, "save"),
         crashes' \in 0 .. MaxCrashes, UNCHANGED <<hook, retries, posts, switchedOff>>
  PROVE  Inv'
<1>0. /\ w \in Proc /\ task[w] \in Event /\ stage[task[w]] = "running"
  BY WebhookAssumption DEF Proc, Inv, TypeOK
<1>1. TypeOK'
  BY <1>0, WebhookAssumption DEF Inv, TypeOK, OneWorkerEach, Holds, End, Goto, Stage
<1>2. OneWorkerEach'
  BY <1>0, WebhookAssumption DEF Inv, TypeOK, OneWorkerEach, Holds, End, Goto
<1>3. PostsCounted'
  BY <1>0 DEF Inv, TypeOK, PostsCounted, End
<1> QED BY <1>1, <1>2, <1>3 DEF Inv

LEMMA RetryInv == ASSUME Inv, NEW w \in Worker, Retry(w) PROVE Inv'
<1>0. /\ w \in Proc /\ task[w] \in Event /\ stage[task[w]] = "running"
  BY WebhookAssumption DEF Proc, Inv, TypeOK, Retry
<1>1. TypeOK'
  BY <1>0, WebhookAssumption
     DEF Inv, TypeOK, OneWorkerEach, Holds, Retry, RetriesLeft, End, Goto, Stage
<1>2. OneWorkerEach'
  BY <1>0, WebhookAssumption DEF Inv, TypeOK, OneWorkerEach, Holds, Retry, End, Goto
<1>3. PostsCounted'
  BY <1>0 DEF Inv, TypeOK, PostsCounted, Retry, RetriesLeft, End
<1> QED BY <1>1, <1>2, <1>3 DEF Inv

(* Steps that touch no event: the row, a copy of it, or a label changes.   *)
LEMMA OtherInv ==
  ASSUME Inv, NEW p \in Proc, NEW l \in {"idle", "save", "hung", "edit"},
         Goto(p, l), hook' \in Row, copy' \in [Proc -> Row],
         l = "hung" => pc[p] = "post",
         UNCHANGED <<stage, retries, task, posts>>, crashes' \in 0 .. MaxCrashes, switchedOff' \in BOOLEAN
  PROVE  Inv'
<1>1. TypeOK'
  BY DEF Inv, TypeOK, Goto
<1>2. OneWorkerEach'
  BY DEF Inv, TypeOK, OneWorkerEach, Holds, Goto
<1>3. PostsCounted'
  BY DEF Inv, PostsCounted
<1> QED BY <1>1, <1>2, <1>3 DEF Inv

LEMMA AnswerInv == ASSUME Inv, NEW w \in Worker, Answer(w) PROVE Inv'
<1>0. w \in Proc /\ copy[w] \in Row
  BY DEF Proc, Inv, TypeOK
<1>1. CASE Accepted(w)
  <2>1. copy' \in [Proc -> Row]
    BY <1>0, <1>1 DEF Accepted, Cleared, Row, Inv, TypeOK
  <2>2. Goto(w, "idle") \/ Goto(w, "save")
    BY <1>1 DEF Accepted
  <2> QED BY <1>1, <2>1, <2>2, EndInv DEF Accepted, Inv, TypeOK
<1>2. CASE Retry(w)
  BY <1>2, RetryInv
<1>3. CASE GiveUp(w)
  <2>1. copy' \in [Proc -> Row]
    BY <1>0, <1>3 DEF GiveUp, Counted, TooMany, Row, Inv, TypeOK
  <2> QED BY <1>3, <2>1, EndInv DEF GiveUp, Inv, TypeOK
<1>4. CASE Abort(w)
  BY <1>4, EndInv DEF Abort, Inv, TypeOK
<1>5. CASE Hang(w)
  BY <1>0, <1>5, OtherInv DEF Hang, Inv, TypeOK
<1> QED BY <1>1, <1>2, <1>3, <1>4, <1>5 DEF Answer

LEMMA CrashInv == ASSUME Inv, NEW w \in Worker, Crash(w) PROVE Inv'
<1>0. w \in Proc /\ crashes' \in 0 .. MaxCrashes
  BY WebhookAssumption DEF Proc, Crash, Inv, TypeOK
<1>1. CASE pc[w] = "post"
  BY <1>0, <1>1, EndInv DEF Crash, Inv, TypeOK
<1>2. CASE pc[w] # "post"
  BY <1>0, <1>2, OtherInv DEF Crash, Inv, TypeOK
<1> QED BY <1>1, <1>2

LEMMA NextInv == Inv /\ [Next]_vars => Inv'
<1> SUFFICES ASSUME Inv, [Next]_vars PROVE Inv'
  OBVIOUS
<1>1. ASSUME NEW e \in Event, Fire(e) PROVE Inv'
  BY <1>1, FireInv
<1>2. ASSUME NEW w \in Worker, Work(w) PROVE Inv'
  <2>1. CASE Save(w)
    BY <2>1, OtherInv DEF Save, Proc, Inv, TypeOK
  <2> QED BY <1>2, <2>1, StartInv, AnswerInv DEF Work
<1>3. ASSUME NEW w \in Worker, Crash(w) PROVE Inv'
  BY <1>3, CrashInv
<1>4. ASSUME NEW a \in Admin, OpenHook(a) PROVE Inv'
  BY <1>4, OtherInv DEF OpenHook, Proc, Inv, TypeOK
<1>5. ASSUME NEW a \in Admin, NEW on \in BOOLEAN, SaveHook(a, on) PROVE Inv'
  <2>1. a \in Proc /\ hook' \in Row
    BY <1>5 DEF SaveHook, Proc, Inv, TypeOK, Row
  <2> QED BY <1>5, <2>1, OtherInv DEF SaveHook, Inv, TypeOK
<1>6. CASE UNCHANGED vars
  BY <1>6 DEF vars, Inv, TypeOK, OneWorkerEach, Holds, PostsCounted
<1> QED BY <1>1, <1>2, <1>3, <1>4, <1>5, <1>6 DEF Next

(* However many workers run the tasks, however often they die, no event is *)
(* posted more often than the code allows.                                 *)
THEOREM PostsAreBounded == Spec => []AttemptsBounded
<1>1. Inv => AttemptsBounded
  BY WebhookAssumption DEF Inv, TypeOK, PostsCounted, AttemptsBounded
<1> QED BY <1>1, InitInv, NextInv, PTL DEF Spec

-----------------------------------------------------------------------------
(***************************************************************************)
(* No copy of the row, saved or not, counts more failures than deliveries  *)
(* that were given up, and none is off for fewer than the limit allows,    *)
(* unless an admin switched it.  That a copy may be old only makes its     *)
(* count smaller: deliveries once given up stay so.                        *)
(***************************************************************************)
Honest(r) ==
  /\ r.failures =< Cardinality(GivenUp)
  /\ ~r.enabled /\ ~switchedOff => Cardinality(GivenUp) > MaxFailures

HonestInv ==
  /\ Honest(hook)
  /\ \A p \in Proc : Honest(copy[p])

LEMMA GivenUpCount ==
  ASSUME IsFiniteSet(Event)
  PROVE  IsFiniteSet(GivenUp) /\ Cardinality(GivenUp) \in Nat
<1>1. GivenUp \in SUBSET Event
  BY DEF GivenUp
<1> QED BY <1>1, FS_Subset, FS_CardinalityType

LEMMA InitHonest == ASSUME IsFiniteSet(Event), Init PROVE HonestInv
<1>1. GivenUp = {}
  BY DEF Init, GivenUp
<1>2. Cardinality(GivenUp) = 0
  BY <1>1, FS_EmptySet
<1> QED BY <1>2 DEF Init, HonestInv, Honest

(* A row that was honest stays so while given up deliveries only grow.     *)
LEMMA StaysHonest ==
  ASSUME Cardinality(GivenUp) \in Nat, Cardinality(GivenUp)' \in Nat,
         Cardinality(GivenUp) =< Cardinality(GivenUp)', switchedOff => switchedOff',
         NEW r \in Row, Honest(r)
  PROVE  /\ r.failures =< Cardinality(GivenUp)'
         /\ ~r.enabled /\ ~switchedOff' => Cardinality(GivenUp)' > MaxFailures
<1>1. r.failures \in Nat
  BY DEF Row
<1> QED BY <1>1, WebhookAssumption DEF Honest

LEMMA AnswerHonest ==
  ASSUME IsFiniteSet(Event), Inv, HonestInv, NEW w \in Worker, Answer(w)
  PROVE  HonestInv'
<1>0. /\ w \in Proc /\ pc[w] = "post" /\ task[w] \in Event /\ stage[task[w]] = "running"
      /\ copy[w] \in Row /\ Honest(copy[w]) /\ hook' = hook /\ switchedOff' = switchedOff
  BY WebhookAssumption
     DEF Answer, Accepted, Retry, GiveUp, Abort, Hang, Proc, Inv, TypeOK, HonestInv
<1>1. ASSUME NEW outcome, outcome # "failed", End(w, task[w], outcome) PROVE GivenUp' = GivenUp
  BY <1>0, <1>1 DEF End, GivenUp, Inv, TypeOK
<1>2. CASE Retry(w) \/ Abort(w)
  <2>1. GivenUp' = GivenUp /\ copy' = copy
    BY <1>1, <1>2 DEF Retry, Abort
  <2> QED BY <1>0, <2>1 DEF HonestInv, Honest
<1>3. CASE Hang(w)
  BY <1>3 DEF Hang, HonestInv, Honest, GivenUp
<1>4. CASE Accepted(w)
  <2>1. GivenUp' = GivenUp
    BY <1>1, <1>4 DEF Accepted
  <2>2. \A p \in Proc : copy'[p] = copy[p] \/ copy'[p] = Cleared(copy[p])
    BY <1>4 DEF Accepted, Inv, TypeOK
  <2>3. \A p \in Proc : Honest(Cleared(copy[p]))
    <3> SUFFICES ASSUME NEW p \in Proc PROVE Honest(Cleared(copy[p]))
      OBVIOUS
    <3>1. copy[p] \in Row /\ Honest(copy[p]) /\ Cardinality(GivenUp) \in Nat
      BY GivenUpCount DEF HonestInv, Inv, TypeOK
    <3>2. Cleared(copy[p]).failures = 0 /\ Cleared(copy[p]).enabled = copy[p].enabled
      BY <3>1 DEF Cleared, Row
    <3> QED BY <3>1, <3>2 DEF Honest
  <2> QED BY <1>0, <2>1, <2>2, <2>3 DEF HonestInv, Honest
<1>5. CASE GiveUp(w)
  <2>1. GivenUp' = GivenUp \cup {task[w]} /\ task[w] \notin GivenUp
    BY <1>0, <1>5 DEF GiveUp, End, GivenUp, Inv, TypeOK
  <2>2. Cardinality(GivenUp \cup {task[w]}) = Cardinality(GivenUp) + 1
    BY <2>1, GivenUpCount, FS_AddElement
  <2>3. Cardinality(GivenUp)' = Cardinality(GivenUp) + 1 /\ Cardinality(GivenUp) \in Nat
    BY <2>1, <2>2, GivenUpCount
  <2>4. ASSUME NEW r \in Row, Honest(r)
        PROVE  /\ r.failures =< Cardinality(GivenUp)'
               /\ ~r.enabled /\ ~switchedOff' => Cardinality(GivenUp)' > MaxFailures
    BY <1>0, <2>3, <2>4, StaysHonest
  <2>5. Honest(hook)'
    BY <1>0, <2>4 DEF HonestInv, Honest, Inv, TypeOK
  <2>6. ASSUME NEW p \in Proc PROVE Honest(copy[p])'
    <3>1. CASE p # w
      <4>1. copy'[p] = copy[p] /\ copy[p] \in Row /\ Honest(copy[p])
        BY <1>5, <3>1 DEF GiveUp, Inv, TypeOK, HonestInv
      <4> QED BY <2>4, <4>1 DEF Honest
    <3>2. CASE p = w
      <4>1. copy'[w] = Counted(copy[w])
        BY <1>0, <1>5 DEF GiveUp, Inv, TypeOK
      <4>2. PICK f : f = copy[w].failures
        OBVIOUS
      <4>3. f \in Nat /\ f =< Cardinality(GivenUp)
        BY <1>0, <4>2 DEF Row, Honest
      <4>4. copy'[w].failures = f + 1
        BY <4>1, <4>2 DEF Counted
      <4>5. ~copy'[w].enabled => ~copy[w].enabled \/ f + 1 > MaxFailures
        <5>1. copy'[w].enabled = (copy[w].enabled /\ ~TooMany(f + 1))
          BY <4>1, <4>2 DEF Counted
        <5>2. TooMany(f + 1) = (f + 1 > MaxFailures)
          BY DEF TooMany
        <5> QED BY <5>1, <5>2
      <4>6. copy'[w].failures =< Cardinality(GivenUp)'
        BY <2>3, <4>3, <4>4
      <4>7. f + 1 > MaxFailures => Cardinality(GivenUp)' > MaxFailures
        BY <2>3, <4>3, WebhookAssumption
      <4>8. ~copy[w].enabled /\ ~switchedOff' => Cardinality(GivenUp)' > MaxFailures
        BY <1>0, <2>4
      <4> QED BY <3>2, <4>5, <4>6, <4>7, <4>8 DEF Honest
    <3> QED BY <3>1, <3>2
  <2> QED BY <2>5, <2>6 DEF HonestInv
<1> QED BY <1>2, <1>3, <1>4, <1>5 DEF Answer

LEMMA NextHonest ==
  ASSUME IsFiniteSet(Event), Inv, HonestInv, [Next]_vars
  PROVE  HonestInv'
<1>1. CASE UNCHANGED vars
  BY <1>1 DEF vars, HonestInv, Honest, GivenUp
<1>2. ASSUME NEW e \in Event, Fire(e) PROVE HonestInv'
  <2>1. GivenUp' = GivenUp
    BY <1>2 DEF Fire, GivenUp, Inv, TypeOK
  <2> QED BY <1>2, <2>1 DEF Fire, HonestInv, Honest
<1>3. ASSUME NEW w \in Worker, NEW e \in Event, Start(w, e) PROVE HonestInv'
  <2>1. GivenUp' = GivenUp
    BY <1>3 DEF Start, Runnable, GivenUp, Inv, TypeOK
  <2>2. /\ hook' = hook /\ switchedOff' = switchedOff
        /\ \A p \in Proc : copy'[p] = copy[p] \/ copy'[p] = hook
    BY <1>3 DEF Start, Inv, TypeOK
  <2> QED BY <2>1, <2>2 DEF HonestInv, Honest
<1>4. ASSUME NEW w \in Worker, Answer(w) PROVE HonestInv'
  BY <1>4, AnswerHonest
<1>5. ASSUME NEW w \in Worker, Save(w) PROVE HonestInv'
  <2>1. /\ GivenUp' = GivenUp /\ w \in Proc
        /\ hook' = copy[w] /\ copy' = copy /\ switchedOff' = switchedOff
    BY <1>5 DEF Save, GivenUp, Proc
  <2> QED BY <2>1 DEF HonestInv, Honest
<1>6. ASSUME NEW w \in Worker, Crash(w) PROVE HonestInv'
  <2>1. GivenUp' = GivenUp
    <3>1. pc[w] = "post" => stage[task[w]] = "running"
      BY <1>6 DEF Inv, TypeOK, Proc
    <3> QED BY <1>6, <3>1 DEF Crash, End, GivenUp, Inv, TypeOK
  <2> QED BY <1>6, <2>1 DEF Crash, HonestInv, Honest
<1>7. ASSUME NEW a \in Admin, OpenHook(a) PROVE HonestInv'
  <2>1. /\ GivenUp' = GivenUp /\ hook' = hook /\ switchedOff' = switchedOff
        /\ \A p \in Proc : copy'[p] = copy[p] \/ copy'[p] = hook
    BY <1>7 DEF OpenHook, GivenUp, Inv, TypeOK
  <2> QED BY <2>1 DEF HonestInv, Honest
<1>8. ASSUME NEW a \in Admin, NEW on \in BOOLEAN, SaveHook(a, on) PROVE HonestInv'
  <2>1. /\ GivenUp' = GivenUp /\ copy' = copy /\ a \in Proc /\ copy[a] \in Row
        /\ switchedOff' = (switchedOff \/ ~on)
    BY <1>8 DEF SaveHook, GivenUp, Proc, Inv, TypeOK
  <2>2. hook'.failures = copy[a].failures /\ hook'.enabled = on
    BY <1>8, <2>1 DEF SaveHook, Row
  <2> QED BY <2>1, <2>2 DEF HonestInv, Honest
<1> QED BY <1>1, <1>2, <1>3, <1>4, <1>5, <1>6, <1>7, <1>8 DEF Next, Work

(* Whatever workers overwrite, however often they die and whatever admins  *)
(* save, a hook that no admin turned off is off only after more deliveries *)
(* were given up than the limit.                                           *)
THEOREM HooksAreNotDisabledEarly ==
  ASSUME IsFiniteSet(Event)
  PROVE  Spec => []NotDisabledEarly
<1>1. Init => Inv /\ HonestInv
  BY InitInv, InitHonest
<1>2. Inv /\ HonestInv /\ [Next]_vars => (Inv /\ HonestInv)'
  BY NextInv, NextHonest
<1>3. HonestInv => NotDisabledEarly
  BY DEF HonestInv, Honest, NotDisabledEarly
<1> QED BY <1>1, <1>2, <1>3, PTL DEF Spec
=============================================================================
