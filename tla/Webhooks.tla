------------------------------ MODULE Webhooks ------------------------------
(***************************************************************************)
(* The delivery of webhooks.  An event that an enabled hook subscribes to  *)
(* puts a Celery task on the queue.  A worker that takes the task reads    *)
(* the hook's row, posts the payload, and requeues the task if the target  *)
(* refuses it.  After the last attempt it counts a failure, disables the   *)
(* hook if there were too many, and saves the whole row as it read it.     *)
(*                                                                         *)
(* One hook is modelled: hooks share nothing but the workers.  Celery      *)
(* acknowledges a task before running it, so a worker that dies loses it.  *)
(***************************************************************************)
EXTENDS Integers, FiniteSets

CONSTANTS
  Worker, Admin,   \* Celery worker processes; admins who have the hook open
  Event,           \* the events of the run
  Attempts,        \* HTTP_ATTEMPT_COUNT_PER_DELIVERY_ATTEMPT
  MaxFailures,     \* MAX_CONSECUTIVE_FAILURES_BEFORE_DISABLE
  MaxCrashes,      \* bound: how often a worker dies
  None

ASSUME WebhookAssumption ==
  /\ Attempts \in Nat \ {0} /\ MaxFailures \in Nat /\ MaxCrashes \in Nat
  /\ None \notin Event
  /\ Worker \cap Admin = {}

Proc == Worker \cup Admin

VARIABLES
  hook,     \* the row: enabled, failures (consecutive_failures)
  stage,    \* what became of each event
  retries,  \* request.retries of each event's task
  pc, task, copy,  \* a process's step, its event, and the row as it read it
  crashes,
  posts,    \* history: HTTP requests made for each event
  switchedOff \* history: an admin has turned the hook off

vars == <<hook, stage, retries, pc, task, copy, crashes, posts, switchedOff>>

Row == [enabled : BOOLEAN, failures : Nat]

Init ==
  /\ hook = [enabled |-> TRUE, failures |-> 0]
  /\ stage = [e \in Event |-> "new"]
  /\ retries = [e \in Event |-> 0]
  /\ pc = [p \in Proc |-> "idle"]
  /\ task = [p \in Proc |-> None]
  /\ copy = [p \in Proc |-> [enabled |-> TRUE, failures |-> 0]]
  /\ crashes = 0
  /\ posts = [e \in Event |-> 0]
  /\ switchedOff = FALSE

Goto(p, label) == pc' = [pc EXCEPT ![p] = label]

(* A model instance is saved: find_hooks and deliver_hook. *)
Fire(e) ==
  /\ stage[e] = "new"
  /\ stage' = [stage EXCEPT ![e] = IF hook.enabled THEN "queued" ELSE "ignored"]
  /\ UNCHANGED <<hook, retries, pc, task, copy, crashes, posts, switchedOff>>

(* deliver_webhook_task: the row is read, the request goes out.            *)
(* Variant: tasks of a disabled hook are left alone. *)
RunnableIfEnabled(e) == stage[e] = "queued" /\ hook.enabled

Runnable(e) == stage[e] = "queued"

Start(w, e) ==
  /\ w \in Worker /\ pc[w] = "idle" /\ Runnable(e)
  /\ stage' = [stage EXCEPT ![e] = "running"]
  /\ task' = [task EXCEPT ![w] = e]
  /\ copy' = [copy EXCEPT ![w] = hook]
  /\ posts' = [posts EXCEPT ![e] = @ + 1]
  /\ Goto(w, "post")
  /\ UNCHANGED <<hook, retries, crashes, switchedOff>>

End(w, e, outcome) ==
  /\ stage' = [stage EXCEPT ![e] = outcome]
  /\ task' = [task EXCEPT ![w] = None]

Cleared(row) == [row EXCEPT !.failures = 0]

Accepted(w) ==
  /\ pc[w] = "post"
  /\ End(w, task[w], "delivered")
  /\ IF copy[w].failures # 0
     THEN /\ copy' = [copy EXCEPT ![w] = Cleared(@)]
          /\ Goto(w, "save")
     ELSE /\ UNCHANGED copy
          /\ Goto(w, "idle")
  /\ UNCHANGED <<hook, retries, crashes, posts, switchedOff>>

(* A ConnectionError, or a status of 400 or more.                          *)
(* Variant: every attempt but the first is a retry. *)
OneMoreRetry(e) == retries[e] < Attempts

RetriesLeft(e) == retries[e] < Attempts - 1

TooMany(n) == n > MaxFailures

Counted(row) ==
  [enabled  |-> row.enabled /\ ~TooMany(row.failures + 1),
   failures |-> row.failures + 1]

(* Variant: each refused attempt is counted. *)
RetryCounts(w) ==
  /\ pc[w] = "post" /\ RetriesLeft(task[w])
  /\ retries' = [retries EXCEPT ![task[w]] = @ + 1]
  /\ End(w, task[w], "queued")
  /\ copy' = [copy EXCEPT ![w] = Counted(@)]
  /\ Goto(w, "save")
  /\ UNCHANGED <<hook, crashes, posts, switchedOff>>

Retry(w) ==
  /\ pc[w] = "post" /\ RetriesLeft(task[w])
  /\ retries' = [retries EXCEPT ![task[w]] = @ + 1]
  /\ End(w, task[w], "queued")
  /\ Goto(w, "idle")
  /\ UNCHANGED <<hook, copy, crashes, posts, switchedOff>>

GiveUp(w) ==
  /\ pc[w] = "post" /\ ~RetriesLeft(task[w])
  /\ End(w, task[w], "failed")
  /\ copy' = [copy EXCEPT ![w] = Counted(@)]
  /\ Goto(w, "save")
  /\ UNCHANGED <<hook, retries, crashes, posts, switchedOff>>

(* Any other exception of requests.post (a redirect loop, a broken body)   *)
(* is neither retried nor counted.                                         *)
Abort(w) ==
  /\ pc[w] = "post"
  /\ End(w, task[w], "aborted")
  /\ Goto(w, "idle")
  /\ UNCHANGED <<hook, retries, copy, crashes, posts, switchedOff>>

(* No timeout is given: a target that never answers holds the worker.      *)
Hang(w) ==
  /\ pc[w] = "post"
  /\ Goto(w, "hung")
  /\ UNCHANGED <<hook, stage, retries, task, copy, crashes, posts, switchedOff>>

(* hook.save() of the worker's copy: all columns. *)
Save(w) ==
  /\ w \in Worker /\ pc[w] = "save"
  /\ hook' = copy[w]
  /\ Goto(w, "idle")
  /\ UNCHANGED <<stage, retries, task, copy, crashes, posts, switchedOff>>

Crash(w) ==
  /\ w \in Worker /\ pc[w] \in {"post", "save"} /\ crashes < MaxCrashes
  /\ crashes' = crashes + 1
  /\ IF pc[w] = "post" THEN End(w, task[w], "lost") ELSE UNCHANGED <<stage, task>>
  /\ Goto(w, "idle")
  /\ UNCHANGED <<hook, retries, copy, posts, switchedOff>>

(* The admin form: the row is read, "enabled" set, all columns saved.      *)
OpenHook(a) ==
  /\ a \in Admin /\ pc[a] = "idle"
  /\ copy' = [copy EXCEPT ![a] = hook]
  /\ Goto(a, "edit")
  /\ UNCHANGED <<hook, stage, retries, task, crashes, posts, switchedOff>>

SaveHook(a, on) ==
  /\ pc[a] = "edit"
  /\ hook' = [copy[a] EXCEPT !.enabled = on]
  /\ switchedOff' = (switchedOff \/ ~on)
  /\ Goto(a, "idle")
  /\ UNCHANGED <<stage, retries, task, copy, crashes, posts>>

-----------------------------------------------------------------------------
Answer(w) == Accepted(w) \/ Retry(w) \/ GiveUp(w) \/ Abort(w) \/ Hang(w)

Work(w) == (\E e \in Event : Start(w, e)) \/ Answer(w) \/ Save(w)

Next ==
  \/ \E e \in Event : Fire(e)
  \/ \E w \in Worker : Work(w) \/ Crash(w)
  \/ \E a \in Admin : OpenHook(a) \/ \E on \in BOOLEAN : SaveHook(a, on)

Spec == Init /\ [][Next]_vars

(* A worker that is not stuck in a request goes on with its tasks.         *)
Fairness == \A w \in Worker : WF_vars(Work(w))

FairSpec == Spec /\ Fairness

-----------------------------------------------------------------------------
Stage == {"new", "ignored", "queued", "running", "delivered", "failed", "aborted", "lost"}

(* Every variable keeps its type, and a task runs on the worker that took it. *)
TypeOK ==
  /\ hook \in Row /\ copy \in [Proc -> Row]
  /\ stage \in [Event -> Stage]
  /\ retries \in [Event -> 0 .. Attempts - 1]
  /\ pc \in [Proc -> {"idle", "post", "save", "hung", "edit"}]
  /\ task \in [Proc -> Event \cup {None}]
  /\ crashes \in 0 .. MaxCrashes
  /\ posts \in [Event -> Nat] /\ switchedOff \in BOOLEAN
  /\ \A p \in Proc : pc[p] \in {"post", "hung"} => task[p] # None /\ stage[task[p]] = "running"

(* Each event is posted at most HTTP_ATTEMPT_COUNT_PER_DELIVERY_ATTEMPT    *)
(* times, whichever workers run its retries (tasks.py l.9-12).             *)
AttemptsBounded == \A e \in Event : posts[e] =< Attempts

(* A hook is not disabled before its time.  Workers save the row as they   *)
(* read it before the request, so counts are lost to one another's saves,  *)
(* to a crash before the save and to an admin's old form, and cleared ones *)
(* come back; but whatever is lost, restored or retried, a hook that no    *)
(* admin has turned off is only ever off after more deliveries were given  *)
(* up than the limit (tasks.py l.20-38).  Lost counts go the other way:    *)
(* the hook can stay on longer, which nothing bounds.  An admin's switch   *)
(* is excepted: a worker that read the row while it was off can save it so *)
(* after it was turned on again.                                           *)
GivenUp == {e \in Event : stage[e] = "failed"}

NotDisabledEarly == ~hook.enabled /\ ~switchedOff => Cardinality(GivenUp) > MaxFailures

Settled(e) == stage[e] \in {"delivered", "failed", "aborted", "lost"}

(* Every queued event is delivered or given up, unless the target has all  *)
(* workers waiting for an answer (tasks.py l.17 has no timeout).           *)
EveryEventSettles ==
  \A e \in Event : stage[e] = "queued" ~> Settled(e) \/ \E w \in Worker : pc[w] = "hung"
=============================================================================
