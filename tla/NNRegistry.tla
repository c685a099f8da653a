----------------------------- MODULE NNRegistry -----------------------------
(***************************************************************************)
(* What the assignment of network numbers promises, every request being    *)
(* one step: a form attaches its install to a node of its building and     *)
(* sees to it that the node has a number; a save of a node gives it the    *)
(* number that was typed, or the lowest free one if it is active without;  *)
(* and people set the status of installs.  This is what the code does, not *)
(* all that its comments say: a number stays, except that one cleared on   *)
(* an active node looks like none was ever given, and gives way to the     *)
(* lowest free one (Save; node.py l.135 calls numbers immutable).          *)
(* No locks, no transactions, no order of statements.                      *)
(***************************************************************************)
EXTENDS Integers

CONSTANTS Node, Building, Installs, BuildingOf, NNMin, NNAssignMin, NNMax, Vanity, Start, Null

InstallStatus == {"REQUEST_RECEIVED", "PENDING", "ACTIVE", "CLOSED", "NN_REASSIGNED"}

VARIABLES nodes, installs, primary

vars == <<nodes, installs, primary>>

Used == {nodes[n].nn : n \in Node} \ {Null}

Unwanted(i) == installs[i].status = "REQUEST_RECEIVED" /\ installs[i].node = Null

Free == {k \in NNAssignMin .. NNMax : k \notin Used /\ (k \in Installs => Unwanted(k))}

LowestFree(k) == k \in Free /\ \A j \in Free : k =< j

Unset(k) == k \in {Null, 0}

(* Node n may carry k: nobody else does, and an active install with that   *)
(* number is n's own.  The range is not asked of 0, which passes for none. *)
MayCarry(n, k) ==
  /\ k \in {0} \cup (NNMin .. NNMax)
  /\ \A m \in Node \ {n} : nodes[m].nn # k
  /\ k \in Installs => installs[k].status # "ACTIVE" \/ installs[k].node = n

Retired(n, k, i) == i = k /\ installs[i].node # n

(* The form's node for install i, and the number the node gets.            *)
Host(i, n) ==
  IF installs[i].node # Null THEN n = installs[i].node
  ELSE /\ installs[i].status \notin {"CLOSED", "NN_REASSIGNED"}
       /\ IF primary[BuildingOf[i]] # Null
          THEN n = primary[BuildingOf[i]]
          ELSE nodes[n].status = "absent"

OwnNumber(i) ==
  /\ i \in (NNAssignMin .. NNMax) \ Used
  /\ installs[i].status \notin {"CLOSED", "NN_REASSIGNED"}

GivenNumber(i, n, k) ==
  IF nodes[n].nn # Null THEN k = nodes[n].nn
  ELSE IF OwnNumber(i) THEN k = i
  ELSE LowestFree(k)

Assign(i) ==
  \E n \in Node, k \in {0} \cup (NNMin .. NNMax) :
     /\ Host(i, n) /\ GivenNumber(i, n, k) /\ MayCarry(n, k)
     /\ nodes' = [nodes EXCEPT ![n] =
          [nn |-> k, status |-> IF @.status \in {"absent", "INACTIVE"} THEN "PLANNED" ELSE @.status]]
     /\ primary' = [primary EXCEPT ![BuildingOf[i]] = IF @ = Null THEN n ELSE @]
     /\ installs' = [j \in Installs |->
          IF j = i
          THEN [node |-> n, status |-> IF installs[i].status = "REQUEST_RECEIVED"
                                       THEN "PENDING" ELSE installs[i].status]
          ELSE [installs[j] EXCEPT !.status = IF Retired(n, k, j) THEN "NN_REASSIGNED" ELSE @]]

Save(n, s, typed) ==
  \E k \in {Null, 0} \cup (NNMin .. NNMax) :
     /\ IF Unset(typed) /\ s = "ACTIVE"
        THEN LowestFree(k)
        ELSE k = typed /\ nodes[n].nn \in {Null, k}
     /\ k # Null => MayCarry(n, k)
     /\ nodes' = [nodes EXCEPT ![n] = [nn |-> k, status |-> s]]
     /\ installs' = [j \in Installs |->
          [installs[j] EXCEPT !.status = IF Retired(n, k, j) THEN "NN_REASSIGNED" ELSE @]]
     /\ UNCHANGED primary

(* Somebody sets the status of an install. *)
Update(i, s) ==
  /\ installs' = [installs EXCEPT ![i].status = s]
  /\ UNCHANGED <<nodes, primary>>

Init == \E db \in Start : nodes = db.nodes /\ installs = db.installs /\ primary = db.primary

Next ==
  \/ \E i \in Installs : Assign(i)
  \/ \E i \in Installs, s \in InstallStatus : Update(i, s)
  \/ \E n \in Node, s \in {"PLANNED", "ACTIVE", "INACTIVE"}, k \in Vanity : Save(n, s, k)
  \/ \E n \in Node, s \in {"PLANNED", "ACTIVE", "INACTIVE"} : Save(n, s, nodes[n].nn)

Spec == Init /\ [][Next]_vars
=============================================================================
