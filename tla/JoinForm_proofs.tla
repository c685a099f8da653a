--------------------------- MODULE JoinForm_proofs ----------------------------
(***************************************************************************)
(* Theorems about JoinForm, for any number of workers, submissions, nodes  *)
(* and replays, and any databases to start from.                           *)
(***************************************************************************)
EXTENDS JoinForm, TLAPS

(* Tables grow at their end, and rows change in place.                     *)
LEMMA Appended ==
  ASSUME NEW S, NEW s \in Seq(S), NEW e \in S
  PROVE  /\ Append(s, e) \in Seq(S)
         /\ DOMAIN Append(s, e) = DOMAIN s \cup {Len(s) + 1} /\ Len(s) + 1 \notin DOMAIN s
         /\ Len(s) + 1 \in Nat \ {0}
         /\ \A i \in DOMAIN s : Append(s, e)[i] = s[i]
         /\ Append(s, e)[Len(s) + 1] = e
OBVIOUS

LEMMA Replaced ==
  ASSUME NEW S, NEW s \in Seq(S), NEW i, NEW e, i \in DOMAIN s => e \in S
  PROVE  /\ [s EXCEPT ![i] = e] \in Seq(S) /\ DOMAIN [s EXCEPT ![i] = e] = DOMAIN s
         /\ \A j \in DOMAIN s : [s EXCEPT ![i] = e][j] = IF j = i THEN e ELSE s[j]
<1> DEFINE t == [s EXCEPT ![i] = e]
<1>1. s \in [1 .. Len(s) -> S] /\ Len(s) \in Nat /\ DOMAIN s = 1 .. Len(s)
  OBVIOUS
<1>2. t \in [1 .. Len(s) -> S] /\ DOMAIN t = 1 .. Len(s)
  BY <1>1
<1>3. \A j \in DOMAIN s : t[j] = IF j = i THEN e ELSE s[j]
  BY <1>1
<1>4. \A u : u \in [1 .. Len(s) -> S] => u \in Seq(S)
  BY <1>1
<1> HIDE DEF t
<1>5. t \in Seq(S) /\ DOMAIN t = DOMAIN s
  BY <1>1, <1>2, <1>4
<1> QED BY <1>3, <1>5 DEF t

LEMMA Domains ==
  ASSUME NEW S, NEW s \in Seq(S)
  PROVE  DOMAIN s \subseteq Nat \ {0} /\ \A i \in DOMAIN s : s[i] \in S
OBVIOUS

-----------------------------------------------------------------------------
(***************************************************************************)
(* What a process remembers, and the answers.                              *)
(***************************************************************************)
Field == {"sub", "confirmed", "member", "building", "primary", "nodes", "created", "code", "install"}

IsMemory(m) == m = [f \in Field |-> m[f]]

Code == {200, 201, 400, 409, 500, Null}

Typed(m) ==
  /\ IsMemory(m) /\ m.sub \in Sub \cup {Null}
  /\ m.member \in {0} \cup DOMAIN members /\ m.building \in {0} \cup DOMAIN buildings
  /\ m.primary \in Node \cup {Null} /\ m.nodes \subseteq Node
  /\ m.code \in Code /\ m.install \in {Null} \cup DOMAIN installs

(* The rows it has found or made are the submission's.                     *)
Holds(s, m) ==
  /\ s \notin {"idle", "next"} => m.sub \in Sub
  /\ m.member # 0 => m.sub \in Sub /\ members[m.member].email = submission[m.sub].email
  /\ m.building # 0 => m.sub \in Sub /\ buildings[m.building].address = submission[m.sub].address
  /\ s \in {"saveBuilding", "addNodes", "saveInstall", "ticket", "deleteMember", "deleteBuilding"} => m.member # 0
  /\ s \in {"addNodes", "saveInstall", "ticket", "deleteMember", "deleteBuilding"} => m.building # 0
  /\ m.install # Null => m.sub \in Sub /\ Serves(m.install, m.sub)
  /\ s = "ticket" => m.install # Null

Tables ==
  /\ members \in Seq(MemberRow) /\ buildings \in Seq(BuildingRow) /\ installs \in Seq(InstallRow)
  /\ submission \in [Sub -> Submission]
  /\ \A i \in DOMAIN installs : /\ installs[i].member \in DOMAIN members
                                /\ installs[i].building \in DOMAIN buildings

Aside ==
  /\ post \in [Sub -> JoinRecord] /\ todo \in [Replay -> SUBSET Sub]
  /\ lock \in Form \cup {NoProc}
  /\ stage \in [Sub -> {"new", "sent", "confirmed", "done"}]
  /\ pre \subseteq Sub /\ faults \in 0 .. MaxFaults /\ runs \in 0 .. MaxRuns /\ overlap \in BOOLEAN
  /\ \A s \in Sub : /\ post[s].install \in {Null} \cup DOMAIN installs
                    /\ post[s].install # Null => Serves(post[s].install, s)

Shape ==
  /\ mem = [p \in Proc |-> mem[p]] /\ pc \in [Proc -> Label]
  /\ \A p \in Proc : Typed(mem[p]) /\ Holds(pc[p], mem[p])
  /\ \A p \in Proc : pc[p] = "lock" => p \in Form

Inv == Tables /\ Aside /\ Shape

LEMMA InvTypes == Inv => TypeOK
<1> SUFFICES ASSUME Inv PROVE TypeOK
  OBVIOUS
<1>1. \A p \in Proc : /\ mem[p].member \in {0} \cup DOMAIN members
                      /\ mem[p].building \in {0} \cup DOMAIN buildings
                      /\ mem[p].sub \in Sub \cup {Null}
  BY DEF Inv, Shape, Typed
<1>2. \A p \in Proc : Processing(p) => mem[p].sub # Null
  BY JoinAssumption DEF Inv, Shape, Holds, Processing
<1> QED BY <1>1, <1>2 DEF Inv, Tables, Aside, Shape, TypeOK

LEMMA Blank == Typed(NoMemory) /\ \A s \in {"idle", "next"} : Holds(s, NoMemory)
<1>1. IsMemory(NoMemory)
  BY DEF IsMemory, NoMemory, Field
<1>2. /\ NoMemory.sub = Null /\ NoMemory.member = 0 /\ NoMemory.building = 0 /\ NoMemory.primary = Null
      /\ NoMemory.nodes = {} /\ NoMemory.code = Null /\ NoMemory.install = Null
  BY DEF NoMemory
<1> QED BY <1>1, <1>2 DEF Typed, Holds, Code

LEMMA InitInv == Init => Inv
<1> SUFFICES ASSUME Init PROVE Inv
  OBVIOUS
<1>1. PICK s \in Start : /\ members = s.members /\ buildings = s.buildings
                         /\ installs = s.installs /\ submission = s.submission
  BY DEF Init
<1>2. Tables
  BY <1>1, JoinAssumption, StartAssumption DEF Tables
<1>3. Aside
  <2>1. NoRecord \in JoinRecord /\ NoRecord.install = Null
    BY DEF NoRecord, JoinRecord
  <2>2. post \in [Sub -> JoinRecord] /\ \A t \in Sub : post[t].install = Null
    BY <2>1 DEF Init
  <2>3. faults \in 0 .. MaxFaults /\ runs \in 0 .. MaxRuns
    BY JoinAssumption DEF Init
  <2> QED BY <2>2, <2>3 DEF Init, Aside
<1>4. Shape
  BY Blank DEF Init, Shape, Label
<1> QED BY <1>2, <1>3, <1>4 DEF Inv

(* Rows are never taken away, and keep the columns by which they are found.*)
Evolve ==
  /\ submission' = submission
  /\ \A i \in DOMAIN members : i \in DOMAIN members' /\ members'[i].email = members[i].email
  /\ \A i \in DOMAIN buildings : i \in DOMAIN buildings' /\ buildings'[i].address = buildings[i].address
  /\ \A i \in DOMAIN installs :
       /\ i \in DOMAIN installs' /\ installs'[i].member = installs[i].member
       /\ installs'[i].building = installs[i].building /\ installs'[i].unit = installs[i].unit

LEMMA StillServes ==
  ASSUME Tables, Evolve, NEW i, NEW s, Serves(i, s)
  PROVE  Serves(i, s)'
<1>1. /\ i \in DOMAIN installs
      /\ members[installs[i].member].email = submission[s].email
      /\ buildings[installs[i].building].address = submission[s].address
      /\ installs[i].unit = submission[s].unit
  BY DEF Serves
<1>2. installs[i].member \in DOMAIN members /\ installs[i].building \in DOMAIN buildings
  BY <1>1 DEF Tables
<1>3. /\ members'[installs'[i].member].email = submission'[s].email
      /\ buildings'[installs'[i].building].address = submission'[s].address
      /\ installs'[i].unit = submission'[s].unit /\ i \in DOMAIN installs'
  BY <1>1, <1>2 DEF Evolve
<1> QED BY <1>3 DEF Serves

LEMMA StillHolds ==
  ASSUME Tables, Evolve, NEW s, NEW m, Typed(m), Holds(s, m)
  PROVE  Typed(m)' /\ Holds(s, m)'
<1>1. Typed(m)'
  BY DEF Typed, Evolve
<1>2. m.member \in DOMAIN members => members'[m.member].email = members[m.member].email
  BY DEF Evolve
<1>3. m.building \in DOMAIN buildings => buildings'[m.building].address = buildings[m.building].address
  BY DEF Evolve
<1>4. Serves(m.install, m.sub) => Serves(m.install, m.sub)'
  BY StillServes
<1>5. submission' = submission /\ m.member \in {0} \cup DOMAIN members /\ m.building \in {0} \cup DOMAIN buildings
  BY DEF Typed, Evolve
<1>6. Holds(s, m)'
  BY <1>2, <1>3, <1>4, <1>5 DEF Holds
<1> QED BY <1>1, <1>6

(* The bucket, the lock and the bounds, while rows are written.            *)
LEMMA AsideKept ==
  ASSUME Tables, Aside, Evolve, UNCHANGED <<stage, bucket, runs>>,
         todo' \in [Replay -> SUBSET Sub], lock' \in Form \cup {NoProc},
         faults' \in 0 .. MaxFaults, overlap' \in BOOLEAN
  PROVE  Aside'
<1>1. post' = post /\ pre' = pre /\ stage' = stage /\ runs' = runs
  BY DEF bucket
<1>2. \A s \in Sub : post[s].install \in {Null} \cup DOMAIN installs'
  BY DEF Aside, Evolve
<1>3. \A s \in Sub : post[s].install # Null => Serves(post[s].install, s)'
  <2>1. SUFFICES ASSUME NEW s \in Sub, post[s].install # Null PROVE Serves(post[s].install, s)'
    OBVIOUS
  <2>2. PICK i : i = post[s].install
    OBVIOUS
  <2>3. Serves(i, s)
    BY <2>1, <2>2 DEF Aside
  <2>4. Serves(i, s)' /\ post' = post
    BY <1>1, <2>3, StillServes
  <2> QED BY <2>2, <2>4 DEF Serves
<1> QED BY <1>1, <1>2, <1>3 DEF Aside

(* A step of one process.                                                  *)
LEMMA StepInv ==
  ASSUME Inv, NEW p \in Proc, NEW s \in Label, NEW m, s = "lock" => p \in Form,
         pc' = [pc EXCEPT ![p] = s], mem' = [mem EXCEPT ![p] = m],
         Tables', Aside', Evolve, Typed(m)', Holds(s, m)'
  PROVE  Inv'
<1>1. /\ pc'[p] = s /\ mem'[p] = m
      /\ \A q \in Proc \ {p} : pc'[q] = pc[q] /\ mem'[q] = mem[q]
  BY DEF Inv, Shape
<1>2. mem' = [q \in Proc |-> mem'[q]] /\ pc' \in [Proc -> Label]
  BY <1>1 DEF Inv, Shape
<1>3. ASSUME NEW q \in Proc PROVE Typed(mem[q])' /\ Holds(pc[q], mem[q])'
  <2>1. CASE q = p
    BY <1>1, <2>1
  <2>2. CASE q # p
    <3>1. PICK t, n : t = pc[q] /\ n = mem[q]
      OBVIOUS
    <3>2. pc'[q] = t /\ mem'[q] = n
      BY <1>1, <2>2, <3>1
    <3>3. Typed(n)' /\ Holds(t, n)'
      BY <3>1, StillHolds DEF Inv, Shape
    <3> QED BY <3>2, <3>3
  <2> QED BY <2>1, <2>2
<1>4. \A q \in Proc : pc'[q] = "lock" => q \in Form
  BY <1>1 DEF Inv, Shape
<1> QED BY <1>2, <1>3, <1>4 DEF Inv, Shape

LEMMA Unmoved == UNCHANGED <<rows, submission>> => Evolve /\ (Tables => Tables')
BY DEF rows, Evolve, Tables

(* A step of one process that writes no row.                               *)
LEMMA QuietInv ==
  ASSUME Inv, NEW p \in Proc, NEW s \in Label, NEW m, s = "lock" => p \in Form,
         pc' = [pc EXCEPT ![p] = s], mem' = [mem EXCEPT ![p] = m],
         UNCHANGED <<rows, submission>>, Aside', Typed(m), Holds(s, m)
  PROVE  Inv'
<1>1. Evolve /\ Tables'
  BY Unmoved DEF Inv
<1>2. Typed(m)' /\ Holds(s, m)'
  BY <1>1, StillHolds DEF Inv
<1> QED BY <1>1, <1>2, StepInv

(* What is known of a process at the beginning of its step.                *)
LEMMA Remembered ==
  ASSUME Inv, NEW p \in Proc
  PROVE  /\ Typed(mem[p]) /\ Holds(pc[p], mem[p]) /\ mem = [mem EXCEPT ![p] = mem[p]]
         /\ pc = [pc EXCEPT ![p] = pc[p]] /\ Tables /\ Aside
BY DEF Inv, Shape

-----------------------------------------------------------------------------
(***************************************************************************)
(* The steps, one by one.                                                  *)
(***************************************************************************)
Begun(s, confirmed) == [NoMemory EXCEPT !.sub = s, !.confirmed = confirmed]

LEMMA BegunHolds ==
  ASSUME NEW s \in Sub, NEW confirmed, NEW t \in {"lock", "member"}
  PROVE  Typed(Begun(s, confirmed)) /\ Holds(t, Begun(s, confirmed))
<1> DEFINE m == Begun(s, confirmed)
<1>1. IsMemory(m)
  BY DEF IsMemory, NoMemory, Field, Begun
<1>2. /\ m.sub = s /\ m.member = 0 /\ m.building = 0 /\ m.primary = Null
      /\ m.nodes = {} /\ m.code = Null /\ m.install = Null
  BY DEF NoMemory, Begun
<1> HIDE DEF m
<1>3. Typed(m)
  BY <1>1, <1>2 DEF Typed, Code
<1>4. Holds(t, m)
  BY <1>2 DEF Holds
<1> QED BY <1>3, <1>4 DEF m

LEMMA BrowserInv ==
  ASSUME Inv, (\E s \in Sub : Submit(s)) \/ (\E i \in DOMAIN installs : Progress(i))
  PROVE  Inv'
<1>1. ASSUME NEW s \in Sub, Submit(s) PROVE Inv'
  <2>1. Evolve /\ Tables' /\ UNCHANGED <<pc, mem>>
    BY <1>1, Unmoved DEF Inv, Submit
  <2>2. faults' \in 0 .. MaxFaults
    BY <1>1, JoinAssumption DEF Inv, Aside, Submit, Fault
  <2>3. Aside'
    BY <1>1, <2>2 DEF Inv, Aside, Submit, rows, Serves
  <2>4. Shape'
    BY <1>1, <2>1 DEF Inv, Shape, Submit, rows, Typed, Holds, Serves
  <2> QED BY <2>1, <2>3, <2>4 DEF Inv
<1>2. ASSUME NEW i \in DOMAIN installs, Progress(i) PROVE Inv'
  <2> DEFINE row == [installs[i] EXCEPT !.open = FALSE]
  <2>1. Tables /\ UNCHANGED <<members, buildings, submission, stage, bucket, lock, pc, mem, todo, faults, runs, overlap>>
    BY <1>2 DEF Inv, Progress
  <2>2. installs[i] \in InstallRow
    BY <2>1, Domains DEF Tables
  <2>3. row \in InstallRow /\ row.member = installs[i].member /\ row.building = installs[i].building
        /\ row.unit = installs[i].unit
    BY <2>2 DEF InstallRow
  <2>4. installs' = [installs EXCEPT ![i] = row]
    BY <1>2 DEF Progress
  <2> HIDE DEF row
  <2>5. installs' \in Seq(InstallRow) /\ DOMAIN installs' = DOMAIN installs
        /\ \A j \in DOMAIN installs : installs'[j] = IF j = i THEN row ELSE installs[j]
    BY <2>1, <2>3, <2>4, Replaced DEF Tables
  <2>6. Evolve
    BY <2>1, <2>3, <2>5 DEF Evolve
  <2>7. Tables'
    BY <2>1, <2>3, <2>5 DEF Tables
  <2>8. Aside'
    BY <2>1, <2>6, AsideKept DEF Inv, Aside
  <2>9. Shape'
    <3>1. ASSUME NEW p \in Proc PROVE Typed(mem[p])' /\ Holds(pc[p], mem[p])'
      <4>1. PICK t, n : t = pc[p] /\ n = mem[p]
        OBVIOUS
      <4>2. Typed(n)' /\ Holds(t, n)'
        BY <2>1, <2>6, <4>1, StillHolds DEF Inv, Shape
      <4> QED BY <2>1, <4>1, <4>2
    <3> QED BY <2>1, <3>1 DEF Inv, Shape
  <2> QED BY <2>7, <2>8, <2>9 DEF Inv
<1> QED BY <1>1, <1>2

LEMMA ReceiveInv == ASSUME Inv, NEW p \in Proc, NEW s \in Sub, Receive(p, s) PROVE Inv'
<1>1. PICK m : m = Begun(s, stage[s] = "confirmed")
  OBVIOUS
<1>2. mem' = [mem EXCEPT ![p] = m] /\ pc' = [pc EXCEPT ![p] = "lock"]
      /\ UNCHANGED <<rows, submission, stage, bucket, lock, todo, faults, runs, overlap>> /\ p \in Form
  BY <1>1 DEF Receive, Goto, Begun
<1>3. Typed(m) /\ Holds("lock", m)
  BY <1>1, BegunHolds
<1>4. Aside'
  BY <1>2, Unmoved, AsideKept DEF Inv, Aside
<1> QED BY <1>2, <1>3, <1>4, QuietInv DEF Label

LEMMA AcquireLockInv == ASSUME Inv, NEW p \in Proc, AcquireLock(p) PROVE Inv'
<1>1. PICK m : m = Begun(mem[p].sub, mem[p].confirmed)
  OBVIOUS
<1>2. mem' = [mem EXCEPT ![p] = m] /\ pc' = [pc EXCEPT ![p] = "member"] /\ lock' = p /\ pc[p] = "lock"
      /\ UNCHANGED <<rows, submission, stage, bucket, todo, faults, runs>> /\ overlap' \in BOOLEAN
  BY <1>1 DEF AcquireLock, Goto, Begun, Begin, Inv, Aside
<1>3. mem[p].sub \in Sub /\ p \in Form
  BY <1>2 DEF Inv, Shape, Holds
<1>4. Typed(m) /\ Holds("member", m)
  BY <1>1, <1>3, BegunHolds
<1>5. Aside'
  BY <1>2, <1>3, Unmoved, AsideKept DEF Inv, Aside
<1> QED BY <1>2, <1>4, <1>5, QuietInv DEF Label

(* A step that only looks.                                                 *)
LEMMA LocalInv ==
  ASSUME Inv, NEW p \in Proc, NEW s \in Label \ {"lock"}, NEW m,
         pc' = [pc EXCEPT ![p] = s], mem' = [mem EXCEPT ![p] = m],
         UNCHANGED <<rows, submission, stage, bucket, lock, todo, runs, overlap>>,
         faults' = faults \/ Fault, Typed(m), Holds(s, m)
  PROVE  Inv'
<1>1. faults' \in 0 .. MaxFaults
  BY JoinAssumption DEF Inv, Aside, Fault
<1>2. Aside'
  BY <1>1, Unmoved, AsideKept DEF Inv, Aside
<1> QED BY <1>2, QuietInv

(* A memory in which nothing but the fields named here is new.             *)
Answered(m, code, i) == [m EXCEPT !.code = code, !.install = i]

LEMMA AnswerSets ==
  ASSUME NEW p, NEW code, NEW i, Answer(p, code, i)
  PROVE  mem' = [mem EXCEPT ![p] = Answered(mem[p], code, i)] /\ pc' = [pc EXCEPT ![p] = "answered"]
<1>1. mem' = [mem EXCEPT ![p].code = code, ![p].install = i] /\ pc' = [pc EXCEPT ![p] = "answered"]
  BY DEF Answer, Goto
<1>2. mem' = [mem EXCEPT ![p] = [mem[p] EXCEPT !.code = code, !.install = i]]
  BY <1>1
<1> QED BY <1>1, <1>2 DEF Answered

LEMMA AnsweredHolds ==
  ASSUME NEW s, NEW m, Typed(m), Holds(s, m), s \notin {"idle", "next"}, NEW code \in Code, NEW i,
         i = Null \/ (i \in DOMAIN installs /\ Serves(i, m.sub))
  PROVE  Typed(Answered(m, code, i)) /\ Holds("answered", Answered(m, code, i))
<1> DEFINE n == Answered(m, code, i)
<1>1. IsMemory(n)
  BY DEF Typed, IsMemory, Field, Answered
<1>2. /\ n.sub = m.sub /\ n.member = m.member /\ n.building = m.building /\ n.primary = m.primary
      /\ n.nodes = m.nodes /\ n.code = code /\ n.install = i
  BY DEF Typed, IsMemory, Field, Answered
<1> HIDE DEF n
<1>3. Typed(n)
  BY <1>1, <1>2 DEF Typed
<1>4. Holds("answered", n)
  BY <1>2 DEF Holds
<1> QED BY <1>3, <1>4 DEF n

LEMMA FindMemberInv == ASSUME Inv, NEW p \in Proc, FindMember(p) PROVE Inv'
<1>1. PICK m : m = mem[p]
  OBVIOUS
<1>2. /\ Typed(m) /\ Holds("member", m) /\ mem = [mem EXCEPT ![p] = m] /\ Tables /\ m.sub \in Sub
      /\ UNCHANGED <<rows, submission, stage, bucket, lock, todo, runs, overlap>>
      /\ faults' = faults \/ Fault
  BY <1>1, Remembered DEF FindMember, Holds
<1>3. ASSUME NEW code \in {400, 409, 500}, Answer(p, code, Null) PROVE Inv'
  <2>2. mem' = [mem EXCEPT ![p] = Answered(m, code, Null)] /\ pc' = [pc EXCEPT ![p] = "answered"]
    BY <1>1, <1>3, AnswerSets
  <2>3. code \in Code
    BY DEF Code
  <2>4. Typed(Answered(m, code, Null)) /\ Holds("answered", Answered(m, code, Null))
    BY <1>2, <2>3, AnsweredHolds
  <2> QED BY <1>2, <2>2, <2>4, LocalInv DEF Label
<1>4. ASSUME UNCHANGED mem, Goto(p, "structure") PROVE Inv'
  <2>1. mem' = [mem EXCEPT ![p] = m] /\ pc' = [pc EXCEPT ![p] = "structure"]
    BY <1>2, <1>4 DEF Goto
  <2>2. Holds("structure", m)
    BY <1>2 DEF Holds
  <2> QED BY <1>2, <2>1, <2>2, LocalInv DEF Label
<1>5. ASSUME NEW i \in Known(Said(p).email), mem' = [mem EXCEPT ![p].member = i], Goto(p, "structure") PROVE Inv'
  <2>1. mem' = [mem EXCEPT ![p] = [mem[p] EXCEPT !.member = i]]
    BY <1>5
  <2> DEFINE n == [m EXCEPT !.member = i]
  <2>2. mem' = [mem EXCEPT ![p] = n] /\ pc' = [pc EXCEPT ![p] = "structure"]
    BY <1>1, <1>5, <2>1 DEF Goto
  <2>3. i \in DOMAIN members /\ members[i].email = submission[m.sub].email
    BY <1>1, <1>5 DEF Known, Said
  <2>4. IsMemory(n)
    BY <1>2 DEF Typed, IsMemory, Field
  <2>5. /\ n.sub = m.sub /\ n.member = i /\ n.building = m.building /\ n.primary = m.primary
        /\ n.nodes = m.nodes /\ n.code = m.code /\ n.install = m.install
    BY <1>2 DEF Typed, IsMemory, Field
  <2> HIDE DEF n
  <2>6. Typed(n)
    BY <1>2, <2>3, <2>4, <2>5 DEF Typed
  <2>7. Holds("structure", n)
    BY <1>2, <2>3, <2>5 DEF Holds
  <2> QED BY <1>2, <2>2, <2>6, <2>7, LocalInv DEF Label
<1> QED BY <1>3, <1>4, <1>5 DEF FindMember

LEMMA FindStructureInv == ASSUME Inv, NEW p \in Proc, FindStructure(p) PROVE Inv'
<1>1. PICK m : m = mem[p]
  OBVIOUS
<1>2. /\ Typed(m) /\ Holds("structure", m) /\ mem = [mem EXCEPT ![p] = m] /\ Tables /\ m.sub \in Sub
      /\ UNCHANGED <<rows, submission, stage, bucket, lock, todo, runs, overlap>>
      /\ faults' = faults /\ pc' = [pc EXCEPT ![p] = "building"]
  BY <1>1, Remembered DEF FindStructure, Holds, Goto
<1>3. ASSUME UNCHANGED mem PROVE Inv'
  <2>1. mem' = [mem EXCEPT ![p] = m]
    BY <1>2, <1>3
  <2>2. Holds("building", m)
    BY <1>2 DEF Holds
  <2> QED BY <1>2, <2>1, <2>2, LocalInv DEF Label
<1>4. ASSUME NEW S, S = Structure(Said(p).address), NEW i \in S,
             mem' = [mem EXCEPT ![p].nodes = UNION {buildings[j].nodes : j \in S},
                                ![p].primary = buildings[i].primary]
      PROVE  Inv'
  <2>1. PICK a, N : a = buildings[i].primary /\ N = UNION {buildings[j].nodes : j \in S}
    OBVIOUS
  <2>2. mem' = [mem EXCEPT ![p] = [mem[p] EXCEPT !.nodes = N, !.primary = a]]
    BY <1>4, <2>1
  <2> DEFINE n == [m EXCEPT !.nodes = N, !.primary = a]
  <2>3. mem' = [mem EXCEPT ![p] = n]
    BY <1>1, <2>2
  <2>4. \A j \in S : buildings[j] \in BuildingRow
    BY <1>2, <1>4, Domains DEF Tables, Structure
  <2>5. a \in Node \cup {Null} /\ N \subseteq Node
    BY <2>1, <2>4 DEF BuildingRow
  <2>6. IsMemory(n)
    BY <1>2 DEF Typed, IsMemory, Field
  <2>7. /\ n.sub = m.sub /\ n.member = m.member /\ n.building = m.building /\ n.primary = a
        /\ n.nodes = N /\ n.code = m.code /\ n.install = m.install
    BY <1>2 DEF Typed, IsMemory, Field
  <2> HIDE DEF n
  <2>8. Typed(n)
    BY <1>2, <2>5, <2>6, <2>7 DEF Typed
  <2>9. Holds("building", n)
    BY <1>2, <2>7 DEF Holds
  <2> QED BY <1>2, <2>3, <2>8, <2>9, LocalInv DEF Label
<1> QED BY <1>3, <1>4 DEF FindStructure

LEMMA FindBuildingInv == ASSUME Inv, NEW p \in Proc, FindBuilding(p) PROVE Inv'
<1>1. PICK m : m = mem[p]
  OBVIOUS
<1>2. /\ Typed(m) /\ Holds("building", m) /\ Tables /\ m.sub \in Sub
      /\ UNCHANGED <<rows, submission, stage, bucket, lock, todo, runs, overlap>>
      /\ faults' = faults /\ pc' = [pc EXCEPT ![p] = "install"]
  BY <1>1, Remembered DEF FindBuilding, Holds, Goto
<1>3. ASSUME mem' = [mem EXCEPT ![p].created = TRUE] PROVE Inv'
  <2> DEFINE n == [m EXCEPT !.created = TRUE]
  <2>1. mem' = [mem EXCEPT ![p] = [mem[p] EXCEPT !.created = TRUE]]
    BY <1>3
  <2>2. mem' = [mem EXCEPT ![p] = n]
    BY <1>1, <2>1
  <2>3. IsMemory(n)
    BY <1>2 DEF Typed, IsMemory, Field
  <2>4. /\ n.sub = m.sub /\ n.member = m.member /\ n.building = m.building /\ n.primary = m.primary
        /\ n.nodes = m.nodes /\ n.code = m.code /\ n.install = m.install
    BY <1>2 DEF Typed, IsMemory, Field
  <2> HIDE DEF n
  <2>5. Typed(n)
    BY <1>2, <2>3, <2>4 DEF Typed
  <2>6. Holds("install", n)
    BY <1>2, <2>4 DEF Holds
  <2> QED BY <1>2, <2>2, <2>5, <2>6, LocalInv DEF Label
<1>4. ASSUME NEW i \in Exact(Said(p).address),
             mem' = [mem EXCEPT ![p].building = i,
                                ![p].primary = IF buildings[i].primary # Null
                                               THEN buildings[i].primary ELSE @]
      PROVE  Inv'
  <2>1. PICK a : a = IF buildings[i].primary # Null THEN buildings[i].primary ELSE m.primary
    OBVIOUS
  <2> DEFINE n == [m EXCEPT !.building = i, !.primary = a]
  <2>2. mem' = [mem EXCEPT ![p] = [mem[p] EXCEPT !.building = i,
                                   !.primary = IF buildings[i].primary # Null
                                               THEN buildings[i].primary ELSE @]]
    BY <1>4
  <2>3. mem' = [mem EXCEPT ![p] = n]
    BY <1>1, <2>1, <2>2
  <2>4. i \in DOMAIN buildings /\ buildings[i].address = submission[m.sub].address
    BY <1>1, <1>4 DEF Exact, Structure, Said
  <2>5. a \in Node \cup {Null}
    <3>1. buildings[i] \in BuildingRow
      BY <1>2, <2>4, Domains DEF Tables
    <3> QED BY <1>2, <2>1, <3>1 DEF BuildingRow, Typed
  <2>6. IsMemory(n)
    BY <1>2 DEF Typed, IsMemory, Field
  <2>7. /\ n.sub = m.sub /\ n.member = m.member /\ n.building = i /\ n.primary = a
        /\ n.nodes = m.nodes /\ n.code = m.code /\ n.install = m.install
    BY <1>2 DEF Typed, IsMemory, Field
  <2> HIDE DEF n
  <2>8. Typed(n)
    BY <1>2, <2>4, <2>5, <2>6, <2>7 DEF Typed
  <2>9. Holds("install", n)
    BY <1>2, <2>4, <2>7 DEF Holds
  <2> QED BY <1>2, <2>3, <2>8, <2>9, LocalInv DEF Label
<1> QED BY <1>3, <1>4 DEF FindBuilding

LEMMA FindInstallInv == ASSUME Inv, NEW p \in Proc, FindInstall(p) PROVE Inv'
<1>1. PICK m : m = mem[p]
  OBVIOUS
<1>2. /\ Typed(m) /\ Holds("install", m) /\ mem = [mem EXCEPT ![p] = m] /\ Tables /\ m.sub \in Sub
      /\ UNCHANGED <<rows, submission, stage, bucket, lock, todo, runs, overlap>> /\ faults' = faults
  BY <1>1, Remembered DEF FindInstall, Holds
<1>3. ASSUME NEW i \in Open(p), Answer(p, 200, i) PROVE Inv'
  <2>1. /\ i \in DOMAIN installs /\ installs[i].unit = submission[m.sub].unit
        /\ installs[i].member = m.member /\ installs[i].building = m.building
    BY <1>1, <1>3 DEF Open, Said
  <2>2. m.member \in DOMAIN members /\ m.building \in DOMAIN buildings /\ m.member # 0 /\ m.building # 0
    BY <1>2, <2>1, Domains DEF Tables
  <2>3. Serves(i, m.sub)
    BY <1>2, <2>1, <2>2 DEF Holds, Serves
  <2>4. mem' = [mem EXCEPT ![p] = Answered(m, 200, i)] /\ pc' = [pc EXCEPT ![p] = "answered"]
    BY <1>1, <1>3, AnswerSets
  <2>5. 200 \in Code
    BY DEF Code
  <2>6. Typed(Answered(m, 200, i)) /\ Holds("answered", Answered(m, 200, i))
    BY <1>2, <2>1, <2>3, <2>5, AnsweredHolds
  <2> QED BY <1>2, <2>4, <2>6, LocalInv DEF Label
<1>4. ASSUME UNCHANGED mem, Goto(p, "saveMember") PROVE Inv'
  <2>1. mem' = [mem EXCEPT ![p] = m] /\ pc' = [pc EXCEPT ![p] = "saveMember"]
    BY <1>2, <1>4 DEF Goto
  <2>2. Holds("saveMember", m)
    BY <1>2 DEF Holds
  <2> QED BY <1>2, <2>1, <2>2, LocalInv DEF Label
<1> QED BY <1>3, <1>4 DEF FindInstall

-----------------------------------------------------------------------------
(***************************************************************************)
(* Steps that write rows.                                                  *)
(***************************************************************************)
(* Nothing but rows, the process, its list and the fault count change.     *)
LEMMA WriteInv ==
  ASSUME Inv, NEW p \in Proc, NEW s \in Label \ {"lock"}, NEW m,
         pc' = [pc EXCEPT ![p] = s], mem' = [mem EXCEPT ![p] = m],
         UNCHANGED <<stage, bucket, lock, runs, overlap>>,
         todo' = todo \/ todo' = [todo EXCEPT ![p] = {}],
         faults' = faults \/ Fault, Tables', Evolve, Typed(m)', Holds(s, m)'
  PROVE  Inv'
<1>1. faults' \in 0 .. MaxFaults
  BY JoinAssumption DEF Inv, Aside, Fault
<1>2. todo' \in [Replay -> SUBSET Sub]
  BY DEF Inv, Aside
<1>3. Aside'
  BY <1>1, <1>2, AsideKept DEF Inv, Aside
<1> QED BY <1>3, StepInv

(* What is written into one table leaves the others.                       *)
LEMMA WroteMembers ==
  ASSUME Tables, UNCHANGED <<buildings, installs, submission>>, members' \in Seq(MemberRow),
         \A i \in DOMAIN members : i \in DOMAIN members' /\ members'[i].email = members[i].email
  PROVE  Tables' /\ Evolve
BY DEF Tables, Evolve

LEMMA WroteBuildings ==
  ASSUME Tables, UNCHANGED <<members, installs, submission>>, buildings' \in Seq(BuildingRow),
         \A i \in DOMAIN buildings : i \in DOMAIN buildings' /\ buildings'[i].address = buildings[i].address
  PROVE  Tables' /\ Evolve
BY DEF Tables, Evolve

LEMMA SaveMemberInv == ASSUME Inv, NEW p \in Proc, SaveMember(p) PROVE Inv'
<1>1. PICK m : m = mem[p]
  OBVIOUS
<1>2. /\ Typed(m) /\ Holds("saveMember", m) /\ mem = [mem EXCEPT ![p] = m] /\ Tables /\ m.sub \in Sub
      /\ UNCHANGED <<buildings, installs, submission, stage, bucket, lock, todo, faults, runs, overlap>>
      /\ pc' = [pc EXCEPT ![p] = "saveBuilding"]
  BY <1>1, Remembered DEF SaveMember, Holds, Goto
<1>3. CASE mem[p].member = 0
  <2>0. PICK row, n : /\ row = [email |-> Said(p).email, live |-> TRUE]
                      /\ n = [m EXCEPT !.member = Len(members) + 1]
    OBVIOUS
  <2>1. members' = Append(members, row) /\ mem' = [mem EXCEPT ![p].member = Len(members) + 1]
    BY <1>3, <2>0 DEF SaveMember
  <2>2. row \in MemberRow /\ row.email = submission[m.sub].email
    BY <1>1, <1>2, <2>0 DEF Tables, MemberRow, Submission, Said
  <2>3. mem' = [mem EXCEPT ![p] = [mem[p] EXCEPT !.member = Len(members) + 1]]
    BY <2>1
  <2>4. mem' = [mem EXCEPT ![p] = n]
    BY <1>1, <2>0, <2>3
  <2>5. IsMemory(n)
    BY <1>2, <2>0 DEF Typed, IsMemory, Field
  <2>6. /\ n.sub = m.sub /\ n.member = Len(members) + 1 /\ n.building = m.building /\ n.primary = m.primary
        /\ n.nodes = m.nodes /\ n.code = m.code /\ n.install = m.install
    BY <1>2, <2>0 DEF Typed, IsMemory, Field
  <2>7. /\ members' \in Seq(MemberRow) /\ DOMAIN members' = DOMAIN members \cup {Len(members) + 1}
        /\ \A i \in DOMAIN members : members'[i] = members[i]
        /\ members'[Len(members) + 1] = row
    BY <1>2, <2>1, <2>2, Appended DEF Tables
  <2>8. Tables' /\ Evolve
    BY <1>2, <2>7, WroteMembers
  <2>9. Typed(m)' /\ Holds("saveMember", m)'
    BY <1>2, <2>8, StillHolds
  <2>10. Typed(n)'
    BY <2>5, <2>6, <2>7, <2>9 DEF Typed
  <2>11. Holds("saveBuilding", n)'
    <3>1. n.member # 0
      BY <1>2, <2>6, Appended, <2>2 DEF Tables
    <3>2. members'[n.member].email = submission'[n.sub].email
      BY <1>2, <2>2, <2>6, <2>7
    <3> QED BY <1>2, <2>6, <2>9, <3>1, <3>2 DEF Holds
  <2> QED BY <1>2, <2>4, <2>8, <2>10, <2>11, WriteInv DEF Label
<1>4. CASE mem[p].member # 0
  <2> DEFINE row == [members[m.member] EXCEPT !.live = TRUE]
  <2>1. members' = [members EXCEPT ![m.member] = row] /\ mem' = [mem EXCEPT ![p] = m]
    BY <1>1, <1>2, <1>4 DEF SaveMember
  <2>2. m.member \in DOMAIN members /\ members[m.member] \in MemberRow
    BY <1>1, <1>2, <1>4, Domains DEF Tables, Typed
  <2>3. row \in MemberRow /\ row.email = members[m.member].email
    BY <2>2 DEF MemberRow
  <2> HIDE DEF row
  <2>4. /\ members' \in Seq(MemberRow) /\ DOMAIN members' = DOMAIN members
        /\ \A i \in DOMAIN members : members'[i] = IF i = m.member THEN row ELSE members[i]
    BY <1>2, <2>1, <2>3, Replaced DEF Tables
  <2>5. Tables' /\ Evolve
    BY <1>2, <2>3, <2>4, WroteMembers
  <2>6. Typed(m)' /\ Holds("saveMember", m)'
    BY <1>2, <2>5, StillHolds
  <2>7. Holds("saveBuilding", m)'
    BY <1>1, <1>4, <2>6 DEF Holds
  <2> QED BY <1>2, <2>1, <2>5, <2>6, <2>7, WriteInv DEF Label
<1> QED BY <1>3, <1>4

LEMMA SaveBuildingInv == ASSUME Inv, NEW p \in Proc, SaveBuilding(p) PROVE Inv'
<1>1. PICK m : m = mem[p]
  OBVIOUS
<1>2. /\ Typed(m) /\ Holds("saveBuilding", m) /\ mem = [mem EXCEPT ![p] = m] /\ Tables /\ m.sub \in Sub
      /\ UNCHANGED <<members, installs, submission, stage, bucket, lock, todo, faults, runs, overlap>>
      /\ pc' = [pc EXCEPT ![p] = "addNodes"]
  BY <1>1, Remembered DEF SaveBuilding, Holds, Goto
<1>3. CASE mem[p].building = 0
  <2>0. PICK row, n : /\ row = [address |-> Said(p).address, primary |-> mem[p].primary, nodes |-> {}, live |-> TRUE]
                      /\ n = [m EXCEPT !.building = Len(buildings) + 1]
    OBVIOUS
  <2>1. buildings' = Append(buildings, row) /\ mem' = [mem EXCEPT ![p].building = Len(buildings) + 1]
    BY <1>3, <2>0 DEF SaveBuilding
  <2>2. row \in BuildingRow /\ row.address = submission[m.sub].address
    BY <1>1, <1>2, <2>0 DEF Tables, BuildingRow, Submission, Said, Typed
  <2>3. mem' = [mem EXCEPT ![p] = [mem[p] EXCEPT !.building = Len(buildings) + 1]]
    BY <2>1
  <2>4. mem' = [mem EXCEPT ![p] = n]
    BY <1>1, <2>0, <2>3
  <2>5. IsMemory(n)
    BY <1>2, <2>0 DEF Typed, IsMemory, Field
  <2>6. /\ n.sub = m.sub /\ n.member = m.member /\ n.building = Len(buildings) + 1 /\ n.primary = m.primary
        /\ n.nodes = m.nodes /\ n.code = m.code /\ n.install = m.install
    BY <1>2, <2>0 DEF Typed, IsMemory, Field
  <2>7. /\ buildings' \in Seq(BuildingRow) /\ DOMAIN buildings' = DOMAIN buildings \cup {Len(buildings) + 1}
        /\ \A i \in DOMAIN buildings : buildings'[i] = buildings[i]
        /\ buildings'[Len(buildings) + 1] = row
    BY <1>2, <2>1, <2>2, Appended DEF Tables
  <2>8. Tables' /\ Evolve
    BY <1>2, <2>7, WroteBuildings
  <2>9. Typed(m)' /\ Holds("saveBuilding", m)'
    BY <1>2, <2>8, StillHolds
  <2>10. Typed(n)'
    BY <2>5, <2>6, <2>7, <2>9 DEF Typed
  <2>11. Holds("addNodes", n)'
    <3>1. n.building # 0
      BY <1>2, <2>6, Appended, <2>2 DEF Tables
    <3>2. buildings'[n.building].address = submission'[n.sub].address
      BY <1>2, <2>2, <2>6, <2>7
    <3> QED BY <1>2, <2>6, <2>9, <3>1, <3>2 DEF Holds
  <2> QED BY <1>2, <2>4, <2>8, <2>10, <2>11, WriteInv DEF Label
<1>4. CASE mem[p].building # 0
  <2> DEFINE row == [buildings[m.building] EXCEPT !.primary = m.primary, !.live = TRUE]
  <2>1. buildings' = [buildings EXCEPT ![m.building] = row] /\ mem' = [mem EXCEPT ![p] = m]
    BY <1>1, <1>2, <1>4 DEF SaveBuilding
  <2>2. m.building \in DOMAIN buildings /\ buildings[m.building] \in BuildingRow
    BY <1>1, <1>2, <1>4, Domains DEF Tables, Typed
  <2>3. row \in BuildingRow /\ row.address = buildings[m.building].address
    BY <1>2, <2>2 DEF BuildingRow, Typed
  <2> HIDE DEF row
  <2>4. /\ buildings' \in Seq(BuildingRow) /\ DOMAIN buildings' = DOMAIN buildings
        /\ \A i \in DOMAIN buildings : buildings'[i] = IF i = m.building THEN row ELSE buildings[i]
    BY <1>2, <2>1, <2>3, Replaced DEF Tables
  <2>5. Tables' /\ Evolve
    BY <1>2, <2>3, <2>4, WroteBuildings
  <2>6. Typed(m)' /\ Holds("saveBuilding", m)'
    BY <1>2, <2>5, StillHolds
  <2>7. Holds("addNodes", m)'
    BY <1>1, <1>4, <2>6 DEF Holds
  <2> QED BY <1>2, <2>1, <2>5, <2>6, <2>7, WriteInv DEF Label
<1> QED BY <1>3, <1>4

LEMMA MemberSet ==
  ASSUME Tables, UNCHANGED <<buildings, installs, submission>>, NEW b \in DOMAIN members,
         NEW row \in MemberRow, row.email = members[b].email, members' = [members EXCEPT ![b] = row]
  PROVE  /\ Tables' /\ Evolve /\ DOMAIN members' = DOMAIN members
         /\ \A i \in DOMAIN members : members'[i] = IF i = b THEN row ELSE members[i]
<1>1. /\ members' \in Seq(MemberRow) /\ DOMAIN members' = DOMAIN members
      /\ \A i \in DOMAIN members : members'[i] = IF i = b THEN row ELSE members[i]
  BY Replaced DEF Tables
<1> QED BY <1>1, WroteMembers

LEMMA BuildingSet ==
  ASSUME Tables, UNCHANGED <<members, installs, submission>>, NEW b \in DOMAIN buildings,
         NEW row \in BuildingRow, row.address = buildings[b].address, buildings' = [buildings EXCEPT ![b] = row]
  PROVE  /\ Tables' /\ Evolve /\ DOMAIN buildings' = DOMAIN buildings
         /\ \A i \in DOMAIN buildings : buildings'[i] = IF i = b THEN row ELSE buildings[i]
<1>1. /\ buildings' \in Seq(BuildingRow) /\ DOMAIN buildings' = DOMAIN buildings
      /\ \A i \in DOMAIN buildings : buildings'[i] = IF i = b THEN row ELSE buildings[i]
  BY Replaced DEF Tables
<1> QED BY <1>1, WroteBuildings

(* The rows of a process that has both.                                    *)
LEMMA Rows ==
  ASSUME Tables, NEW m, Typed(m), NEW s \in {"addNodes", "saveInstall", "ticket", "deleteMember", "deleteBuilding"},
         Holds(s, m)
  PROVE  /\ m.sub \in Sub
         /\ m.member \in DOMAIN members /\ members[m.member] \in MemberRow /\ m.member # 0
         /\ members[m.member].email = submission[m.sub].email
         /\ m.building \in DOMAIN buildings /\ buildings[m.building] \in BuildingRow /\ m.building # 0
         /\ buildings[m.building].address = submission[m.sub].address
<1>1. m.member # 0 /\ m.building # 0 /\ m.sub \in Sub
  BY DEF Holds
<1> QED BY <1>1, Domains DEF Typed, Holds, Tables

LEMMA AddNodesInv == ASSUME Inv, NEW p \in Proc, AddNodes(p) PROVE Inv'
<1>1. PICK m : m = mem[p]
  OBVIOUS
<1>2. /\ Typed(m) /\ Holds("addNodes", m) /\ mem = [mem EXCEPT ![p] = m] /\ Tables /\ m.sub \in Sub
      /\ UNCHANGED <<members, installs, submission, stage, bucket, lock, todo, faults, runs, overlap>>
  BY <1>1, Remembered DEF AddNodes, Holds
<1>3. /\ m.building \in DOMAIN buildings /\ buildings[m.building] \in BuildingRow
  BY <1>2, Rows
<1>4. ASSUME buildings' = [buildings EXCEPT ![mem[p].building].nodes = @ \cup Missing(p)],
             Goto(p, "saveInstall"), UNCHANGED mem
      PROVE  Inv'
  <2>0. PICK row : row = [buildings[m.building] EXCEPT !.nodes = @ \cup Missing(p)]
    OBVIOUS
  <2>1. buildings' = [buildings EXCEPT ![m.building] = row]
    BY <1>1, <1>4, <2>0
  <2>2. Missing(p) \subseteq Node
    BY <1>1, <1>2 DEF Missing, Typed
  <2>3. row \in BuildingRow /\ row.address = buildings[m.building].address
    BY <1>3, <2>0, <2>2 DEF BuildingRow
  <2>4. Tables' /\ Evolve
    BY <1>2, <1>3, <2>1, <2>3, BuildingSet
  <2>5. Typed(m)' /\ Holds("addNodes", m)'
    BY <1>2, <2>4, StillHolds
  <2>6. Holds("saveInstall", m)'
    BY <2>5 DEF Holds
  <2>7. mem' = [mem EXCEPT ![p] = m] /\ pc' = [pc EXCEPT ![p] = "saveInstall"]
    BY <1>2, <1>4 DEF Goto
  <2> QED BY <1>2, <2>4, <2>5, <2>6, <2>7, WriteInv DEF Label
<1>5. ASSUME mem' = [mem EXCEPT ![p].created = FALSE], Goto(p, "deleteMember"), UNCHANGED buildings
      PROVE  Inv'
  <2>0. PICK n : n = [m EXCEPT !.created = FALSE]
    OBVIOUS
  <2>1. mem' = [mem EXCEPT ![p] = [mem[p] EXCEPT !.created = FALSE]]
    BY <1>5
  <2>2. mem' = [mem EXCEPT ![p] = n] /\ pc' = [pc EXCEPT ![p] = "deleteMember"]
    BY <1>1, <1>5, <2>0, <2>1 DEF Goto
  <2>3. IsMemory(n)
    BY <1>2, <2>0 DEF Typed, IsMemory, Field
  <2>4. /\ n.sub = m.sub /\ n.member = m.member /\ n.building = m.building /\ n.primary = m.primary
        /\ n.nodes = m.nodes /\ n.code = m.code /\ n.install = m.install
    BY <1>2, <2>0 DEF Typed, IsMemory, Field
  <2>5. Typed(n)
    BY <1>2, <2>3, <2>4 DEF Typed
  <2>6. Holds("deleteMember", n)
    BY <1>2, <2>4 DEF Holds
  <2>7. UNCHANGED rows
    BY <1>2, <1>5 DEF rows
  <2> QED BY <1>2, <2>2, <2>5, <2>6, <2>7, LocalInv DEF Label
<1> QED BY <1>4, <1>5 DEF AddNodes

LEMMA SaveInstallInv == ASSUME Inv, NEW p \in Proc, SaveInstall(p) PROVE Inv'
<1>1. PICK m : m = mem[p]
  OBVIOUS
<1>2. /\ Typed(m) /\ Holds("saveInstall", m) /\ mem = [mem EXCEPT ![p] = m] /\ Tables /\ m.sub \in Sub
      /\ UNCHANGED <<members, buildings, submission, stage, bucket, lock, todo, faults, runs, overlap>>
  BY <1>1, Remembered DEF SaveInstall, Holds
<1>3. /\ m.member \in DOMAIN members /\ members[m.member].email = submission[m.sub].email
      /\ m.building \in DOMAIN buildings /\ buildings[m.building].address = submission[m.sub].address
      /\ m.member # 0 /\ m.building # 0
  BY <1>2, Rows
<1>4. ASSUME NEW row, row = [member |-> mem[p].member, building |-> mem[p].building,
                             unit |-> Said(p).unit, open |-> TRUE, node |-> mem[p].primary],
             installs' = Append(installs, row),
             mem' = [mem EXCEPT ![p].install = Len(installs) + 1], Goto(p, "ticket")
      PROVE  Inv'
  <2>0. PICK n : n = [m EXCEPT !.install = Len(installs) + 1]
    OBVIOUS
  <2>1. mem' = [mem EXCEPT ![p] = [mem[p] EXCEPT !.install = Len(installs) + 1]]
    BY <1>4
  <2>2. mem' = [mem EXCEPT ![p] = n] /\ pc' = [pc EXCEPT ![p] = "ticket"]
    BY <1>1, <1>4, <2>0, <2>1 DEF Goto
  <2>3. row \in InstallRow
    <3>1. m.member \in Nat /\ m.building \in Nat
      BY <1>2, <1>3, Domains DEF Tables
    <3>2. Said(p).unit \in Unit
      BY <1>1, <1>2 DEF Said, Tables, Submission
    <3> QED BY <1>1, <1>2, <1>4, <3>1, <3>2 DEF InstallRow, Typed
  <2>4. row.member = m.member /\ row.building = m.building /\ row.unit = submission[m.sub].unit
    BY <1>1, <1>4 DEF Said
  <2>5. /\ installs' \in Seq(InstallRow) /\ DOMAIN installs' = DOMAIN installs \cup {Len(installs) + 1}
        /\ \A i \in DOMAIN installs : installs'[i] = installs[i]
        /\ installs'[Len(installs) + 1] = row
    BY <1>2, <1>4, <2>3, Appended DEF Tables
  <2>6. Evolve
    BY <1>2, <2>5 DEF Evolve
  <2>7. Tables'
    BY <1>2, <1>3, <2>4, <2>5 DEF Tables
  <2>8. Typed(m)' /\ Holds("saveInstall", m)'
    BY <1>2, <2>6, StillHolds
  <2>9. IsMemory(n)
    BY <1>2, <2>0 DEF Typed, IsMemory, Field
  <2>10. /\ n.sub = m.sub /\ n.member = m.member /\ n.building = m.building /\ n.primary = m.primary
         /\ n.nodes = m.nodes /\ n.code = m.code /\ n.install = Len(installs) + 1
    BY <1>2, <2>0 DEF Typed, IsMemory, Field
  <2>11. Typed(n)'
    BY <2>5, <2>8, <2>9, <2>10 DEF Typed
  <2>12. PICK k : k = Len(installs) + 1
    OBVIOUS
  <2>15. Serves(k, m.sub)'
    <3>1. /\ members'[installs'[k].member].email = submission'[m.sub].email
          /\ buildings'[installs'[k].building].address = submission'[m.sub].address
          /\ installs'[k].unit = submission'[m.sub].unit /\ k \in DOMAIN installs'
      BY <1>2, <1>3, <2>4, <2>5, <2>12
    <3> QED BY <3>1 DEF Serves
  <2>13. n.install # Null
    <3>1. Len(installs) + 1 \in Nat
      BY <1>2, Appended, <2>3 DEF Tables
    <3> QED BY <2>10, <3>1, JoinAssumption
  <2>14. Holds("ticket", n)'
    <3>1. n.install = k /\ n.sub = m.sub
      BY <2>10, <2>12
    <3>2. Serves(n.install, n.sub)'
      BY <2>15, <3>1 DEF Serves
    <3> QED BY <1>2, <1>3, <2>8, <2>10, <2>13, <3>2 DEF Holds
  <2> QED BY <1>2, <2>2, <2>6, <2>7, <2>11, <2>14, WriteInv DEF Label
<1>5. ASSUME Goto(p, "deleteMember"), UNCHANGED <<installs, mem>> PROVE Inv'
  <2>1. mem' = [mem EXCEPT ![p] = m] /\ pc' = [pc EXCEPT ![p] = "deleteMember"] /\ UNCHANGED rows
    BY <1>2, <1>5 DEF Goto, rows
  <2>2. Holds("deleteMember", m)
    BY <1>2 DEF Holds
  <2> QED BY <1>2, <2>1, <2>2, LocalInv DEF Label
<1> QED BY <1>4, <1>5 DEF SaveInstall

(* An exception that ends a request or a run.                              *)
LEMMA EscapeInv ==
  ASSUME Inv, NEW p \in Proc, NEW s, NEW m, m = mem[p], Typed(m)', Holds(s, m)',
         s \notin {"idle", "next"}, Escape(p),
         UNCHANGED <<stage, bucket, lock, runs, overlap>>,
         faults' = faults \/ Fault, Tables', Evolve
  PROVE  Inv'
<1>1. ASSUME Answer(p, 500, Null), todo' = todo PROVE Inv'
  <2>0. PICK n : n = Answered(m, 500, Null)
    OBVIOUS
  <2>1. mem' = [mem EXCEPT ![p] = n] /\ pc' = [pc EXCEPT ![p] = "answered"]
    BY <1>1, <2>0, AnswerSets
  <2>2. IsMemory(n)
    BY <2>0 DEF Typed, IsMemory, Field, Answered
  <2>3. /\ n.sub = m.sub /\ n.member = m.member /\ n.building = m.building /\ n.primary = m.primary
        /\ n.nodes = m.nodes /\ n.code = 500 /\ n.install = Null
    BY <2>0 DEF Typed, IsMemory, Field, Answered
  <2>4. Typed(n)'
    BY <2>2, <2>3 DEF Typed, Code
  <2>5. Holds("answered", n)'
    BY <2>3 DEF Holds
  <2> QED BY <1>1, <2>1, <2>4, <2>5, WriteInv DEF Label
<1>2. ASSUME mem' = [mem EXCEPT ![p] = NoMemory], todo' = [todo EXCEPT ![p] = {}], Goto(p, "idle") PROVE Inv'
  <2>1. Typed(NoMemory) /\ Holds("idle", NoMemory)
    BY Blank
  <2>2. Typed(NoMemory)' /\ Holds("idle", NoMemory)'
    BY <2>1, StillHolds DEF Inv, NoMemory
  <2> QED BY <1>2, <2>2, WriteInv DEF Label, Goto
<1> QED BY <1>1, <1>2 DEF Escape

LEMMA CreateTicketInv == ASSUME Inv, NEW p \in Proc, CreateTicket(p) PROVE Inv'
<1>1. PICK m : m = mem[p]
  OBVIOUS
<1>2. /\ Typed(m) /\ Holds("ticket", m) /\ Tables /\ m.sub \in Sub
      /\ UNCHANGED <<members, buildings, submission, stage, bucket, lock, runs, overlap>>
  BY <1>1, Remembered DEF CreateTicket, Holds
<1>3. m.install # Null /\ m.install \in DOMAIN installs /\ Serves(m.install, m.sub)
  BY <1>2 DEF Typed, Holds
<1>4. ASSUME installs' = installs \/ installs' = [installs EXCEPT ![mem[p].install].open = TRUE],
             Answer(p, 201, mem[p].install), UNCHANGED <<todo, faults>>
      PROVE  Inv'
  <2>1. PICK row : row = IF installs' = installs THEN installs[m.install]
                         ELSE [installs[m.install] EXCEPT !.open = TRUE]
    OBVIOUS
  <2>2. installs[m.install] \in InstallRow
    BY <1>2, <1>3, Domains DEF Tables
  <2>3. row \in InstallRow /\ row.member = installs[m.install].member
        /\ row.building = installs[m.install].building /\ row.unit = installs[m.install].unit
    BY <2>1, <2>2 DEF InstallRow
  <2>4. installs' = [installs EXCEPT ![m.install] = row]
    BY <1>1, <1>2, <1>3, <1>4, <2>1 DEF Tables
  <2>5. /\ installs' \in Seq(InstallRow) /\ DOMAIN installs' = DOMAIN installs
        /\ \A i \in DOMAIN installs : installs'[i] = IF i = m.install THEN row ELSE installs[i]
    BY <1>2, <2>3, <2>4, Replaced DEF Tables
  <2>6. Evolve
    BY <1>2, <2>3, <2>5 DEF Evolve
  <2>7. Tables'
    BY <1>2, <2>3, <2>5 DEF Tables
  <2>8. PICK n : n = Answered(m, 201, m.install)
    OBVIOUS
  <2>9. mem' = [mem EXCEPT ![p] = n] /\ pc' = [pc EXCEPT ![p] = "answered"]
    BY <1>1, <1>4, <2>8, AnswerSets
  <2>10. Typed(n) /\ Holds("answered", n)
    BY <1>2, <1>3, <2>8, AnsweredHolds DEF Code
  <2>11. Typed(n)' /\ Holds("answered", n)'
    BY <1>2, <2>6, <2>10, StillHolds
  <2> QED BY <1>2, <1>4, <2>6, <2>7, <2>9, <2>11, WriteInv DEF Label
<1>5. ASSUME Fault, Escape(p), UNCHANGED installs PROVE Inv'
  <2>1. Tables' /\ Evolve
    BY <1>2, <1>5, Unmoved DEF rows
  <2>2. Typed(m)' /\ Holds("ticket", m)'
    BY <1>2, <2>1, StillHolds
  <2> QED BY <1>1, <1>2, <1>5, <2>1, <2>2, EscapeInv
<1> QED BY <1>4, <1>5 DEF CreateTicket

LEMMA DeleteMemberInv == ASSUME Inv, NEW p \in Proc, DeleteMember(p) PROVE Inv'
<1>1. PICK m : m = mem[p]
  OBVIOUS
<1>2. /\ Typed(m) /\ Holds("deleteMember", m) /\ mem = [mem EXCEPT ![p] = m] /\ Tables /\ m.sub \in Sub
      /\ UNCHANGED <<buildings, installs, submission, stage, bucket, lock, faults, runs, overlap>>
  BY <1>1, Remembered DEF DeleteMember, Holds
<1>3. ASSUME Escape(p), UNCHANGED members PROVE Inv'
  <2>1. Tables' /\ Evolve
    BY <1>2, <1>3, Unmoved DEF rows
  <2>2. Typed(m)' /\ Holds("deleteMember", m)'
    BY <1>2, <2>1, StillHolds
  <2> QED BY <1>1, <1>2, <1>3, <2>1, <2>2, EscapeInv
<1>4. ASSUME members' = [members EXCEPT ![mem[p].member].live = FALSE], UNCHANGED todo,
             \/ Goto(p, "deleteBuilding") /\ UNCHANGED mem
             \/ Answer(p, 400, Null)
      PROVE  Inv'
  <2>0. PICK row : row = [members[m.member] EXCEPT !.live = FALSE]
    OBVIOUS
  <2>1. members' = [members EXCEPT ![m.member] = row]
    BY <1>1, <1>4, <2>0
  <2>2. m.member \in DOMAIN members /\ members[m.member] \in MemberRow
    BY <1>2, Rows
  <2>3. row \in MemberRow /\ row.email = members[m.member].email
    BY <2>0, <2>2 DEF MemberRow
  <2>4. Tables' /\ Evolve
    BY <1>2, <2>1, <2>2, <2>3, MemberSet
  <2>5. CASE Goto(p, "deleteBuilding") /\ UNCHANGED mem
    <3>1. mem' = [mem EXCEPT ![p] = m] /\ pc' = [pc EXCEPT ![p] = "deleteBuilding"]
      BY <1>2, <2>5 DEF Goto
    <3>2. Holds("deleteBuilding", m)
      BY <1>2 DEF Holds
    <3>3. Typed(m)' /\ Holds("deleteBuilding", m)'
      BY <1>2, <2>4, <3>2, StillHolds
    <3> QED BY <1>2, <1>4, <2>4, <3>1, <3>3, WriteInv DEF Label
  <2>6. CASE Answer(p, 400, Null)
    <3>1. PICK n : n = Answered(m, 400, Null)
      OBVIOUS
    <3>2. mem' = [mem EXCEPT ![p] = n] /\ pc' = [pc EXCEPT ![p] = "answered"]
      BY <1>1, <2>6, <3>1, AnswerSets
    <3>3. Typed(n) /\ Holds("answered", n)
      BY <1>2, <3>1, AnsweredHolds DEF Code
    <3>4. Typed(n)' /\ Holds("answered", n)'
      BY <1>2, <2>4, <3>3, StillHolds
    <3> QED BY <1>2, <1>4, <2>4, <3>2, <3>4, WriteInv DEF Label
  <2> QED BY <1>4, <2>5, <2>6
<1> QED BY <1>3, <1>4 DEF DeleteMember

LEMMA DeleteBuildingInv == ASSUME Inv, NEW p \in Proc, DeleteBuilding(p) PROVE Inv'
<1>1. PICK m : m = mem[p]
  OBVIOUS
<1>2. /\ Typed(m) /\ Holds("deleteBuilding", m) /\ Tables /\ m.sub \in Sub
      /\ UNCHANGED <<members, installs, submission, stage, bucket, lock, faults, runs, overlap>>
  BY <1>1, Remembered DEF DeleteBuilding, Holds
<1>3. ASSUME Escape(p), UNCHANGED buildings PROVE Inv'
  <2>1. Tables' /\ Evolve
    BY <1>2, <1>3, Unmoved DEF rows
  <2>2. Typed(m)' /\ Holds("deleteBuilding", m)'
    BY <1>2, <2>1, StillHolds
  <2> QED BY <1>1, <1>2, <1>3, <2>1, <2>2, EscapeInv
<1>4. ASSUME buildings' = [buildings EXCEPT ![mem[p].building].live = FALSE,
                                            ![mem[p].building].nodes = {}],
             UNCHANGED todo, Answer(p, 400, Null)
      PROVE  Inv'
  <2>0. PICK row : row = [buildings[m.building] EXCEPT !.live = FALSE, !.nodes = {}]
    OBVIOUS
  <2>1. buildings' = [buildings EXCEPT ![m.building] = row]
    BY <1>1, <1>4, <2>0
  <2>2. m.building \in DOMAIN buildings /\ buildings[m.building] \in BuildingRow
    BY <1>2, Rows
  <2>3. row \in BuildingRow /\ row.address = buildings[m.building].address
    BY <2>0, <2>2 DEF BuildingRow
  <2>4. Tables' /\ Evolve
    BY <1>2, <2>1, <2>2, <2>3, BuildingSet
  <2>5. PICK n : n = Answered(m, 400, Null)
    OBVIOUS
  <2>6. mem' = [mem EXCEPT ![p] = n] /\ pc' = [pc EXCEPT ![p] = "answered"]
    BY <1>1, <1>4, <2>5, AnswerSets
  <2>7. Typed(n) /\ Holds("answered", n)
    BY <1>2, <2>5, AnsweredHolds DEF Code
  <2>8. Typed(n)' /\ Holds("answered", n)'
    BY <1>2, <2>4, <2>7, StillHolds
  <2> QED BY <1>2, <1>4, <2>4, <2>6, <2>8, WriteInv DEF Label
<1> QED BY <1>3, <1>4 DEF DeleteBuilding

-----------------------------------------------------------------------------
(***************************************************************************)
(* Steps that end a request, and the command's own.                        *)
(***************************************************************************)
LEMMA Cleared ==
  ASSUME Inv, NEW p \in Proc, Release(p), UNCHANGED <<rows, submission>>, Aside'
  PROVE  Inv'
BY Blank, QuietInv DEF Release, Goto, Label

(* A POST record that names an install names one that serves.              *)
LEMMA Recorded ==
  ASSUME Inv, NEW p \in Proc, pc[p] = "answered", NEW i,
         i = mem[p].install \/ i = post[mem[p].sub].install
  PROVE  /\ mem[p].sub \in Sub /\ mem[p].code \in Code /\ i \in {Null} \cup DOMAIN installs
         /\ i # Null => Serves(i, mem[p].sub)
         /\ [code |-> mem[p].code, install |-> i] \in JoinRecord
<1>1. Typed(mem[p]) /\ Holds("answered", mem[p]) /\ Tables /\ Aside
  BY Remembered
<1>2. mem[p].sub \in Sub /\ mem[p].code \in Code
  BY <1>1 DEF Typed, Holds
<1>3. i \in {Null} \cup DOMAIN installs /\ (i # Null => Serves(i, mem[p].sub))
  BY <1>1, <1>2 DEF Typed, Holds, Aside
<1>4. i \in Nat \cup {Null}
  BY <1>1, <1>3, Domains DEF Tables
<1> QED BY <1>2, <1>3, <1>4 DEF JoinRecord, Code

LEMMA AsideWith ==
  ASSUME Inv, UNCHANGED <<rows, submission>>, NEW s \in Sub, NEW r \in JoinRecord,
         r.install \in {Null} \cup DOMAIN installs, r.install # Null => Serves(r.install, s),
         post' = post \/ post' = [post EXCEPT ![s] = r], UNCHANGED <<pre, runs>>,
         todo' \in [Replay -> SUBSET Sub], lock' \in Form \cup {NoProc}, overlap' \in BOOLEAN,
         faults' = faults \/ Fault, stage' \in [Sub -> {"new", "sent", "confirmed", "done"}]
  PROVE  Aside'
<1>1. faults' \in 0 .. MaxFaults
  BY JoinAssumption DEF Inv, Aside, Fault
<1>2. Aside /\ installs' = installs /\ \A j, t : Serves(j, t)' = Serves(j, t)
  BY DEF Inv, rows, Serves
<1>3. post' \in [Sub -> JoinRecord] /\ \A t \in Sub : post'[t] = IF post' # post /\ t = s THEN r ELSE post[t]
  BY <1>2 DEF Aside
<1>4. ASSUME NEW t \in Sub
      PROVE  /\ post'[t].install \in {Null} \cup DOMAIN installs'
             /\ post'[t].install # Null => Serves(post[t].install, t)'
  <2>1. PICK j : j = post'[t].install
    OBVIOUS
  <2>2. j \in {Null} \cup DOMAIN installs /\ (j # Null => Serves(j, t))
    BY <1>2, <1>3, <2>1 DEF Aside
  <2>3. j # Null => Serves(j, t)'
    BY <1>2, <2>2
  <2> QED BY <1>2, <2>1, <2>2, <2>3 DEF Serves
<1> QED BY <1>1, <1>2, <1>3, <1>4 DEF Aside

LEMMA RespondInv == ASSUME Inv, NEW p \in Proc, Respond(p) PROVE Inv'
<1>1. PICK r : r = [code |-> mem[p].code, install |-> mem[p].install]
  OBVIOUS
<1>2. pc[p] = "answered" /\ Release(p) /\ UNCHANGED <<rows, submission, pre, todo, runs, overlap>>
      /\ (faults' = faults \/ Fault)
      /\ (post' = post \/ post' = [post EXCEPT ![mem[p].sub] = r])
      /\ \E x \in {"confirmed", "done"} : stage' = [stage EXCEPT ![mem[p].sub] = x]
  BY <1>1 DEF Respond
<1>3. /\ mem[p].sub \in Sub /\ r \in JoinRecord /\ r.install \in {Null} \cup DOMAIN installs
      /\ r.install # Null => Serves(r.install, mem[p].sub)
  BY <1>1, <1>2, Recorded
<1>4. Aside /\ todo' \in [Replay -> SUBSET Sub] /\ lock' \in Form \cup {NoProc} /\ overlap' \in BOOLEAN
      /\ stage' \in [Sub -> {"new", "sent", "confirmed", "done"}]
  BY <1>2, <1>3 DEF Inv, Aside, Release
<1>5. Aside'
  BY <1>2, <1>3, <1>4, AsideWith
<1> QED BY <1>2, <1>5, Cleared

LEMMA CrashInv == ASSUME Inv, NEW p \in Proc, Crash(p) PROVE Inv'
<1>1. /\ Release(p) /\ UNCHANGED <<rows, submission, bucket, runs, overlap>> /\ faults' \in 0 .. MaxFaults
  BY JoinAssumption DEF Crash, Fault, Inv, Aside
<1>2. Aside /\ todo' \in [Replay -> SUBSET Sub] /\ lock' \in Form \cup {NoProc}
      /\ stage' \in [Sub -> {"new", "sent", "confirmed", "done"}]
  BY <1>1 DEF Inv, Aside, Release, Crash
<1>3. installs' = installs /\ \A j, t : Serves(j, t)' = Serves(j, t)
  BY <1>1 DEF rows, Serves
<1>4. Aside'
  BY <1>1, <1>2, <1>3 DEF Aside, bucket
<1> QED BY <1>1, <1>4, Cleared

LEMMA ListRecordsInv == ASSUME Inv, NEW p \in Proc, ListRecords(p) PROVE Inv'
<1>1. PICK m : m = mem[p]
  OBVIOUS
<1>2. /\ Typed(m) /\ Holds("idle", m) /\ mem = [mem EXCEPT ![p] = m] /\ Aside
      /\ UNCHANGED <<rows, submission, stage, bucket, lock, mem, faults, overlap>>
      /\ pc' = [pc EXCEPT ![p] = "next"] /\ runs < MaxRuns /\ runs' = runs + 1
      /\ todo' = [todo EXCEPT ![p] = {s \in Stored : ~Irrelevant(s)}]
  BY <1>1, Remembered DEF ListRecords, Goto
<1>3. Holds("next", m)
  BY <1>2 DEF Holds
<1>4. runs' \in 0 .. MaxRuns
  BY <1>2, JoinAssumption DEF Aside
<1>5. todo' \in [Replay -> SUBSET Sub]
  BY <1>2 DEF Aside, Stored
<1>6. installs' = installs /\ \A j, t : Serves(j, t)' = Serves(j, t)
  BY <1>2 DEF rows, Serves
<1>7. Aside'
  BY <1>2, <1>4, <1>5, <1>6 DEF Aside, bucket
<1> QED BY <1>2, <1>3, <1>7, QuietInv DEF Label

(* A process takes up a record, or takes it up again.                      *)
LEMMA BeginInv ==
  ASSUME Inv, NEW p \in Proc, NEW s \in Sub, NEW c, Begin(p, s, c), Goto(p, "member"),
         UNCHANGED <<rows, submission, stage, bucket, lock, faults, runs>>,
         todo' \in [Replay -> SUBSET Sub]
  PROVE  Inv'
<1>1. PICK m : m = Begun(s, c)
  OBVIOUS
<1>2. mem' = [mem EXCEPT ![p] = m] /\ pc' = [pc EXCEPT ![p] = "member"] /\ overlap' \in BOOLEAN
  BY <1>1 DEF Goto, Begun, Begin, Inv, Aside
<1>3. Typed(m) /\ Holds("member", m)
  BY <1>1, BegunHolds
<1>4. Aside'
  BY <1>2, Unmoved, AsideKept DEF Inv, Aside
<1> QED BY <1>2, <1>3, <1>4, QuietInv DEF Label

LEMMA NextRecordInv == ASSUME Inv, NEW p \in Proc, NextRecord(p) PROVE Inv'
<1>1. CASE todo[p] = {} /\ Goto(p, "idle") /\ UNCHANGED <<mem, todo, overlap>>
  <2>1. PICK m : m = mem[p]
    OBVIOUS
  <2>2. /\ Typed(m) /\ Holds("next", m) /\ mem = [mem EXCEPT ![p] = m]
        /\ UNCHANGED <<rows, submission, stage, bucket, lock, faults, runs>>
    BY <2>1, Remembered DEF NextRecord
  <2>3. Holds("idle", m)
    BY <2>2 DEF Holds
  <2>4. mem' = [mem EXCEPT ![p] = m] /\ pc' = [pc EXCEPT ![p] = "idle"]
    BY <1>1, <2>2 DEF Goto
  <2> QED BY <1>1, <2>2, <2>3, <2>4, LocalInv DEF Label
<1>2. ASSUME NEW s \in todo[p], todo' = [todo EXCEPT ![p] = @ \ {s}], Begin(p, s, FALSE), Goto(p, "member")
      PROVE  Inv'
  <2>1. todo \in [Replay -> SUBSET Sub] /\ p \in Replay
    BY DEF NextRecord, Inv, Aside
  <2>2. s \in Sub /\ todo' \in [Replay -> SUBSET Sub]
    BY <1>2, <2>1
  <2>3. UNCHANGED <<rows, submission, stage, bucket, lock, faults, runs>>
    BY DEF NextRecord
  <2> QED BY <1>2, <2>2, <2>3, BeginInv
<1> QED BY <1>1, <1>2 DEF NextRecord

LEMMA RecordInv == ASSUME Inv, NEW p \in Proc, Record(p) PROVE Inv'
<1>1. /\ pc[p] = "answered" /\ UNCHANGED <<rows, submission, stage, pre, lock, todo, runs>> /\ Aside
      /\ mem[p].sub \in Sub
  BY Remembered DEF Record, Holds
<1>2. CASE Begin(p, mem[p].sub, TRUE) /\ Goto(p, "member") /\ UNCHANGED <<post, faults>>
  BY <1>1, <1>2, BeginInv DEF bucket, Aside
<1>3. ASSUME mem' = [mem EXCEPT ![p] = NoMemory], Goto(p, "next"), UNCHANGED overlap,
             faults' = faults \/ Fault,
             \/ post' = post
             \/ post' = [post EXCEPT ![mem[p].sub] =
                           [code    |-> mem[p].code,
                            install |-> IF mem[p].install # Null THEN mem[p].install ELSE @.install]]
      PROVE  Inv'
  <2>1. PICK i : i = IF mem[p].install # Null THEN mem[p].install ELSE post[mem[p].sub].install
    OBVIOUS
  <2>2. PICK r : r = [code |-> mem[p].code, install |-> i]
    OBVIOUS
  <2>3. /\ r \in JoinRecord /\ r.install \in {Null} \cup DOMAIN installs
        /\ r.install # Null => Serves(r.install, mem[p].sub)
    BY <1>1, <2>1, <2>2, Recorded
  <2>4. post' = post \/ post' = [post EXCEPT ![mem[p].sub] = r]
    BY <1>3, <2>1, <2>2
  <2>5. Aside'
    BY <1>1, <1>3, <2>3, <2>4, AsideWith DEF Aside
  <2> QED BY <1>1, <1>3, <2>5, Blank, QuietInv DEF Goto, Label
<1> QED BY <1>2, <1>3 DEF Record

LEMMA NextInv == Inv /\ [Next]_vars => Inv'
<1> SUFFICES ASSUME Inv, [Next]_vars PROVE Inv'
  OBVIOUS
<1>1. ASSUME NEW p \in Proc, Process(p) PROVE Inv'
  BY <1>1, FindMemberInv, FindStructureInv, FindBuildingInv, FindInstallInv, SaveMemberInv, SaveBuildingInv,
     AddNodesInv, SaveInstallInv, CreateTicketInv, DeleteMemberInv, DeleteBuildingInv DEF Process
<1>2. CASE UNCHANGED vars
  <2>1. Tables' /\ UNCHANGED <<rows, submission, pc, mem>>
    BY <1>2, Unmoved DEF Inv, vars
  <2>2. Aside'
    BY <1>2, Unmoved, AsideKept DEF Inv, Aside, vars
  <2>3. Shape'
    BY <2>1 DEF Inv, Shape, rows, Typed, Holds, Serves
  <2> QED BY <2>1, <2>2, <2>3 DEF Inv
<1> QED BY <1>1, <1>2, BrowserInv, ReceiveInv, AcquireLockInv, RespondInv, ListRecordsInv, NextRecordInv,
           RecordInv, CrashInv DEF Next

LEMMA SpecInv == Spec => []Inv
BY InitInv, NextInv, PTL DEF Spec

(* Every variable keeps its type, and rows refer to rows, whatever workers *)
(* and commands do beside each other.                                      *)
THEOREM FormTypes == Spec => []TypeOK
BY SpecInv, InvTypes, PTL

(* The install that an answer names, and the one a stored record names,    *)
(* is the submission's: its person, its building, its unit.                *)
THEOREM AnswersTrue == Spec => []AnswerTrue
<1>1. Inv => AnswerTrue
  BY DEF Inv, Shape, Aside, Holds, AnswerTrue
<1> QED BY <1>1, SpecInv, PTL

-----------------------------------------------------------------------------
(***************************************************************************)
(* What the steps do, field by field and row by row.  m and n are what the *)
(* process remembers before and after its step.                            *)
(***************************************************************************)
Others(p) == \A q \in Proc \ {p} : pc'[q] = pc[q] /\ mem'[q] = mem[q]

Moves(p, s) == pc'[p] = s /\ Others(p)

(* The fields that say what has been found.                                *)
SameRows(m, n) == n.sub = m.sub /\ n.member = m.member /\ n.building = m.building
SameNodes(m, n) == n.primary = m.primary /\ n.nodes = m.nodes
Alike(m, n) == SameRows(m, n) /\ SameNodes(m, n) /\ n.created = m.created /\ n.install = m.install

LEMMA Noted ==
  ASSUME Inv, NEW p \in Proc, NEW s, NEW n, pc' = [pc EXCEPT ![p] = s], mem' = [mem EXCEPT ![p] = n]
  PROVE  Moves(p, s) /\ mem'[p] = n
BY DEF Inv, Shape, Moves, Others

LEMMA Stayed ==
  ASSUME Inv, NEW p \in Proc, NEW s, Goto(p, s), mem' = mem
  PROVE  Moves(p, s) /\ mem'[p] = mem[p]
BY DEF Inv, Shape, Moves, Others, Goto

Answers(p, m, n, code, i) ==
  Moves(p, "answered") /\ n.sub = m.sub /\ n.created = m.created /\ n.code = code /\ n.install = i

LEMMA AnswerDoes ==
  ASSUME Inv, NEW p \in Proc, NEW code, NEW i, Answer(p, code, i)
  PROVE  Answers(p, mem[p], mem'[p], code, i)
<1>1. PICK m : m = mem[p]
  OBVIOUS
<1>2. PICK n : n = Answered(m, code, i)
  OBVIOUS
<1>3. mem' = [mem EXCEPT ![p] = n] /\ pc' = [pc EXCEPT ![p] = "answered"]
  BY <1>1, <1>2, AnswerSets
<1>4. mem'[p] = n /\ Moves(p, "answered")
  BY <1>3, Noted
<1>5. Typed(m)
  BY <1>1, Remembered
<1>6. n.sub = m.sub /\ n.created = m.created /\ n.code = code /\ n.install = i
  BY <1>2, <1>5 DEF Answered, Typed, IsMemory, Field
<1> QED BY <1>1, <1>4, <1>6 DEF Answers

LEMMA FindMemberDoes ==
  ASSUME Inv, NEW p \in Proc, FindMember(p), NEW m, NEW n, m = mem[p], n = mem'[p]
  PROVE  /\ pc[p] = "member" /\ UNCHANGED <<rows, submission, lock, post, overlap>>
         /\ \/ /\ \E code \in {400, 409, 500} : Answers(p, m, n, code, Null)
               /\ n.code \in {400, 409} => submission[m.sub].flaw # "none"
            \/ /\ Moves(p, "structure") /\ n.sub = m.sub /\ n.building = m.building
               /\ SameNodes(m, n) /\ n.created = m.created /\ n.install = m.install
               /\ \/ n.member = m.member /\ Known(submission[m.sub].email) = {}
                  \/ n.member \in Known(submission[m.sub].email)
<1>1. pc[p] = "member" /\ UNCHANGED <<rows, submission, lock, post, overlap>>
  BY DEF FindMember, bucket
<1>2. Typed(m)
  BY Remembered
<1>3. ASSUME NEW code \in {400, 409, 500}, Answer(p, code, Null), code # 500 => submission[m.sub].flaw # "none"
      PROVE  /\ \E c \in {400, 409, 500} : Answers(p, m, n, c, Null)
             /\ n.code \in {400, 409} => submission[m.sub].flaw # "none"
  BY <1>3, AnswerDoes DEF Answers
<1>4. ASSUME UNCHANGED mem, Goto(p, "structure") PROVE Moves(p, "structure") /\ n = m
  BY <1>4, Stayed
<1>5. ASSUME NEW i \in Known(Said(p).email), mem' = [mem EXCEPT ![p].member = i], Goto(p, "structure")
      PROVE  /\ Moves(p, "structure") /\ n.sub = m.sub /\ n.building = m.building
             /\ SameNodes(m, n) /\ n.created = m.created /\ n.install = m.install
             /\ n.member \in Known(submission[m.sub].email)
  <2>1. mem' = [mem EXCEPT ![p] = [mem[p] EXCEPT !.member = i]]
    BY <1>5
  <2>2. PICK k : k = [m EXCEPT !.member = i]
    OBVIOUS
  <2>3. Moves(p, "structure") /\ n = k
    BY <1>5, <2>1, <2>2, Noted DEF Goto
  <2>4. k.sub = m.sub /\ k.building = m.building /\ SameNodes(m, k) /\ k.created = m.created
        /\ k.install = m.install /\ k.member = i
    BY <1>2, <2>2 DEF Typed, IsMemory, Field, SameNodes
  <2> QED BY <1>5, <2>3, <2>4 DEF Said
<1>6. ASSUME \/ Known(Said(p).email) = {} /\ UNCHANGED mem
             \/ \E i \in Known(Said(p).email) : mem' = [mem EXCEPT ![p].member = i],
             Goto(p, "structure")
      PROVE  /\ Moves(p, "structure") /\ n.sub = m.sub /\ n.building = m.building
             /\ SameNodes(m, n) /\ n.created = m.created /\ n.install = m.install
             /\ \/ n.member = m.member /\ Known(submission[m.sub].email) = {}
                \/ n.member \in Known(submission[m.sub].email)
  BY <1>4, <1>5, <1>6 DEF Said, SameNodes
<1>7. \/ \E code \in {400, 409, 500} : Answer(p, code, Null) /\ (code # 500 => submission[m.sub].flaw # "none")
      \/ /\ \/ Known(Said(p).email) = {} /\ UNCHANGED mem
            \/ \E i \in Known(Said(p).email) : mem' = [mem EXCEPT ![p].member = i]
         /\ Goto(p, "structure")
  BY DEF FindMember, Said
<1> QED BY <1>1, <1>3, <1>6, <1>7

LEMMA FindStructureDoes ==
  ASSUME Inv, NEW p \in Proc, FindStructure(p), NEW m, NEW n, m = mem[p], n = mem'[p],
         NEW S, S = Structure(submission[m.sub].address)
  PROVE  /\ pc[p] = "structure" /\ Moves(p, "building") /\ UNCHANGED <<rows, submission, lock, post, overlap>>
         /\ SameRows(m, n) /\ n.created = m.created /\ n.install = m.install
         /\ \/ S = {} /\ SameNodes(m, n)
            \/ /\ n.nodes = UNION {buildings[j].nodes : j \in S}
               /\ \E i \in S : n.primary = buildings[i].primary
<1>1. pc[p] = "structure" /\ UNCHANGED <<rows, submission, lock, post, overlap>> /\ Goto(p, "building")
  BY DEF FindStructure, bucket
<1>2. Typed(m)
  BY Remembered
<1>3. ASSUME S = {}, UNCHANGED mem PROVE Moves(p, "building") /\ n = m
  BY <1>1, <1>3, Stayed
<1>4. ASSUME NEW i \in S,
             mem' = [mem EXCEPT ![p].nodes = UNION {buildings[j].nodes : j \in S},
                                ![p].primary = buildings[i].primary]
      PROVE  /\ Moves(p, "building") /\ SameRows(m, n) /\ n.created = m.created /\ n.install = m.install
             /\ n.nodes = UNION {buildings[j].nodes : j \in S} /\ n.primary = buildings[i].primary
  <2>1. PICK a, N : a = buildings[i].primary /\ N = UNION {buildings[j].nodes : j \in S}
    OBVIOUS
  <2>2. mem' = [mem EXCEPT ![p] = [mem[p] EXCEPT !.nodes = N, !.primary = a]]
    BY <1>4, <2>1
  <2>3. PICK k : k = [m EXCEPT !.nodes = N, !.primary = a]
    OBVIOUS
  <2>4. Moves(p, "building") /\ n = k
    BY <1>1, <2>2, <2>3, Noted DEF Goto
  <2>5. SameRows(m, k) /\ k.created = m.created /\ k.install = m.install /\ k.nodes = N /\ k.primary = a
    BY <1>2, <2>3 DEF Typed, IsMemory, Field, SameRows
  <2> QED BY <2>1, <2>4, <2>5
<1>5. \/ S = {} /\ UNCHANGED mem
      \/ \E i \in S : mem' = [mem EXCEPT ![p].nodes = UNION {buildings[j].nodes : j \in S},
                                         ![p].primary = buildings[i].primary]
  BY DEF FindStructure, Said
<1> QED BY <1>1, <1>3, <1>4, <1>5 DEF SameRows, SameNodes

BuildingFound(p, m, n, S) ==
  /\ pc[p] = "building" /\ Moves(p, "install") /\ UNCHANGED <<rows, submission, lock, post, overlap>>
  /\ n.sub = m.sub /\ n.member = m.member /\ n.nodes = m.nodes /\ n.install = m.install
  /\ \/ S = {} /\ n.building = m.building /\ n.primary = m.primary /\ n.created = TRUE
     \/ /\ n.building \in S /\ n.created = m.created
        /\ n.primary \in {m.primary, buildings[n.building].primary}

LEMMA FindBuildingDoes ==
  ASSUME Inv, NEW p \in Proc, FindBuilding(p), NEW m, NEW n, m = mem[p], n = mem'[p],
         NEW S, S = Exact(submission[m.sub].address)
  PROVE  BuildingFound(p, m, n, S)
<1>1. pc[p] = "building" /\ UNCHANGED <<rows, submission, lock, post, overlap>> /\ Goto(p, "install")
  BY DEF FindBuilding, bucket
<1>2. Typed(m)
  BY Remembered
<1>3. ASSUME mem' = [mem EXCEPT ![p].created = TRUE]
      PROVE  /\ Moves(p, "install") /\ SameRows(m, n) /\ SameNodes(m, n) /\ n.install = m.install /\ n.created = TRUE
  <2>1. mem' = [mem EXCEPT ![p] = [mem[p] EXCEPT !.created = TRUE]]
    BY <1>3
  <2>2. PICK k : k = [m EXCEPT !.created = TRUE]
    OBVIOUS
  <2>3. Moves(p, "install") /\ n = k
    BY <1>1, <2>1, <2>2, Noted DEF Goto
  <2>4. SameRows(m, k) /\ SameNodes(m, k) /\ k.created = TRUE /\ k.install = m.install
    BY <1>2, <2>2 DEF Typed, IsMemory, Field, SameRows, SameNodes
  <2> QED BY <2>3, <2>4
<1>4. ASSUME NEW i \in S,
             mem' = [mem EXCEPT ![p].building = i,
                                ![p].primary = IF buildings[i].primary # Null
                                               THEN buildings[i].primary ELSE @]
      PROVE  /\ Moves(p, "install") /\ n.sub = m.sub /\ n.member = m.member /\ n.nodes = m.nodes
             /\ n.install = m.install /\ n.building = i /\ n.created = m.created
             /\ n.primary \in {m.primary, buildings[i].primary}
  <2>1. PICK a : a = IF buildings[i].primary # Null THEN buildings[i].primary ELSE m.primary
    OBVIOUS
  <2>2. mem' = [mem EXCEPT ![p] = [mem[p] EXCEPT !.building = i,
                                   !.primary = IF buildings[i].primary # Null
                                               THEN buildings[i].primary ELSE @]]
    BY <1>4
  <2>3. PICK k : k = [m EXCEPT !.building = i, !.primary = a]
    OBVIOUS
  <2>4. mem' = [mem EXCEPT ![p] = k]
    BY <2>1, <2>2, <2>3
  <2>5. Moves(p, "install") /\ n = k
    BY <1>1, <2>4, Noted DEF Goto
  <2>6. k.sub = m.sub /\ k.member = m.member /\ k.nodes = m.nodes /\ k.created = m.created
        /\ k.install = m.install /\ k.building = i /\ k.primary = a
    BY <1>2, <2>3 DEF Typed, IsMemory, Field
  <2> QED BY <2>1, <2>5, <2>6
<1>5. \/ S = {} /\ mem' = [mem EXCEPT ![p].created = TRUE]
      \/ \E i \in S : mem' = [mem EXCEPT ![p].building = i,
                                ![p].primary = IF buildings[i].primary # Null
                                               THEN buildings[i].primary ELSE @]
  BY DEF FindBuilding, Said
<1> QED BY <1>1, <1>3, <1>4, <1>5 DEF SameRows, SameNodes, BuildingFound

LEMMA FindInstallDoes ==
  ASSUME Inv, NEW p \in Proc, FindInstall(p), NEW m, NEW n, m = mem[p], n = mem'[p]
  PROVE  /\ pc[p] = "install" /\ UNCHANGED <<rows, submission, lock, post, overlap>>
         /\ \/ \E i : Answers(p, m, n, 200, i)
            \/ /\ Moves(p, "saveMember") /\ n = m
               /\ \A i \in DOMAIN installs :
                    ~(/\ installs[i].open /\ installs[i].unit = submission[m.sub].unit
                      /\ installs[i].member = m.member /\ installs[i].building = m.building)
<1>1. pc[p] = "install" /\ UNCHANGED <<rows, submission, lock, post, overlap>>
  BY DEF FindInstall, bucket
<1>2. ASSUME NEW i \in Open(p), Answer(p, 200, i) PROVE Answers(p, m, n, 200, i)
  BY <1>2, AnswerDoes
<1>3. ASSUME Open(p) = {}, Goto(p, "saveMember"), UNCHANGED mem
      PROVE  /\ Moves(p, "saveMember") /\ n = m
             /\ \A i \in DOMAIN installs :
                  ~(/\ installs[i].open /\ installs[i].unit = submission[m.sub].unit
                    /\ installs[i].member = m.member /\ installs[i].building = m.building)
  BY <1>3, Stayed DEF Open, Said
<1> QED BY <1>1, <1>2, <1>3 DEF FindInstall

MemberSaved(p, m, n) ==
  /\ pc[p] = "saveMember" /\ Moves(p, "saveBuilding")
  /\ UNCHANGED <<buildings, installs, submission, lock, post, overlap>>
  /\ n.sub = m.sub /\ n.building = m.building /\ SameNodes(m, n)
  /\ n.created = m.created /\ n.install = m.install
  /\ (m.member = 0 /\ n.member \notin DOMAIN members) \/ (m.member # 0 /\ n.member = m.member)
  /\ n.member # 0
  /\ DOMAIN members' = DOMAIN members \cup {n.member}
  /\ \A i \in DOMAIN members \ {n.member} : members'[i] = members[i]
  /\ members'[n.member].live /\ members'[n.member].email = submission[m.sub].email

LEMMA SaveMemberDoes ==
  ASSUME Inv, NEW p \in Proc, SaveMember(p), NEW m, NEW n, m = mem[p], n = mem'[p]
  PROVE  MemberSaved(p, m, n)
<1>1. /\ pc[p] = "saveMember" /\ Goto(p, "saveBuilding") /\ Tables /\ Typed(m) /\ Holds("saveMember", m)
      /\ UNCHANGED <<buildings, installs, submission, lock, post, overlap>> /\ m.sub \in Sub
  BY Remembered DEF SaveMember, bucket, Holds
<1>2. CASE m.member = 0
  <2>0. PICK row, l : row = [email |-> Said(p).email, live |-> TRUE] /\ l = Len(members) + 1
    OBVIOUS
  <2>1. members' = Append(members, row) /\ mem' = [mem EXCEPT ![p].member = l]
    BY <1>2, <2>0 DEF SaveMember
  <2>2. row \in MemberRow /\ row.email = submission[m.sub].email /\ row.live
    BY <1>1, <2>0 DEF Tables, MemberRow, Submission, Said
  <2>3. mem' = [mem EXCEPT ![p] = [mem[p] EXCEPT !.member = l]]
    BY <2>1
  <2>4. PICK k : k = [m EXCEPT !.member = l]
    OBVIOUS
  <2>5. Moves(p, "saveBuilding") /\ n = k
    BY <1>1, <2>3, <2>4, Noted DEF Goto
  <2>6. k.sub = m.sub /\ k.building = m.building /\ SameNodes(m, k) /\ k.created = m.created
        /\ k.install = m.install /\ k.member = l
    BY <1>1, <2>4 DEF Typed, IsMemory, Field, SameNodes
  <2>7. /\ DOMAIN members' = DOMAIN members \cup {l} /\ l \notin DOMAIN members /\ l \in Nat \ {0}
        /\ \A i \in DOMAIN members : members'[i] = members[i]
        /\ members'[l] = row
    BY <1>1, <2>0, <2>1, <2>2, Appended DEF Tables
  <2> QED BY <1>1, <1>2, <2>2, <2>5, <2>6, <2>7 DEF MemberSaved
<1>3. CASE m.member # 0
  <2>0. PICK row : row = [members[m.member] EXCEPT !.live = TRUE]
    OBVIOUS
  <2>1. members' = [members EXCEPT ![m.member] = row] /\ UNCHANGED mem
    BY <1>3, <2>0 DEF SaveMember
  <2>2. m.member \in DOMAIN members /\ members[m.member] \in MemberRow
        /\ members[m.member].email = submission[m.sub].email
    BY <1>1, <1>3, Domains DEF Tables, Typed, Holds
  <2>3. row \in MemberRow /\ row.email = members[m.member].email /\ row.live
    BY <2>0, <2>2 DEF MemberRow
  <2>4. /\ DOMAIN members' = DOMAIN members
        /\ \A i \in DOMAIN members : members'[i] = IF i = m.member THEN row ELSE members[i]
    BY <1>1, <2>1, <2>2, <2>3, MemberSet
  <2>5. Moves(p, "saveBuilding") /\ n = m
    BY <1>1, <2>1, Stayed
  <2> QED BY <1>1, <1>3, <2>2, <2>3, <2>4, <2>5 DEF SameNodes, MemberSaved
<1> QED BY <1>2, <1>3

LEMMA SaveBuildingDoes ==
  ASSUME Inv, NEW p \in Proc, SaveBuilding(p), NEW m, NEW n, m = mem[p], n = mem'[p]
  PROVE  /\ pc[p] = "saveBuilding" /\ Moves(p, "addNodes")
         /\ UNCHANGED <<members, installs, submission, lock, post, overlap>>
         /\ n.sub = m.sub /\ n.member = m.member /\ SameNodes(m, n)
         /\ n.created = m.created /\ n.install = m.install
         /\ \/ m.building = 0 /\ n.building \notin DOMAIN buildings /\ buildings'[n.building].nodes = {}
            \/ /\ m.building # 0 /\ n.building = m.building
               /\ buildings'[n.building].nodes = buildings[n.building].nodes
         /\ n.building # 0
         /\ DOMAIN buildings' = DOMAIN buildings \cup {n.building}
         /\ \A i \in DOMAIN buildings \ {n.building} : buildings'[i] = buildings[i]
         /\ buildings'[n.building].live /\ buildings'[n.building].address = submission[m.sub].address
         /\ buildings'[n.building].primary = m.primary
<1>1. /\ pc[p] = "saveBuilding" /\ Goto(p, "addNodes") /\ Tables /\ Typed(m) /\ Holds("saveBuilding", m)
      /\ UNCHANGED <<members, installs, submission, lock, post, overlap>> /\ m.sub \in Sub
  BY Remembered DEF SaveBuilding, bucket, Holds
<1>2. CASE m.building = 0
  <2>0. PICK row, l : /\ row = [address |-> Said(p).address, primary |-> mem[p].primary, nodes |-> {}, live |-> TRUE]
                      /\ l = Len(buildings) + 1
    OBVIOUS
  <2>1. buildings' = Append(buildings, row) /\ mem' = [mem EXCEPT ![p].building = l]
    BY <1>2, <2>0 DEF SaveBuilding
  <2>2. row \in BuildingRow /\ row.address = submission[m.sub].address /\ row.live
        /\ row.nodes = {} /\ row.primary = m.primary
    BY <1>1, <2>0 DEF Tables, BuildingRow, Submission, Said, Typed
  <2>3. mem' = [mem EXCEPT ![p] = [mem[p] EXCEPT !.building = l]]
    BY <2>1
  <2>4. PICK k : k = [m EXCEPT !.building = l]
    OBVIOUS
  <2>5. Moves(p, "addNodes") /\ n = k
    BY <1>1, <2>3, <2>4, Noted DEF Goto
  <2>6. k.sub = m.sub /\ k.member = m.member /\ SameNodes(m, k) /\ k.created = m.created
        /\ k.install = m.install /\ k.building = l
    BY <1>1, <2>4 DEF Typed, IsMemory, Field, SameNodes
  <2>7. /\ DOMAIN buildings' = DOMAIN buildings \cup {l} /\ l \notin DOMAIN buildings /\ l \in Nat \ {0}
        /\ \A i \in DOMAIN buildings : buildings'[i] = buildings[i]
        /\ buildings'[l] = row
    BY <1>1, <2>0, <2>1, <2>2, Appended DEF Tables
  <2> QED BY <1>1, <1>2, <2>2, <2>5, <2>6, <2>7
<1>3. CASE m.building # 0
  <2>0. PICK row : row = [buildings[m.building] EXCEPT !.primary = m.primary, !.live = TRUE]
    OBVIOUS
  <2>1. buildings' = [buildings EXCEPT ![m.building] = row] /\ UNCHANGED mem
    BY <1>3, <2>0 DEF SaveBuilding
  <2>2. m.building \in DOMAIN buildings /\ buildings[m.building] \in BuildingRow
        /\ buildings[m.building].address = submission[m.sub].address
    BY <1>1, <1>3, Domains DEF Tables, Typed, Holds
  <2>3. row \in BuildingRow /\ row.address = buildings[m.building].address /\ row.live
        /\ row.nodes = buildings[m.building].nodes /\ row.primary = m.primary
    BY <1>1, <2>0, <2>2 DEF BuildingRow, Typed
  <2>4. /\ DOMAIN buildings' = DOMAIN buildings
        /\ \A i \in DOMAIN buildings : buildings'[i] = IF i = m.building THEN row ELSE buildings[i]
    BY <1>1, <2>1, <2>2, <2>3, BuildingSet
  <2>5. Moves(p, "addNodes") /\ n = m
    BY <1>1, <2>1, Stayed
  <2> QED BY <1>1, <1>3, <2>2, <2>3, <2>4, <2>5 DEF SameNodes
<1> QED BY <1>2, <1>3

Wanted(m) == m.nodes \cup ({m.primary} \ {Null})

NodesAdded(p, m, n, b) ==
  /\ Moves(p, "saveInstall") /\ n = m
  /\ Wanted(m) = {} \/ buildings[b].live
  /\ DOMAIN buildings' = DOMAIN buildings
  /\ \A i \in DOMAIN buildings \ {b} : buildings'[i] = buildings[i]
  /\ buildings'[b].address = buildings[b].address /\ buildings'[b].live = buildings[b].live
  /\ buildings'[b].primary = buildings[b].primary
  /\ buildings'[b].nodes = buildings[b].nodes \cup Wanted(m)

LEMMA AddNodesDoes ==
  ASSUME Inv, NEW p \in Proc, AddNodes(p), NEW m, NEW n, m = mem[p], n = mem'[p], NEW b, b = m.building
  PROVE  /\ pc[p] = "addNodes" /\ UNCHANGED <<members, installs, submission, lock, post, overlap>>
         /\ \/ NodesAdded(p, m, n, b)
            \/ /\ Moves(p, "deleteMember") /\ SameRows(m, n) /\ n.created = FALSE
               /\ Wanted(m) # {} /\ ~buildings[b].live /\ buildings' = buildings
<1>1. /\ pc[p] = "addNodes" /\ Tables /\ Typed(m) /\ Holds("addNodes", m)
      /\ UNCHANGED <<members, installs, submission, lock, post, overlap>> /\ Missing(p) = Wanted(m)
  BY Remembered DEF AddNodes, bucket, Missing, Wanted
<1>2. b \in DOMAIN buildings /\ buildings[b] \in BuildingRow
  BY <1>1, Rows
<1>3. ASSUME Wanted(m) = {} \/ buildings[b].live, UNCHANGED mem, Goto(p, "saveInstall"),
             buildings' = [buildings EXCEPT ![b].nodes = @ \cup Wanted(m)]
      PROVE  NodesAdded(p, m, n, b)
  <2>0. PICK row : row = [buildings[b] EXCEPT !.nodes = @ \cup Wanted(m)]
    OBVIOUS
  <2>1. buildings' = [buildings EXCEPT ![b] = row]
    BY <1>3, <2>0
  <2>2. /\ row.address = buildings[b].address /\ row.live = buildings[b].live
        /\ row.primary = buildings[b].primary /\ row.nodes = buildings[b].nodes \cup Wanted(m)
        /\ row \in BuildingRow
    BY <1>1, <1>2, <2>0 DEF BuildingRow, Typed, Wanted
  <2>3. /\ DOMAIN buildings' = DOMAIN buildings
        /\ \A i \in DOMAIN buildings : buildings'[i] = IF i = b THEN row ELSE buildings[i]
    BY <1>1, <1>2, <2>1, <2>2, BuildingSet
  <2>4. Moves(p, "saveInstall") /\ n = m
    BY <1>3, Stayed
  <2> QED BY <1>2, <1>3, <2>2, <2>3, <2>4 DEF NodesAdded
<1>4. ASSUME Goto(p, "deleteMember"), mem' = [mem EXCEPT ![p].created = FALSE]
      PROVE  Moves(p, "deleteMember") /\ SameRows(m, n) /\ n.created = FALSE
  <2>1. mem' = [mem EXCEPT ![p] = [mem[p] EXCEPT !.created = FALSE]]
    BY <1>4
  <2>2. PICK k : k = [m EXCEPT !.created = FALSE]
    OBVIOUS
  <2>3. Moves(p, "deleteMember") /\ n = k
    BY <1>4, <2>1, <2>2, Noted DEF Goto
  <2>4. SameRows(m, k) /\ k.created = FALSE
    BY <1>1, <2>2 DEF Typed, IsMemory, Field, SameRows
  <2> QED BY <2>3, <2>4
<1>5. \/ /\ Wanted(m) = {} \/ buildings[b].live
         /\ UNCHANGED mem /\ Goto(p, "saveInstall")
         /\ buildings' = [buildings EXCEPT ![b].nodes = @ \cup Wanted(m)]
      \/ /\ Wanted(m) # {} /\ ~buildings[b].live /\ UNCHANGED buildings
         /\ Goto(p, "deleteMember") /\ mem' = [mem EXCEPT ![p].created = FALSE]
  BY <1>1 DEF AddNodes
<1> QED BY <1>1, <1>3, <1>4, <1>5

LEMMA SaveInstallDoes ==
  ASSUME Inv, NEW p \in Proc, SaveInstall(p), NEW m, NEW n, m = mem[p], n = mem'[p]
  PROVE  /\ pc[p] = "saveInstall" /\ UNCHANGED <<members, buildings, submission, lock, post, overlap>>
         /\ \/ /\ Moves(p, "ticket") /\ SameRows(m, n) /\ SameNodes(m, n) /\ n.created = m.created
               /\ submission[m.sub].flaw # "null" /\ members[m.member].live /\ buildings[m.building].live
               /\ n.install \notin DOMAIN installs /\ DOMAIN installs' = DOMAIN installs \cup {n.install}
               /\ \A i \in DOMAIN installs : installs'[i] = installs[i]
               /\ installs'[n.install].member = m.member /\ installs'[n.install].building = m.building
               /\ installs'[n.install].unit = submission[m.sub].unit
            \/ /\ Moves(p, "deleteMember") /\ n = m /\ installs' = installs
               /\ \/ submission[m.sub].flaw = "null"
                  \/ ~members[m.member].live \/ ~buildings[m.building].live
<1>1. /\ pc[p] = "saveInstall" /\ Tables /\ Typed(m) /\ Holds("saveInstall", m) /\ m.sub \in Sub
      /\ UNCHANGED <<members, buildings, submission, lock, post, overlap>>
      /\ Refused(p) <=> \/ submission[m.sub].flaw = "null"
                        \/ ~members[m.member].live \/ ~buildings[m.building].live
  BY Remembered DEF SaveInstall, bucket, Holds, Refused, Said
<1>2. ASSUME NEW row, row = [member |-> mem[p].member, building |-> mem[p].building,
                             unit |-> Said(p).unit, open |-> TRUE, node |-> mem[p].primary],
             installs' = Append(installs, row),
             mem' = [mem EXCEPT ![p].install = Len(installs) + 1], Goto(p, "ticket")
      PROVE  /\ Moves(p, "ticket") /\ SameRows(m, n) /\ SameNodes(m, n) /\ n.created = m.created
             /\ n.install \notin DOMAIN installs /\ DOMAIN installs' = DOMAIN installs \cup {n.install}
             /\ \A i \in DOMAIN installs : installs'[i] = installs[i]
             /\ installs'[n.install].member = m.member /\ installs'[n.install].building = m.building
             /\ installs'[n.install].unit = submission[m.sub].unit
  <2>0. PICK l : l = Len(installs) + 1
    OBVIOUS
  <2>1. mem' = [mem EXCEPT ![p] = [mem[p] EXCEPT !.install = l]]
    BY <1>2, <2>0
  <2>2. PICK k : k = [m EXCEPT !.install = l]
    OBVIOUS
  <2>3. Moves(p, "ticket") /\ n = k
    BY <1>2, <2>1, <2>2, Noted DEF Goto
  <2>4. SameRows(m, k) /\ SameNodes(m, k) /\ k.created = m.created /\ k.install = l
    BY <1>1, <2>2 DEF Typed, IsMemory, Field, SameRows, SameNodes
  <2>5. row \in InstallRow
    <3>1. m.member \in Nat /\ m.building \in Nat
      BY <1>1, Rows, Domains DEF Tables
    <3>2. Said(p).unit \in Unit
      BY <1>1 DEF Said, Tables, Submission
    <3> QED BY <1>1, <1>2, <3>1, <3>2 DEF InstallRow, Typed
  <2>6. row.member = m.member /\ row.building = m.building /\ row.unit = submission[m.sub].unit
    BY <1>2 DEF Said
  <2>7. /\ DOMAIN installs' = DOMAIN installs \cup {l} /\ l \notin DOMAIN installs
        /\ \A i \in DOMAIN installs : installs'[i] = installs[i]
        /\ installs'[l] = row
    BY <1>1, <1>2, <2>0, <2>5, Appended DEF Tables
  <2> QED BY <2>3, <2>4, <2>6, <2>7
<1>3. ASSUME Goto(p, "deleteMember"), UNCHANGED <<installs, mem>>
      PROVE  Moves(p, "deleteMember") /\ n = m /\ installs' = installs
  BY <1>3, Stayed
<1>4. \/ ~Refused(p) /\ \E row : /\ row = [member |-> mem[p].member, building |-> mem[p].building,
                                           unit |-> Said(p).unit, open |-> TRUE, node |-> mem[p].primary]
                                 /\ installs' = Append(installs, row)
                                 /\ mem' = [mem EXCEPT ![p].install = Len(installs) + 1] /\ Goto(p, "ticket")
      \/ Refused(p) /\ Goto(p, "deleteMember") /\ UNCHANGED <<installs, mem>>
  BY DEF SaveInstall
<1> QED BY <1>1, <1>2, <1>3, <1>4

(* An exception that ends a request or a run.                              *)
Escapes(p, m, n) == Answers(p, m, n, 500, Null) \/ Moves(p, "idle")

LEMMA EscapeDoes ==
  ASSUME Inv, NEW p \in Proc, Escape(p) PROVE Escapes(p, mem[p], mem'[p])
<1>1. ASSUME Answer(p, 500, Null) PROVE Answers(p, mem[p], mem'[p], 500, Null)
  BY <1>1, AnswerDoes
<1>2. ASSUME mem' = [mem EXCEPT ![p] = NoMemory], Goto(p, "idle") PROVE Moves(p, "idle")
  BY <1>2, Noted DEF Goto
<1> QED BY <1>1, <1>2 DEF Escape, Escapes

LEMMA CreateTicketDoes ==
  ASSUME Inv, NEW p \in Proc, CreateTicket(p), NEW m, NEW n, m = mem[p], n = mem'[p]
  PROVE  /\ pc[p] = "ticket" /\ UNCHANGED <<members, buildings, submission, lock, post, overlap>>
         /\ \/ /\ Answers(p, m, n, 201, m.install) /\ DOMAIN installs' = DOMAIN installs
               /\ m.install \in DOMAIN installs
               /\ \A i \in DOMAIN installs \ {m.install} : installs'[i] = installs[i]
               /\ installs'[m.install].member = installs[m.install].member
               /\ installs'[m.install].building = installs[m.install].building
               /\ installs'[m.install].unit = installs[m.install].unit
            \/ Escapes(p, m, n) /\ installs' = installs
<1>1. /\ pc[p] = "ticket" /\ Tables /\ Typed(m) /\ Holds("ticket", m)
      /\ UNCHANGED <<members, buildings, submission, lock, post, overlap>>
  BY Remembered DEF CreateTicket, bucket
<1>2. m.install \in DOMAIN installs /\ installs[m.install] \in InstallRow
  BY <1>1, Domains DEF Typed, Holds, Tables
<1>3. ASSUME installs' = installs \/ installs' = [installs EXCEPT ![m.install].open = TRUE]
      PROVE  /\ DOMAIN installs' = DOMAIN installs
             /\ \A i \in DOMAIN installs \ {m.install} : installs'[i] = installs[i]
             /\ installs'[m.install].member = installs[m.install].member
             /\ installs'[m.install].building = installs[m.install].building
             /\ installs'[m.install].unit = installs[m.install].unit
  <2>1. CASE installs' = installs
    BY <2>1
  <2>2. CASE installs' = [installs EXCEPT ![m.install].open = TRUE]
    <3>0. PICK row : row = [installs[m.install] EXCEPT !.open = TRUE]
      OBVIOUS
    <3>1. installs' = [installs EXCEPT ![m.install] = row]
      BY <2>2, <3>0
    <3>2. row \in InstallRow /\ row.member = installs[m.install].member
          /\ row.building = installs[m.install].building /\ row.unit = installs[m.install].unit
      BY <1>2, <3>0 DEF InstallRow
    <3>3. /\ DOMAIN installs' = DOMAIN installs
          /\ \A i \in DOMAIN installs : installs'[i] = IF i = m.install THEN row ELSE installs[i]
      BY <1>1, <3>1, <3>2, Replaced DEF Tables
    <3> QED BY <1>2, <3>2, <3>3
  <2> QED BY <1>3, <2>1, <2>2
<1>4. Answer(p, 201, m.install) => Answers(p, m, n, 201, m.install)
  BY AnswerDoes
<1>5. Escape(p) => Escapes(p, m, n)
  BY EscapeDoes
<1>6. \/ /\ installs' = installs \/ installs' = [installs EXCEPT ![m.install].open = TRUE]
         /\ Answer(p, 201, m.install)
      \/ Escape(p) /\ installs' = installs
  BY DEF CreateTicket
<1> QED BY <1>1, <1>2, <1>3, <1>4, <1>5, <1>6

LEMMA DeleteMemberDoes ==
  ASSUME Inv, NEW p \in Proc, DeleteMember(p), NEW m, NEW n, m = mem[p], n = mem'[p]
  PROVE  /\ pc[p] = "deleteMember" /\ UNCHANGED <<buildings, installs, submission, lock, post, overlap>>
         /\ \/ Escapes(p, m, n) /\ members' = members
            \/ /\ \A j \in DOMAIN installs : installs[j].member # m.member
               /\ DOMAIN members' = DOMAIN members
               /\ \A i \in DOMAIN members \ {m.member} : members'[i] = members[i]
               /\ ~members'[m.member].live
               /\ \/ Moves(p, "deleteBuilding") /\ n = m /\ m.created
                  \/ Answers(p, m, n, 400, Null)
<1>1. /\ pc[p] = "deleteMember" /\ Tables /\ Typed(m) /\ Holds("deleteMember", m)
      /\ UNCHANGED <<buildings, installs, submission, lock, post, overlap>>
  BY Remembered DEF DeleteMember, bucket
<1>2. m.member \in DOMAIN members /\ members[m.member] \in MemberRow
  BY <1>1, Rows
<1>3. ASSUME members' = [members EXCEPT ![m.member].live = FALSE]
      PROVE  /\ DOMAIN members' = DOMAIN members
             /\ \A i \in DOMAIN members \ {m.member} : members'[i] = members[i]
             /\ ~members'[m.member].live
  <2>0. PICK row : row = [members[m.member] EXCEPT !.live = FALSE]
    OBVIOUS
  <2>1. members' = [members EXCEPT ![m.member] = row]
    BY <1>3, <2>0
  <2>2. row \in MemberRow /\ row.email = members[m.member].email /\ ~row.live
    BY <1>2, <2>0 DEF MemberRow
  <2>3. /\ DOMAIN members' = DOMAIN members
        /\ \A i \in DOMAIN members : members'[i] = IF i = m.member THEN row ELSE members[i]
    BY <1>1, <1>2, <2>1, <2>2, MemberSet
  <2> QED BY <1>2, <2>2, <2>3
<1>4. Answer(p, 400, Null) => Answers(p, m, n, 400, Null)
  BY AnswerDoes
<1>5. Escape(p) => Escapes(p, m, n)
  BY EscapeDoes
<1>6. Goto(p, "deleteBuilding") /\ UNCHANGED mem => Moves(p, "deleteBuilding") /\ n = m
  BY Stayed
<1>7. \/ Escape(p) /\ members' = members
      \/ /\ \A j \in DOMAIN installs : installs[j].member # m.member
         /\ members' = [members EXCEPT ![m.member].live = FALSE]
         /\ \/ Goto(p, "deleteBuilding") /\ UNCHANGED mem /\ m.created
            \/ Answer(p, 400, Null)
  BY DEF DeleteMember, Protected
<1> QED BY <1>1, <1>3, <1>4, <1>5, <1>6, <1>7

LEMMA DeleteBuildingDoes ==
  ASSUME Inv, NEW p \in Proc, DeleteBuilding(p), NEW m, NEW n, m = mem[p], n = mem'[p]
  PROVE  /\ pc[p] = "deleteBuilding" /\ UNCHANGED <<members, installs, submission, lock, post, overlap>>
         /\ \/ Escapes(p, m, n) /\ buildings' = buildings
            \/ /\ \A j \in DOMAIN installs : installs[j].building # m.building
               /\ DOMAIN buildings' = DOMAIN buildings
               /\ \A i \in DOMAIN buildings \ {m.building} : buildings'[i] = buildings[i]
               /\ buildings'[m.building].address = buildings[m.building].address
               /\ buildings'[m.building].primary = buildings[m.building].primary
               /\ ~buildings'[m.building].live /\ buildings'[m.building].nodes = {}
               /\ Answers(p, m, n, 400, Null)
<1>1. /\ pc[p] = "deleteBuilding" /\ Tables /\ Typed(m) /\ Holds("deleteBuilding", m)
      /\ UNCHANGED <<members, installs, submission, lock, post, overlap>>
  BY Remembered DEF DeleteBuilding, bucket
<1>2. m.building \in DOMAIN buildings /\ buildings[m.building] \in BuildingRow
  BY <1>1, Rows
<1>3. ASSUME buildings' = [buildings EXCEPT ![m.building].live = FALSE, ![m.building].nodes = {}]
      PROVE  /\ DOMAIN buildings' = DOMAIN buildings
             /\ \A i \in DOMAIN buildings \ {m.building} : buildings'[i] = buildings[i]
             /\ buildings'[m.building].address = buildings[m.building].address
             /\ buildings'[m.building].primary = buildings[m.building].primary
             /\ ~buildings'[m.building].live /\ buildings'[m.building].nodes = {}
  <2>0. PICK row : row = [buildings[m.building] EXCEPT !.live = FALSE, !.nodes = {}]
    OBVIOUS
  <2>1. buildings' = [buildings EXCEPT ![m.building] = row]
    BY <1>3, <2>0
  <2>2. /\ row \in BuildingRow /\ row.address = buildings[m.building].address /\ ~row.live /\ row.nodes = {}
        /\ row.primary = buildings[m.building].primary
    BY <1>2, <2>0 DEF BuildingRow
  <2>3. /\ DOMAIN buildings' = DOMAIN buildings
        /\ \A i \in DOMAIN buildings : buildings'[i] = IF i = m.building THEN row ELSE buildings[i]
    BY <1>1, <1>2, <2>1, <2>2, BuildingSet
  <2> QED BY <1>2, <2>2, <2>3
<1>4. Answer(p, 400, Null) => Answers(p, m, n, 400, Null)
  BY AnswerDoes
<1>5. Escape(p) => Escapes(p, m, n)
  BY EscapeDoes
<1>6. \/ Escape(p) /\ buildings' = buildings
      \/ /\ \A j \in DOMAIN installs : installs[j].building # m.building
         /\ buildings' = [buildings EXCEPT ![m.building].live = FALSE, ![m.building].nodes = {}]
         /\ Answer(p, 400, Null)
  BY DEF DeleteBuilding, Protected
<1> QED BY <1>1, <1>3, <1>4, <1>5, <1>6

(* The other steps: a process takes up a submission, or puts one aside, or *)
(* nobody moves.                                                           *)
Fresh(n) == n.member = 0 /\ n.building = 0 /\ n.primary = Null /\ n.nodes = {} /\ n.created = FALSE

Begins(p) ==
  /\ UNCHANGED <<rows, submission, post>> /\ ~Processing(p) /\ Moves(p, "member") /\ Fresh(mem'[p])
  /\ overlap' = (overlap \/ \E q \in Proc \ {p} : Processing(q) /\ ~({p, q} \subseteq Form))
  /\ (p \in Form /\ lock = NoProc /\ lock' = p) \/ (p \in Replay /\ lock' = lock)

Rests(p) ==
  /\ UNCHANGED <<rows, submission, overlap>> /\ Others(p)
  /\ pc'[p] \in {"idle", "lock"} \/ (p \in Replay /\ pc'[p] = "next")
  /\ lock' = lock \/ (lock = p /\ lock' = NoProc)
  /\ \A s \in Sub : \/ post'[s] = post[s]
                    \/ pc[p] = "answered" /\ s = mem[p].sub /\ post'[s].code = mem[p].code

Waits ==
  /\ UNCHANGED <<members, buildings, submission, post, lock, pc, mem, overlap>>
  /\ DOMAIN installs' = DOMAIN installs
  /\ \A i \in DOMAIN installs :
       /\ installs'[i].member = installs[i].member /\ installs'[i].building = installs[i].building
       /\ installs'[i].unit = installs[i].unit /\ (installs'[i].open => installs[i].open)

LEMMA BeginDoes ==
  ASSUME Inv, NEW p \in Proc, NEW s, NEW c, Begin(p, s, c), Goto(p, "member")
  PROVE  Moves(p, "member") /\ Fresh(mem'[p])
<1>1. PICK k : k = [NoMemory EXCEPT !.sub = s, !.confirmed = c]
  OBVIOUS
<1>2. Moves(p, "member") /\ mem'[p] = k
  BY <1>1, Noted DEF Begin, Goto
<1>3. Fresh(k)
  BY <1>1 DEF Fresh, NoMemory
<1> QED BY <1>2, <1>3

LEMMA ReleaseDoes ==
  ASSUME Inv, NEW p \in Proc, Release(p)
  PROVE  Moves(p, "idle") /\ (lock' = lock \/ (lock = p /\ lock' = NoProc))
BY Noted DEF Release, Goto

LEMMA Steps == Inv /\ [Next]_vars => Waits \/ \E p \in Proc : Begins(p) \/ Rests(p) \/ Process(p)
<1> SUFFICES ASSUME Inv, [Next]_vars PROVE Waits \/ \E p \in Proc : Begins(p) \/ Rests(p) \/ Process(p)
  OBVIOUS
<1>0. Aside /\ Tables
  BY DEF Inv
<1>1. CASE UNCHANGED vars
  BY <1>1 DEF vars, rows, bucket, Waits
<1>2. ASSUME NEW s \in Sub, Submit(s) PROVE Waits
  BY <1>2 DEF Submit, rows, Waits
<1>3. ASSUME NEW i \in DOMAIN installs, Progress(i) PROVE Waits
  <2>0. PICK row : row = [installs[i] EXCEPT !.open = FALSE]
    OBVIOUS
  <2>1. installs' = [installs EXCEPT ![i] = row]
        /\ UNCHANGED <<members, buildings, submission, bucket, lock, pc, mem, overlap>>
    BY <1>3, <2>0 DEF Progress
  <2>2. installs[i] \in InstallRow
    BY <1>0, Domains DEF Tables
  <2>3. row \in InstallRow /\ row.member = installs[i].member /\ row.building = installs[i].building
        /\ row.unit = installs[i].unit /\ ~row.open
    BY <2>0, <2>2 DEF InstallRow
  <2>4. DOMAIN installs' = DOMAIN installs
        /\ \A j \in DOMAIN installs : installs'[j] = IF j = i THEN row ELSE installs[j]
    BY <1>0, <2>1, <2>3, Replaced DEF Tables
  <2> QED BY <2>1, <2>3, <2>4 DEF Waits, bucket
<1>4. ASSUME NEW p \in Proc, NEW s \in Sub, Receive(p, s) PROVE Rests(p)
  <2>1. UNCHANGED <<rows, submission, overlap, lock, post>>
    BY <1>4 DEF Receive, bucket
  <2>2. PICK n : mem' = [mem EXCEPT ![p] = n] /\ pc' = [pc EXCEPT ![p] = "lock"]
    BY <1>4 DEF Receive, Goto
  <2>3. Moves(p, "lock")
    BY <2>2, Noted
  <2> QED BY <2>1, <2>3 DEF Moves, Rests
<1>5. ASSUME NEW p \in Proc, AcquireLock(p) PROVE Begins(p)
  <2>1. Moves(p, "member") /\ Fresh(mem'[p])
    BY <1>5, BeginDoes DEF AcquireLock
  <2>2. p \in Form /\ pc[p] = "lock"
    BY <1>5 DEF AcquireLock, Inv, Shape
  <2> QED BY <1>5, <2>1, <2>2 DEF AcquireLock, Begin, LockFree, Begins, Processing, bucket
<1>6. ASSUME NEW p \in Proc, Respond(p) PROVE Rests(p)
  <2>1. PICK r : r = [code |-> mem[p].code, install |-> mem[p].install]
    OBVIOUS
  <2>2. /\ Release(p) /\ UNCHANGED <<rows, submission, overlap>> /\ pc[p] = "answered"
        /\ post' = post \/ post' = [post EXCEPT ![mem[p].sub] = r]
    BY <1>6, <2>1 DEF Respond
  <2>3. \A s \in Sub : post'[s] = post[s] \/ (s = mem[p].sub /\ post'[s].code = mem[p].code)
    BY <1>0, <2>1, <2>2 DEF Aside
  <2> QED BY <2>2, <2>3, ReleaseDoes DEF Moves, Rests
<1>7. ASSUME NEW p \in Proc, Crash(p) PROVE Rests(p)
  BY <1>7, ReleaseDoes DEF Crash, bucket, Moves, Rests
<1>8. ASSUME NEW p \in Proc, ListRecords(p) PROVE Rests(p)
  <2>1. Moves(p, "next")
    BY <1>8, Stayed DEF ListRecords
  <2> QED BY <1>8, <2>1 DEF ListRecords, bucket, Moves, Rests
<1>9. ASSUME NEW p \in Proc, NextRecord(p) PROVE Begins(p) \/ Rests(p)
  <2>1. /\ p \in Replay /\ pc[p] = "next" /\ UNCHANGED <<rows, submission, post, lock>>
    BY <1>9 DEF NextRecord, bucket
  <2>2. CASE Goto(p, "idle") /\ UNCHANGED <<mem, todo, overlap>>
    <3>1. Moves(p, "idle")
      BY <2>2, Stayed
    <3> QED BY <2>1, <2>2, <3>1 DEF Moves, Rests
  <2>3. ASSUME NEW s, Begin(p, s, FALSE), Goto(p, "member") PROVE Begins(p)
    <3>1. Moves(p, "member") /\ Fresh(mem'[p])
      BY <2>3, BeginDoes
    <3> QED BY <2>1, <2>3, <3>1 DEF Begin, Begins, Processing
  <2> QED BY <1>9, <2>2, <2>3 DEF NextRecord
<1>10. ASSUME NEW p \in Proc, Record(p) PROVE Begins(p) \/ Rests(p)
  <2>1. /\ p \in Replay /\ pc[p] = "answered" /\ UNCHANGED <<rows, submission, lock>>
    BY <1>10 DEF Record
  <2>2. CASE Begin(p, mem[p].sub, TRUE) /\ Goto(p, "member") /\ UNCHANGED <<post, faults>>
    <3>1. Moves(p, "member") /\ Fresh(mem'[p])
      BY <2>2, BeginDoes
    <3> QED BY <2>1, <2>2, <3>1 DEF Begin, Begins, Processing
  <2>3. ASSUME mem' = [mem EXCEPT ![p] = NoMemory], Goto(p, "next"), UNCHANGED overlap,
               NEW r, r.code = mem[p].code, post' = post \/ post' = [post EXCEPT ![mem[p].sub] = r]
        PROVE  Rests(p)
    <3>1. Moves(p, "next")
      BY <2>3, Noted DEF Goto
    <3>2. \A s \in Sub : post'[s] = post[s] \/ (s = mem[p].sub /\ post'[s].code = mem[p].code)
      BY <1>0, <2>3 DEF Aside
    <3> QED BY <2>1, <2>3, <3>1, <3>2 DEF Moves, Rests
  <2>4. PICK i : i = IF mem[p].install # Null THEN mem[p].install ELSE post[mem[p].sub].install
    OBVIOUS
  <2>5. PICK r : r = [code |-> mem[p].code, install |-> i]
    OBVIOUS
  <2>6. \/ Begin(p, mem[p].sub, TRUE) /\ Goto(p, "member") /\ UNCHANGED <<post, faults>>
        \/ /\ mem' = [mem EXCEPT ![p] = NoMemory] /\ Goto(p, "next") /\ UNCHANGED overlap
           /\ \/ post' = post
              \/ post' = [post EXCEPT ![mem[p].sub] = [code |-> mem[p].code,
                             install |-> IF mem[p].install # Null THEN mem[p].install ELSE @.install]]
    BY <1>10 DEF Record
  <2>7. r.code = mem[p].code
    BY <2>5
  <2> QED BY <2>2, <2>3, <2>4, <2>5, <2>6, <2>7
<1> QED BY <1>1, <1>2, <1>3, <1>4, <1>5, <1>6, <1>7, <1>8, <1>9, <1>10 DEF Next

-----------------------------------------------------------------------------
(***************************************************************************)
(* The clean-up takes nothing from an install.                             *)
(***************************************************************************)
LEMMA StillLive ==
  ASSUME Inv, InstallsKeepTheirRows,
         \A i \in DOMAIN installs' :
           \/ /\ i \in DOMAIN installs /\ installs'[i].member = installs[i].member
              /\ installs'[i].building = installs[i].building
           \/ members'[installs'[i].member].live /\ buildings'[installs'[i].building].live,
         \A j \in DOMAIN members : \/ members[j].live => members'[j].live
                                   \/ \A i \in DOMAIN installs : installs[i].member # j,
         \A j \in DOMAIN buildings : \/ buildings[j].live => buildings'[j].live
                                     \/ \A i \in DOMAIN installs : installs[i].building # j
  PROVE  InstallsKeepTheirRows'
<1> SUFFICES ASSUME NEW i \in DOMAIN installs'
             PROVE  members'[installs'[i].member].live /\ buildings'[installs'[i].building].live
  BY DEF InstallsKeepTheirRows
<1>1. CASE members'[installs'[i].member].live /\ buildings'[installs'[i].building].live
  BY <1>1
<1>2. CASE i \in DOMAIN installs /\ installs'[i].member = installs[i].member /\ installs'[i].building = installs[i].building
  <2>1. installs[i].member \in DOMAIN members /\ installs[i].building \in DOMAIN buildings
    BY <1>2 DEF Inv, Tables
  <2>2. members[installs[i].member].live /\ buildings[installs[i].building].live
    BY <1>2 DEF InstallsKeepTheirRows
  <2> QED BY <1>2, <2>1, <2>2
<1> QED BY <1>1, <1>2

LEMMA ProcessKeepsRows ==
  ASSUME Inv, InstallsKeepTheirRows, NEW p \in Proc, Process(p) PROVE InstallsKeepTheirRows'
<1>0. PICK m, n : m = mem[p] /\ n = mem'[p]
  OBVIOUS
<1>1. CASE UNCHANGED rows
  BY <1>1 DEF rows, InstallsKeepTheirRows
<1>2. CASE SaveMember(p)
  BY <1>0, <1>2, SaveMemberDoes, StillLive DEF MemberSaved
<1>3. CASE SaveBuilding(p)
  <2>1. UNCHANGED <<members, installs>>
    BY <1>3 DEF SaveBuilding
  <2>2. \A j \in DOMAIN buildings : buildings[j].live => buildings'[j].live
    BY <1>0, <1>3, SaveBuildingDoes
  <2> QED BY <2>1, <2>2, StillLive
<1>4. CASE AddNodes(p)
  <2>1. UNCHANGED <<members, installs>>
    BY <1>4 DEF AddNodes
  <2>2. \A j \in DOMAIN buildings : buildings[j].live => buildings'[j].live
    <3>1. PICK b : b = m.building
      OBVIOUS
    <3>2. NodesAdded(p, m, n, b) \/ buildings' = buildings
      BY <1>0, <1>4, <3>1, AddNodesDoes
    <3> QED BY <3>2 DEF NodesAdded
  <2> QED BY <2>1, <2>2, StillLive
<1>5. CASE SaveInstall(p)
  <2>1. UNCHANGED <<members, buildings>>
    BY <1>5 DEF SaveInstall
  <2>2. \A i \in DOMAIN installs' :
          \/ /\ i \in DOMAIN installs /\ installs'[i].member = installs[i].member
             /\ installs'[i].building = installs[i].building
          \/ members'[installs'[i].member].live /\ buildings'[installs'[i].building].live
    <3>1. CASE installs' = installs
      BY <3>1
    <3>2. ASSUME installs' # installs, NEW i \in DOMAIN installs', i \notin DOMAIN installs
          PROVE  members'[installs'[i].member].live /\ buildings'[installs'[i].building].live
      <4>0. \/ /\ DOMAIN installs' = DOMAIN installs \cup {n.install}
               /\ installs'[n.install].member = m.member /\ installs'[n.install].building = m.building
               /\ members[m.member].live /\ buildings[m.building].live
            \/ installs' = installs
        BY <1>0, <1>5, SaveInstallDoes
      <4>1. i = n.install /\ installs'[n.install].member = m.member /\ installs'[n.install].building = m.building
            /\ members[m.member].live /\ buildings[m.building].live
        BY <3>2, <4>0
      <4> QED BY <2>1, <4>1
    <3>3. installs' # installs => \A i \in DOMAIN installs : installs'[i] = installs[i]
      BY <1>0, <1>5, SaveInstallDoes
    <3> QED BY <3>1, <3>2, <3>3
  <2> QED BY <2>1, <2>2, StillLive
<1>6. CASE CreateTicket(p)
  BY <1>0, <1>6, CreateTicketDoes, StillLive
<1>7. CASE DeleteMember(p)
  BY <1>0, <1>7, DeleteMemberDoes, StillLive
<1>8. CASE DeleteBuilding(p)
  BY <1>0, <1>8, DeleteBuildingDoes, StillLive
<1> QED BY <1>1, <1>2, <1>3, <1>4, <1>5, <1>6, <1>7, <1>8
           DEF Process, FindMember, FindStructure, FindBuilding, FindInstall

LEMMA StepKeepsRows ==
  Inv /\ InstallsKeepTheirRows /\ [Next]_vars => InstallsKeepTheirRows'
<1> SUFFICES ASSUME Inv, InstallsKeepTheirRows, [Next]_vars PROVE InstallsKeepTheirRows'
  OBVIOUS
<1>1. CASE Waits
  BY <1>1, StillLive DEF Waits
<1>2. ASSUME NEW p \in Proc, Begins(p) \/ Rests(p) PROVE InstallsKeepTheirRows'
  BY <1>2 DEF Begins, Rests, rows, InstallsKeepTheirRows
<1> QED BY <1>1, <1>2, ProcessKeepsRows, Steps

LEMMA InitKeepsRows == Init => InstallsKeepTheirRows
BY StartAssumption DEF Init, InstallsKeepTheirRows

(* No clean-up after an error takes away the member or the building of an  *)
(* install, whatever runs beside it: on_delete=PROTECT, and the references *)
(* of the row that is stored (forms.py l.362-380).                         *)
THEOREM CleanupSpares == Spec => []InstallsKeepTheirRows
BY SpecInv, InitKeepsRows, StepKeepsRows, PTL DEF Spec

-----------------------------------------------------------------------------
(***************************************************************************)
(* Nothing is made twice.  The lock keeps form requests apart, and as long *)
(* as no replay runs beside anything, whoever processes a submission is    *)
(* alone: what it has looked up is still so when it saves.                 *)
(***************************************************************************)
LockHeld == \A p \in Form : pc[p] \notin {"idle", "lock"} => lock = p

Alone == \A p, q \in Proc : Processing(p) /\ Processing(q) => p = q

(* What a process that is alone knows.                                     *)
KnowsMember(s, m) ==
  /\ s \in {"structure", "building", "install", "saveMember"} /\ m.member = 0
       => Known(submission[m.sub].email) = {}
  /\ s = "member" => m.member = 0
  /\ s \in {"structure", "building", "install", "saveMember", "saveBuilding", "addNodes", "saveInstall"}
     /\ m.member # 0
       => members[m.member].live

KnowsBuilding(s, m) ==
  /\ s \in {"member", "structure", "building"} => m.building = 0
  /\ s \in {"install", "saveMember", "saveBuilding"} /\ m.building = 0
       => Exact(submission[m.sub].address) = {}
  /\ s \in {"install", "saveMember", "saveBuilding", "addNodes", "saveInstall"} /\ m.building # 0
       => buildings[m.building].live

Triple(i, m) ==
  /\ installs[i].member = m.member /\ installs[i].building = m.building
  /\ installs[i].unit = submission[m.sub].unit

KnowsInstall(s, m) ==
  /\ s \in {"saveMember", "saveBuilding", "addNodes", "saveInstall"}
       => \A i \in DOMAIN installs : Triple(i, m) => ~installs[i].open
  /\ s = "ticket" => /\ Triple(m.install, m)
                     /\ \A i \in DOMAIN installs \ {m.install} : Triple(i, m) => ~installs[i].open

KnowsError(s, m) ==
  /\ s \in {"deleteMember", "deleteBuilding"} => submission[m.sub].flaw = "null"
  /\ s = "answered" /\ submission[m.sub].flaw = "none" => m.code \notin {400, 409}

Knows(s, m) == KnowsMember(s, m) /\ KnowsBuilding(s, m) /\ KnowsInstall(s, m) /\ KnowsError(s, m)

Tidy == OneMember(members) /\ OneBuilding(buildings) /\ OneRequest(installs)

AllKnow == \A p \in Proc : Knows(pc[p], mem[p])

Kept == \A s \in Sub : submission[s].flaw = "none" => post[s].code \notin {400, 409}

AloneInv == LockHeld /\ (~overlap => Alone /\ Tidy /\ AllKnow /\ Kept)

LEMMA InitAlone == Init => AloneInv
<1> SUFFICES ASSUME Init PROVE AloneInv
  OBVIOUS
<1>1. LockHeld /\ Alone
  BY DEF Init, LockHeld, Alone, Processing, Proc
<1>2. Tidy
  BY StartAssumption DEF Init, Tidy
<1>3. AllKnow
  BY DEF Init, AllKnow, Knows, KnowsMember, KnowsBuilding, KnowsInstall, KnowsError
<1>4. Kept
  BY JoinAssumption DEF Init, Kept, NoRecord
<1> QED BY <1>1, <1>2, <1>3, <1>4 DEF AloneInv

(* A step of process_join_form is its process's own.                       *)
LEMMA Works ==
  ASSUME Inv, NEW p \in Proc, Process(p)
  PROVE  Processing(p) /\ Others(p) /\ UNCHANGED <<submission, lock, post, overlap>>
<1>0. PICK m, n : m = mem[p] /\ n = mem'[p]
  OBVIOUS
<1>1. CASE FindMember(p)
  BY <1>0, <1>1, FindMemberDoes DEF Processing, Moves, Answers
<1>2. CASE FindStructure(p)
  BY <1>0, <1>2, FindStructureDoes DEF Processing, Moves
<1>3. CASE FindBuilding(p)
  BY <1>0, <1>3, FindBuildingDoes DEF Processing, Moves, BuildingFound
<1>4. CASE FindInstall(p)
  BY <1>0, <1>4, FindInstallDoes DEF Processing, Moves, Answers
<1>5. CASE SaveMember(p)
  BY <1>0, <1>5, SaveMemberDoes DEF Processing, Moves, MemberSaved
<1>6. CASE SaveBuilding(p)
  BY <1>0, <1>6, SaveBuildingDoes DEF Processing, Moves
<1>7. CASE AddNodes(p)
  BY <1>0, <1>7, AddNodesDoes DEF Processing, Moves, NodesAdded
<1>8. CASE SaveInstall(p)
  BY <1>0, <1>8, SaveInstallDoes DEF Processing, Moves
<1>9. CASE CreateTicket(p)
  BY <1>0, <1>9, CreateTicketDoes DEF Processing, Moves, Answers, Escapes
<1>10. CASE DeleteMember(p)
  BY <1>0, <1>10, DeleteMemberDoes DEF Processing, Moves, Answers, Escapes
<1>11. CASE DeleteBuilding(p)
  BY <1>0, <1>11, DeleteBuildingDoes DEF Processing, Moves, Answers, Escapes
<1> QED BY <1>1, <1>2, <1>3, <1>4, <1>5, <1>6, <1>7, <1>8, <1>9, <1>10, <1>11 DEF Process

LEMMA LockStep == Inv /\ LockHeld /\ [Next]_vars => LockHeld'
<1> SUFFICES ASSUME Inv, LockHeld, [Next]_vars PROVE LockHeld'
  OBVIOUS
<1>0. Form \cap Replay = {} /\ Form \subseteq Proc /\ NoProc \notin Proc
  BY JoinAssumption DEF Proc
<1>1. CASE Waits
  BY <1>1 DEF Waits, LockHeld
<1>2. ASSUME NEW p \in Proc, Begins(p) PROVE LockHeld'
  BY <1>0, <1>2 DEF Begins, LockHeld, Moves, Others
<1>3. ASSUME NEW p \in Proc, Rests(p) PROVE LockHeld'
  BY <1>0, <1>3 DEF Rests, LockHeld, Others
<1>4. ASSUME NEW p \in Proc, Process(p) PROVE LockHeld'
  BY <1>0, <1>4, Works DEF LockHeld, Others, Processing
<1> QED BY <1>1, <1>2, <1>3, <1>4, Steps

(* Whoever is not processing knows nothing that others could spoil.        *)
LEMMA KnowsLittle ==
  ASSUME NEW s \in {"idle", "lock", "answered", "next"}, NEW m,
         s = "answered" /\ submission[m.sub].flaw = "none" => m.code \notin {400, 409}
  PROVE  Knows(s, m)
BY DEF Knows, KnowsMember, KnowsBuilding, KnowsInstall, KnowsError

LEMMA AloneStep ==
  ASSUME Inv, AloneInv, ~overlap, NEW p \in Proc, Processing(p), Others(p),
         UNCHANGED <<submission, lock, post, overlap>>,
         LockHeld', Tidy', Knows(pc[p], mem[p])'
  PROVE  AloneInv'
<1>1. \A q \in Proc \ {p} : pc[q] \in {"idle", "lock", "answered", "next"} /\ Knows(pc[q], mem[q])
  BY DEF AloneInv, Alone, AllKnow, Processing
<1>2. Alone'
  BY <1>1 DEF Alone, Others, Processing
<1>3. ASSUME NEW q \in Proc, q # p PROVE Knows(pc[q], mem[q])'
  <2>1. PICK s, m : s = pc[q] /\ m = mem[q]
    OBVIOUS
  <2>2. pc'[q] = s /\ mem'[q] = m
    BY <1>3, <2>1 DEF Others
  <2>3. s \in {"idle", "lock", "answered", "next"}
        /\ (s = "answered" /\ submission[m.sub].flaw = "none" => m.code \notin {400, 409})
    BY <1>1, <1>3, <2>1 DEF Knows, KnowsError
  <2>4. s = "answered" /\ submission'[m.sub].flaw = "none" => m.code \notin {400, 409}
    BY <2>3
  <2>5. Knows(s, m)'
    BY <2>3, <2>4 DEF Knows, KnowsMember, KnowsBuilding, KnowsInstall, KnowsError
  <2> QED BY <2>2, <2>5
<1>4. AllKnow'
  BY <1>3 DEF AllKnow
<1>5. Kept'
  BY DEF AloneInv, Kept
<1> QED BY <1>2, <1>4, <1>5 DEF AloneInv

(* What is known at the beginning of a step of a process that is alone.    *)
LEMMA AloneKnows ==
  ASSUME Inv, AloneInv, ~overlap, NEW p \in Proc, NEW m, m = mem[p]
  PROVE  /\ Typed(m) /\ Holds(pc[p], m) /\ Knows(pc[p], m) /\ Tables /\ Tidy
BY Remembered DEF AloneInv, AllKnow

(* An answer, whatever was known.                                          *)
LEMMA AnswerKnows ==
  ASSUME Inv, NEW p, NEW m, NEW n, n = mem'[p], UNCHANGED submission,
         \/ Moves(p, "idle")
         \/ \E code, i : /\ Answers(p, m, n, code, i)
                         /\ code \in {400, 409} => submission[m.sub].flaw # "none"
  PROVE  Knows(pc[p], mem[p])'
<1>1. CASE Moves(p, "idle")
  BY <1>1 DEF Moves, Knows, KnowsMember, KnowsBuilding, KnowsInstall, KnowsError
<1>2. ASSUME NEW code, NEW i, Answers(p, m, n, code, i),
             code \in {400, 409} => submission[m.sub].flaw # "none"
      PROVE  Knows(pc[p], mem[p])'
  <2>1. pc'[p] = "answered" /\ mem'[p] = n /\ n.sub = m.sub /\ n.code = code
    BY <1>2 DEF Answers, Moves
  <2>2. Knows("answered", n)'
    BY <1>2, <2>1 DEF Knows, KnowsMember, KnowsBuilding, KnowsInstall, KnowsError
  <2> QED BY <2>1, <2>2
<1> QED BY <1>1, <1>2

LEMMA EscapeKnows ==
  ASSUME Inv, NEW p, NEW m, NEW n, n = mem'[p], UNCHANGED submission, Escapes(p, m, n)
  PROVE  Knows(pc[p], mem[p])'
<1>1. \/ Moves(p, "idle")
      \/ \E code, i : /\ Answers(p, m, n, code, i)
                      /\ code \in {400, 409} => submission[m.sub].flaw # "none"
  BY DEF Escapes
<1> QED BY <1>1, AnswerKnows

LEMMA LooksAlone ==
  ASSUME Inv, AloneInv, ~overlap, NEW p \in Proc,
         FindMember(p) \/ FindStructure(p) \/ FindBuilding(p) \/ FindInstall(p)
  PROVE  Tidy' /\ Knows(pc[p], mem[p])'
<1>0. PICK m, n : m = mem[p] /\ n = mem'[p]
  OBVIOUS
<1>1. Holds(pc[p], m) /\ Knows(pc[p], m) /\ Tables /\ Tidy
  BY <1>0, AloneKnows
<1>2. UNCHANGED <<rows, submission>>
  BY DEF FindMember, FindStructure, FindBuilding, FindInstall
<1>3. Tidy'
  BY <1>1, <1>2 DEF rows, Tidy
<1>4. CASE FindMember(p)
  <2>1. \/ \E code \in {400, 409, 500} : /\ Answers(p, m, n, code, Null)
                                         /\ code \in {400, 409} => submission[m.sub].flaw # "none"
        \/ /\ pc[p] = "member" /\ pc'[p] = "structure" /\ n.sub = m.sub /\ n.building = m.building
           /\ \/ n.member = m.member /\ Known(submission[m.sub].email) = {}
              \/ n.member \in Known(submission[m.sub].email)
    BY <1>0, <1>4, FindMemberDoes DEF Moves, Answers
  <2>2. ASSUME pc[p] = "member", pc'[p] = "structure", n.sub = m.sub, n.building = m.building,
               \/ n.member = m.member /\ Known(submission[m.sub].email) = {}
               \/ n.member \in Known(submission[m.sub].email)
        PROVE  Knows("structure", n)'
    <3>1. m.member = 0 /\ m.building = 0
      BY <1>1, <2>2 DEF Knows, KnowsMember, KnowsBuilding
    <3>2. \/ n.member = 0 /\ Known(submission[m.sub].email) = {}
          \/ n.member # 0 /\ members[n.member].live
      BY <1>1, <2>2, <3>1, Domains DEF Known, Tables
    <3>3. KnowsMember("structure", n)'
      BY <1>2, <2>2, <3>2 DEF KnowsMember, Known, rows
    <3> QED BY <2>2, <3>1, <3>3 DEF Knows, KnowsBuilding, KnowsInstall, KnowsError
  <2>3. CASE \E code \in {400, 409, 500} : /\ Answers(p, m, n, code, Null)
                                           /\ code \in {400, 409} => submission[m.sub].flaw # "none"
    <3>1. \E code, i : Answers(p, m, n, code, i) /\ (code \in {400, 409} => submission[m.sub].flaw # "none")
      BY <2>3
    <3> QED BY <1>0, <1>2, <1>3, <3>1, AnswerKnows
  <2> QED BY <1>0, <1>3, <2>1, <2>2, <2>3
<1>5. CASE FindStructure(p)
  <2>1. pc[p] = "structure" /\ pc'[p] = "building" /\ SameRows(m, n)
    BY <1>0, <1>5, FindStructureDoes DEF Moves
  <2>2. KnowsMember("structure", m) /\ KnowsBuilding("structure", m)
    BY <1>1, <2>1 DEF Knows
  <2>3. KnowsMember("building", n)' /\ KnowsBuilding("building", n)'
    BY <1>2, <2>1, <2>2 DEF KnowsMember, KnowsBuilding, SameRows, Known, rows
  <2>4. Knows("building", n)'
    BY <2>3 DEF Knows, KnowsInstall, KnowsError
  <2> QED BY <1>0, <1>3, <2>1, <2>4
<1>6. CASE FindBuilding(p)
  <2>0. PICK S : S = Exact(submission[m.sub].address)
    OBVIOUS
  <2>1. /\ pc[p] = "building" /\ pc'[p] = "install" /\ n.sub = m.sub /\ n.member = m.member
        /\ \/ S = {} /\ n.building = m.building
           \/ n.building \in S
    <3>1. /\ pc[p] = "building" /\ Moves(p, "install") /\ n.sub = m.sub /\ n.member = m.member
          /\ \/ S = {} /\ n.building = m.building
             \/ n.building \in S
      BY <1>0, <1>6, <2>0, FindBuildingDoes DEF BuildingFound
    <3> QED BY <3>1 DEF Moves
  <2>2. KnowsMember("building", m) /\ m.building = 0
    BY <1>1, <2>1 DEF Knows, KnowsBuilding
  <2>3. KnowsMember("install", n)'
    BY <1>2, <2>1, <2>2 DEF KnowsMember, Known, rows
  <2>4. \A i \in S : buildings[i].live
    BY <2>0 DEF Exact, Structure
  <2>5. 0 \notin S
    BY <1>1, <2>0, Domains DEF Exact, Structure, Tables
  <2>6. buildings' = buildings /\ Exact(submission[m.sub].address)' = S
    BY <1>2, <2>0 DEF Exact, Structure, rows
  <2>7. KnowsBuilding("install", n)'
    BY <1>2, <2>1, <2>2, <2>4, <2>5, <2>6 DEF KnowsBuilding
  <2>8. Knows("install", n)'
    BY <2>3, <2>7 DEF Knows, KnowsInstall, KnowsError
  <2> QED BY <1>0, <1>3, <2>1, <2>8
<1>7. CASE FindInstall(p)
  <2>1. \/ \E i : Answers(p, m, n, 200, i)
        \/ /\ pc[p] = "install" /\ pc'[p] = "saveMember" /\ n = m
           /\ \A i \in DOMAIN installs :
                ~(/\ installs[i].open /\ installs[i].unit = submission[m.sub].unit
                  /\ installs[i].member = m.member /\ installs[i].building = m.building)
    BY <1>0, <1>7, FindInstallDoes DEF Moves
  <2>2. ASSUME pc[p] = "install", pc'[p] = "saveMember", n = m,
               \A i \in DOMAIN installs :
                 ~(/\ installs[i].open /\ installs[i].unit = submission[m.sub].unit
                   /\ installs[i].member = m.member /\ installs[i].building = m.building)
        PROVE  Knows("saveMember", n)'
    <3>1. KnowsMember("install", m) /\ KnowsBuilding("install", m)
      BY <1>1, <2>2 DEF Knows
    <3>2. KnowsMember("saveMember", m) /\ KnowsBuilding("saveMember", m) /\ KnowsInstall("saveMember", m)
      BY <2>2, <3>1 DEF KnowsMember, KnowsBuilding, KnowsInstall, Triple
    <3>3. Knows("saveMember", m)
      BY <3>2 DEF Knows, KnowsError
    <3>4. UNCHANGED <<members, buildings, installs, submission>>
      BY <1>2 DEF rows
    <3>5. Knows("saveMember", m)'
      BY <3>3, <3>4 DEF Knows, KnowsMember, KnowsBuilding, KnowsInstall, KnowsError, Known, Exact,
                        Structure, Triple
    <3> QED BY <2>2, <3>5
  <2>3. \A i : Answers(p, m, n, 200, i) => (200 \in {400, 409} => submission[m.sub].flaw # "none")
    OBVIOUS
  <2> QED BY <1>0, <1>2, <1>3, <2>1, <2>2, <2>3, AnswerKnows
<1> QED BY <1>4, <1>5, <1>6, <1>7

LEMMA SavesMemberAlone ==
  ASSUME Inv, AloneInv, ~overlap, NEW p \in Proc, SaveMember(p)
  PROVE  Tidy' /\ Knows(pc[p], mem[p])'
<1>0. PICK m, n : m = mem[p] /\ n = mem'[p]
  OBVIOUS
<1>1. Typed(m) /\ Holds("saveMember", m) /\ Knows("saveMember", m) /\ Tables /\ Tidy
  BY <1>0, AloneKnows DEF SaveMember
<1>2. /\ pc'[p] = "saveBuilding" /\ UNCHANGED <<buildings, installs, submission>>
      /\ n.sub = m.sub /\ n.building = m.building
      /\ (m.member = 0 /\ n.member \notin DOMAIN members) \/ (m.member # 0 /\ n.member = m.member)
      /\ n.member # 0
      /\ DOMAIN members' = DOMAIN members \cup {n.member}
      /\ \A i \in DOMAIN members \ {n.member} : members'[i] = members[i]
      /\ members'[n.member].live /\ members'[n.member].email = submission[m.sub].email
  BY <1>0, SaveMemberDoes DEF Moves, MemberSaved
<1>3. \A i \in DOMAIN members \ {n.member} :
        ~(members[i].live /\ members[i].email = submission[m.sub].email)
  <2>1. CASE m.member = 0
    BY <1>1, <2>1 DEF Knows, KnowsMember, Known
  <2>2. CASE m.member # 0
    <3>1. m.member \in DOMAIN members /\ members[m.member].live
          /\ members[m.member].email = submission[m.sub].email
      BY <1>1, <2>2 DEF Typed, Holds, Knows, KnowsMember
    <3> QED BY <1>1, <1>2, <2>2, <3>1 DEF Tidy, OneMember
  <2> QED BY <2>1, <2>2
<1>4. OneMember(members')
  <2> SUFFICES ASSUME NEW i \in DOMAIN members', NEW j \in DOMAIN members', members'[i].live, members'[j].live,
                      members'[i].email = members'[j].email
               PROVE  i = j
    BY DEF OneMember
  <2>1. CASE i # n.member /\ j # n.member
    BY <1>1, <1>2, <2>1 DEF Tidy, OneMember
  <2>2. CASE i = n.member \/ j = n.member
    BY <1>2, <1>3, <2>2
  <2> QED BY <2>1, <2>2
<1>5. Tidy'
  BY <1>1, <1>2, <1>4 DEF Tidy
<1>6. KnowsMember("saveBuilding", n)' /\ KnowsBuilding("saveBuilding", n)'
  <2>1. KnowsBuilding("saveMember", m)
    BY <1>1 DEF Knows
  <2> QED BY <1>2, <2>1 DEF KnowsMember, KnowsBuilding, Exact, Structure
<1>7. KnowsInstall("saveBuilding", n)'
  <2>1. \A i \in DOMAIN installs : installs[i].member \in DOMAIN members
    BY <1>1 DEF Tables
  <2>2. \A i \in DOMAIN installs : Triple(i, m) => ~installs[i].open
    BY <1>1 DEF Knows, KnowsInstall
  <2>3. \A i \in DOMAIN installs : Triple(i, n)' => ~installs'[i].open
    BY <1>2, <2>1, <2>2 DEF Triple
  <2> QED BY <1>2, <2>3 DEF KnowsInstall
<1>8. Knows("saveBuilding", n)'
  BY <1>6, <1>7 DEF Knows, KnowsError
<1> QED BY <1>0, <1>2, <1>5, <1>8

LEMMA SavesBuildingAlone ==
  ASSUME Inv, AloneInv, ~overlap, NEW p \in Proc, SaveBuilding(p)
  PROVE  Tidy' /\ Knows(pc[p], mem[p])'
<1>0. PICK m, n : m = mem[p] /\ n = mem'[p]
  OBVIOUS
<1>1. Typed(m) /\ Holds("saveBuilding", m) /\ Knows("saveBuilding", m) /\ Tables /\ Tidy
  BY <1>0, AloneKnows DEF SaveBuilding
<1>2. /\ pc'[p] = "addNodes" /\ UNCHANGED <<members, installs, submission>>
      /\ n.sub = m.sub /\ n.member = m.member
      /\ (m.building = 0 /\ n.building \notin DOMAIN buildings) \/ (m.building # 0 /\ n.building = m.building)
      /\ n.building # 0
      /\ DOMAIN buildings' = DOMAIN buildings \cup {n.building}
      /\ \A i \in DOMAIN buildings \ {n.building} : buildings'[i] = buildings[i]
      /\ buildings'[n.building].live /\ buildings'[n.building].address = submission[m.sub].address
  BY <1>0, SaveBuildingDoes DEF Moves
<1>3. \A i \in DOMAIN buildings \ {n.building} :
        ~(buildings[i].live /\ buildings[i].address = submission[m.sub].address)
  <2>1. CASE m.building = 0
    BY <1>1, <2>1 DEF Knows, KnowsBuilding, Exact, Structure
  <2>2. CASE m.building # 0
    <3>1. m.building \in DOMAIN buildings /\ buildings[m.building].live
          /\ buildings[m.building].address = submission[m.sub].address
      BY <1>1, <2>2 DEF Typed, Holds, Knows, KnowsBuilding
    <3> QED BY <1>1, <1>2, <2>2, <3>1 DEF Tidy, OneBuilding
  <2> QED BY <2>1, <2>2
<1>4. OneBuilding(buildings')
  <2> SUFFICES ASSUME NEW i \in DOMAIN buildings', NEW j \in DOMAIN buildings',
                      buildings'[i].live, buildings'[j].live, buildings'[i].address = buildings'[j].address
               PROVE  i = j
    BY DEF OneBuilding
  <2>1. CASE i # n.building /\ j # n.building
    BY <1>1, <1>2, <2>1 DEF Tidy, OneBuilding
  <2>2. CASE i = n.building \/ j = n.building
    BY <1>2, <1>3, <2>2
  <2> QED BY <2>1, <2>2
<1>5. Tidy'
  BY <1>1, <1>2, <1>4 DEF Tidy
<1>6. KnowsMember("addNodes", n)' /\ KnowsBuilding("addNodes", n)'
  <2>1. KnowsMember("saveBuilding", m)
    BY <1>1 DEF Knows
  <2> QED BY <1>2, <2>1 DEF KnowsMember, KnowsBuilding
<1>7. KnowsInstall("addNodes", n)'
  <2>1. \A i \in DOMAIN installs : installs[i].building \in DOMAIN buildings
    BY <1>1 DEF Tables
  <2>2. \A i \in DOMAIN installs : Triple(i, m) => ~installs[i].open
    BY <1>1 DEF Knows, KnowsInstall
  <2>3. \A i \in DOMAIN installs : Triple(i, n)' => ~installs'[i].open
    BY <1>2, <2>1, <2>2 DEF Triple
  <2> QED BY <1>2, <2>3 DEF KnowsInstall
<1>8. Knows("addNodes", n)'
  BY <1>6, <1>7 DEF Knows, KnowsError
<1> QED BY <1>0, <1>2, <1>5, <1>8

LEMMA AddsNodesAlone ==
  ASSUME Inv, AloneInv, ~overlap, NEW p \in Proc, AddNodes(p)
  PROVE  Tidy' /\ Knows(pc[p], mem[p])'
<1>0. PICK m, n : m = mem[p] /\ n = mem'[p]
  OBVIOUS
<1>1. Typed(m) /\ Holds("addNodes", m) /\ Knows("addNodes", m) /\ Tables /\ Tidy
  BY <1>0, AloneKnows DEF AddNodes
<1>2. m.building # 0 /\ buildings[m.building].live /\ m.building \in DOMAIN buildings
  BY <1>1 DEF Holds, Typed, Knows, KnowsBuilding
<1>3. PICK b : b = m.building
  OBVIOUS
<1>4. /\ pc'[p] = "saveInstall" /\ n = m /\ UNCHANGED <<members, installs, submission>>
      /\ DOMAIN buildings' = DOMAIN buildings
      /\ \A i \in DOMAIN buildings \ {b} : buildings'[i] = buildings[i]
      /\ buildings'[b].address = buildings[b].address /\ buildings'[b].live = buildings[b].live
  <2>1. buildings[b].live
    BY <1>2, <1>3
  <2>2. NodesAdded(p, m, n, b)
    BY <1>0, <1>3, <2>1, AddNodesDoes
  <2>3. UNCHANGED <<members, installs, submission>>
    BY DEF AddNodes
  <2> QED BY <2>2, <2>3 DEF NodesAdded, Moves
<1>5. \A i \in DOMAIN buildings : /\ buildings'[i].address = buildings[i].address
                                  /\ buildings'[i].live = buildings[i].live
  BY <1>4
<1>6. Tidy'
  <2>1. OneBuilding(buildings')
    BY <1>1, <1>4, <1>5 DEF Tidy, OneBuilding
  <2> QED BY <1>1, <1>4, <2>1 DEF Tidy
<1>7. KnowsMember("saveInstall", m)' /\ KnowsBuilding("saveInstall", m)' /\ KnowsInstall("saveInstall", m)'
  <2>1. KnowsMember("addNodes", m) /\ KnowsBuilding("addNodes", m) /\ KnowsInstall("addNodes", m)
    BY <1>1 DEF Knows
  <2>2. KnowsMember("saveInstall", m)'
    BY <1>4, <2>1 DEF KnowsMember
  <2>3. KnowsBuilding("saveInstall", m)'
    BY <1>2, <1>5 DEF KnowsBuilding
  <2>4. KnowsInstall("saveInstall", m)'
    BY <1>4, <2>1 DEF KnowsInstall, Triple
  <2> QED BY <2>2, <2>3, <2>4
<1>8. Knows("saveInstall", n)'
  BY <1>4, <1>7 DEF Knows, KnowsError
<1> QED BY <1>0, <1>4, <1>6, <1>8

LEMMA SavesInstallAlone ==
  ASSUME Inv, AloneInv, ~overlap, NEW p \in Proc, SaveInstall(p)
  PROVE  Tidy' /\ Knows(pc[p], mem[p])'
<1>0. PICK m, n : m = mem[p] /\ n = mem'[p]
  OBVIOUS
<1>1. Typed(m) /\ Holds("saveInstall", m) /\ Knows("saveInstall", m) /\ Tables /\ Tidy
  BY <1>0, AloneKnows DEF SaveInstall
<1>2. members[m.member].live /\ buildings[m.building].live
  BY <1>1 DEF Holds, Knows, KnowsMember, KnowsBuilding
<1>3. UNCHANGED <<members, buildings, submission>>
  BY DEF SaveInstall
<1>4. ASSUME pc'[p] = "ticket", SameRows(m, n),
             n.install \notin DOMAIN installs, DOMAIN installs' = DOMAIN installs \cup {n.install},
             \A i \in DOMAIN installs : installs'[i] = installs[i],
             installs'[n.install].member = m.member, installs'[n.install].building = m.building,
             installs'[n.install].unit = submission[m.sub].unit
      PROVE  Tidy' /\ Knows("ticket", n)'
  <2>1. \A i \in DOMAIN installs : Triple(i, m) => ~installs[i].open
    BY <1>1 DEF Knows, KnowsInstall
  <2>2. OneRequest(installs')
    <3> SUFFICES ASSUME NEW i \in DOMAIN installs', NEW j \in DOMAIN installs',
                        installs'[i].open, installs'[j].open,
                        installs'[i].member = installs'[j].member,
                        installs'[i].building = installs'[j].building,
                        installs'[i].unit = installs'[j].unit
                 PROVE  i = j
      BY DEF OneRequest
    <3>1. CASE i \in DOMAIN installs /\ j \in DOMAIN installs
      BY <1>1, <1>4, <3>1 DEF Tidy, OneRequest
    <3>2. CASE i = n.install /\ j \in DOMAIN installs
      BY <1>4, <2>1, <3>2 DEF Triple
    <3>3. CASE i \in DOMAIN installs /\ j = n.install
      BY <1>4, <2>1, <3>3 DEF Triple
    <3> QED BY <1>4, <3>1, <3>2, <3>3
  <2>3. KnowsInstall("ticket", n)'
    <3>1. Triple(n.install, n)'
      BY <1>3, <1>4 DEF Triple, SameRows
    <3>2. \A i \in DOMAIN installs' \ {n.install} : Triple(i, n)' => ~installs'[i].open
      BY <1>3, <1>4, <2>1 DEF Triple, SameRows
    <3> QED BY <3>1, <3>2 DEF KnowsInstall
  <2>4. Tidy'
    BY <1>1, <1>3, <2>2 DEF Tidy
  <2> QED BY <2>3, <2>4 DEF Knows, KnowsMember, KnowsBuilding, KnowsError
<1>5. ASSUME pc'[p] = "deleteMember", n = m, installs' = installs, submission[m.sub].flaw = "null"
      PROVE  Tidy' /\ Knows("deleteMember", n)'
  <2>1. Tidy'
    BY <1>1, <1>3, <1>5 DEF Tidy
  <2>2. KnowsError("deleteMember", n)'
    BY <1>3, <1>5 DEF KnowsError
  <2> QED BY <2>1, <2>2 DEF Knows, KnowsMember, KnowsBuilding, KnowsInstall
<1>6. \/ /\ pc'[p] = "ticket" /\ SameRows(m, n)
         /\ n.install \notin DOMAIN installs /\ DOMAIN installs' = DOMAIN installs \cup {n.install}
         /\ \A i \in DOMAIN installs : installs'[i] = installs[i]
         /\ installs'[n.install].member = m.member /\ installs'[n.install].building = m.building
         /\ installs'[n.install].unit = submission[m.sub].unit
      \/ pc'[p] = "deleteMember" /\ n = m /\ installs' = installs /\ submission[m.sub].flaw = "null"
  BY <1>0, <1>2, SaveInstallDoes DEF Moves
<1> QED BY <1>0, <1>4, <1>5, <1>6

LEMMA CreatesTicketAlone ==
  ASSUME Inv, AloneInv, ~overlap, NEW p \in Proc, CreateTicket(p)
  PROVE  Tidy' /\ Knows(pc[p], mem[p])'
<1>0. PICK m, n : m = mem[p] /\ n = mem'[p]
  OBVIOUS
<1>1. Knows("ticket", m) /\ Tables /\ Tidy
  BY <1>0, AloneKnows DEF CreateTicket
<1>2. UNCHANGED <<members, buildings, submission>>
  BY DEF CreateTicket
<1>3. PICK k : k = m.install
  OBVIOUS
<1>4. ASSUME Answers(p, m, n, 201, k), DOMAIN installs' = DOMAIN installs,
             \A i \in DOMAIN installs \ {k} : installs'[i] = installs[i],
             installs'[k].member = installs[k].member,
             installs'[k].building = installs[k].building,
             installs'[k].unit = installs[k].unit
      PROVE  Tidy' /\ Knows(pc[p], mem[p])'
  <2>1. Triple(k, m) /\ \A i \in DOMAIN installs \ {k} : Triple(i, m) => ~installs[i].open
    BY <1>1, <1>3 DEF Knows, KnowsInstall
  <2>2. OneRequest(installs')
    <3> SUFFICES ASSUME NEW i \in DOMAIN installs', NEW j \in DOMAIN installs',
                        installs'[i].open, installs'[j].open,
                        installs'[i].member = installs'[j].member,
                        installs'[i].building = installs'[j].building,
                        installs'[i].unit = installs'[j].unit
                 PROVE  i = j
      BY DEF OneRequest
    <3>1. CASE i # k /\ j # k
      BY <1>1, <1>4, <3>1 DEF Tidy, OneRequest
    <3>2. CASE i = k /\ j # k
      BY <1>4, <2>1, <3>2 DEF Triple
    <3>3. CASE i # k /\ j = k
      BY <1>4, <2>1, <3>3 DEF Triple
    <3> QED BY <3>1, <3>2, <3>3
  <2>3. Tidy'
    BY <1>1, <1>2, <2>2 DEF Tidy
  <2>4. \E code, i : Answers(p, m, n, code, i) /\ (code \in {400, 409} => submission[m.sub].flaw # "none")
    BY <1>4
  <2> QED BY <1>0, <1>2, <2>3, <2>4, AnswerKnows
<1>5. ASSUME Escapes(p, m, n), installs' = installs PROVE Tidy' /\ Knows(pc[p], mem[p])'
  <2>1. Tidy'
    BY <1>1, <1>2, <1>5 DEF Tidy
  <2> QED BY <1>0, <1>2, <1>5, <2>1, EscapeKnows
<1> QED BY <1>0, <1>3, <1>4, <1>5, CreateTicketDoes

LEMMA DeletesAlone ==
  ASSUME Inv, AloneInv, ~overlap, NEW p \in Proc, DeleteMember(p) \/ DeleteBuilding(p)
  PROVE  Tidy' /\ Knows(pc[p], mem[p])'
<1>0. PICK m, n : m = mem[p] /\ n = mem'[p]
  OBVIOUS
<1>1. Knows(pc[p], m) /\ Tables /\ Tidy /\ UNCHANGED submission
  BY <1>0, AloneKnows DEF DeleteMember, DeleteBuilding
<1>2. submission[m.sub].flaw = "null"
  BY <1>1 DEF Knows, KnowsError, DeleteMember, DeleteBuilding
<1>3. Answers(p, m, n, 400, Null) => Knows(pc[p], mem[p])'
  <2>1. Answers(p, m, n, 400, Null)
           => \E code, i : Answers(p, m, n, code, i) /\ (code \in {400, 409} => submission[m.sub].flaw # "none")
    BY <1>2
  <2> QED BY <1>0, <1>1, <2>1, AnswerKnows
<1>4. Escapes(p, m, n) => Knows(pc[p], mem[p])'
  BY <1>0, <1>1, EscapeKnows
<1>5. CASE DeleteMember(p)
  <2>1. UNCHANGED <<buildings, installs>>
    BY <1>5 DEF DeleteMember
  <2>2. /\ DOMAIN members' = DOMAIN members
        /\ \A i \in DOMAIN members : ~members'[i].live \/ members'[i] = members[i]
    BY <1>0, <1>5, DeleteMemberDoes
  <2>3. OneMember(members')
    BY <1>1, <2>2 DEF Tidy, OneMember
  <2>4. Tidy'
    BY <1>1, <2>1, <2>3 DEF Tidy
  <2>5. \/ Escapes(p, m, n) \/ Answers(p, m, n, 400, Null)
        \/ pc'[p] = "deleteBuilding" /\ n = m
    BY <1>0, <1>5, DeleteMemberDoes DEF Moves
  <2>6. n = m => Knows("deleteBuilding", n)'
    BY <1>1, <1>2 DEF Knows, KnowsMember, KnowsBuilding, KnowsInstall, KnowsError
  <2> QED BY <1>0, <1>3, <1>4, <2>4, <2>5, <2>6
<1>6. CASE DeleteBuilding(p)
  <2>1. UNCHANGED <<members, installs>>
    BY <1>6 DEF DeleteBuilding
  <2>2. /\ DOMAIN buildings' = DOMAIN buildings
        /\ \A i \in DOMAIN buildings : ~buildings'[i].live \/ buildings'[i] = buildings[i]
    BY <1>0, <1>6, DeleteBuildingDoes
  <2>3. OneBuilding(buildings')
    BY <1>1, <2>2 DEF Tidy, OneBuilding
  <2>4. Tidy'
    BY <1>1, <2>1, <2>3 DEF Tidy
  <2>5. Escapes(p, m, n) \/ Answers(p, m, n, 400, Null)
    BY <1>0, <1>6, DeleteBuildingDoes
  <2> QED BY <1>3, <1>4, <2>4, <2>5
<1> QED BY <1>5, <1>6

LEMMA ProcessAlone ==
  ASSUME Inv, AloneInv, ~overlap, NEW p \in Proc, Process(p)
  PROVE  Tidy' /\ Knows(pc[p], mem[p])'
BY LooksAlone, SavesMemberAlone, SavesBuildingAlone, AddsNodesAlone, SavesInstallAlone, CreatesTicketAlone,
   DeletesAlone DEF Process

LEMMA BeginsAlone ==
  ASSUME Inv, AloneInv, NEW p \in Proc, Begins(p), LockHeld'
  PROVE  AloneInv'
<1> SUFFICES ASSUME ~overlap' PROVE Alone' /\ Tidy' /\ AllKnow' /\ Kept'
  BY DEF AloneInv
<1>1. /\ ~overlap /\ UNCHANGED <<rows, submission, post>> /\ Moves(p, "member") /\ Fresh(mem'[p])
      /\ \A q \in Proc \ {p} : Processing(q) => {p, q} \subseteq Form
      /\ (p \in Form /\ lock = NoProc) \/ p \in Replay
  BY DEF Begins
<1>2. LockHeld /\ Alone /\ Tidy /\ AllKnow /\ Kept
  BY <1>1 DEF AloneInv
<1>3. \A q \in Proc \ {p} : ~Processing(q)
  <2>1. Form \cap Replay = {} /\ NoProc \notin Proc
    BY JoinAssumption
  <2>2. \A q \in Form : Processing(q) => lock = q
    BY <1>2 DEF LockHeld, Processing
  <2> QED BY <1>1, <2>1, <2>2
<1>4. Alone'
  BY <1>1, <1>3 DEF Alone, Moves, Others, Processing
<1>5. Tidy' /\ Kept'
  BY <1>1, <1>2 DEF Tidy, Kept, rows
<1>6. ASSUME NEW q \in Proc PROVE Knows(pc[q], mem[q])'
  <2>1. CASE q = p
    <3>1. PICK n : n = mem'[p]
      OBVIOUS
    <3>2. pc'[p] = "member" /\ mem'[p] = n /\ n.member = 0 /\ n.building = 0
      BY <1>1, <3>1 DEF Moves, Fresh
    <3>3. Knows("member", n)'
      BY <3>2 DEF Knows, KnowsMember, KnowsBuilding, KnowsInstall, KnowsError
    <3> QED BY <2>1, <3>2, <3>3
  <2>2. CASE q # p
    <3>1. PICK s, m : s = pc[q] /\ m = mem[q]
      OBVIOUS
    <3>2. pc'[q] = s /\ mem'[q] = m /\ s \in {"idle", "lock", "answered", "next"} /\ Knows(s, m)
      BY <1>1, <1>2, <1>3, <2>2, <3>1 DEF Moves, Others, AllKnow, Processing
    <3>3. Knows(s, m)'
      BY <1>1, <3>2 DEF Knows, KnowsMember, KnowsBuilding, KnowsInstall, KnowsError
    <3> QED BY <3>2, <3>3
  <2> QED BY <2>1, <2>2
<1> QED BY <1>4, <1>5, <1>6 DEF AllKnow

LEMMA RestsAlone ==
  ASSUME Inv, AloneInv, NEW p \in Proc, Rests(p), LockHeld'
  PROVE  AloneInv'
<1> SUFFICES ASSUME ~overlap' PROVE Alone' /\ Tidy' /\ AllKnow' /\ Kept'
  BY DEF AloneInv
<1>1. /\ UNCHANGED <<rows, submission, overlap>> /\ Others(p)
      /\ pc'[p] \in {"idle", "lock", "next"}
      /\ \A s \in Sub : \/ post'[s] = post[s]
                        \/ pc[p] = "answered" /\ s = mem[p].sub /\ post'[s].code = mem[p].code
  BY DEF Rests
<1>2. Alone /\ Tidy /\ AllKnow /\ Kept
  BY <1>1 DEF AloneInv
<1>3. Alone'
  BY <1>1, <1>2 DEF Alone, Others, Processing
<1>4. Tidy'
  BY <1>1, <1>2 DEF Tidy, rows
<1>5. Kept'
  BY <1>1, <1>2 DEF Kept, AllKnow, Knows, KnowsError
<1>6. ASSUME NEW q \in Proc PROVE Knows(pc[q], mem[q])'
  <2>1. PICK s, m : s = pc'[q] /\ m = mem'[q]
    OBVIOUS
  <2>2. s \in {"idle", "lock", "next"} \/ Knows(s, m)
    BY <1>1, <1>2, <2>1 DEF Others, AllKnow
  <2>3. UNCHANGED <<members, buildings, installs, submission>>
    BY <1>1 DEF rows
  <2>4. Knows(s, m)'
    BY <2>2, <2>3 DEF Knows, KnowsMember, KnowsBuilding, KnowsInstall, KnowsError, Known, Exact,
                      Structure, Triple
  <2> QED BY <2>1, <2>4
<1> QED BY <1>3, <1>4, <1>5, <1>6 DEF AllKnow

LEMMA WaitsAlone ==
  ASSUME Inv, AloneInv, Waits, LockHeld'
  PROVE  AloneInv'
<1> SUFFICES ASSUME ~overlap' PROVE Alone' /\ Tidy' /\ AllKnow' /\ Kept'
  BY DEF AloneInv
<1>1. /\ UNCHANGED <<members, buildings, submission, post, pc, mem>>
      /\ DOMAIN installs' = DOMAIN installs
      /\ \A i \in DOMAIN installs :
           /\ installs'[i].member = installs[i].member /\ installs'[i].building = installs[i].building
           /\ installs'[i].unit = installs[i].unit /\ (installs'[i].open => installs[i].open)
  BY DEF Waits
<1>2. Alone /\ Tidy /\ AllKnow /\ Kept
  BY DEF AloneInv, Waits
<1>3. Alone' /\ Kept'
  BY <1>1, <1>2 DEF Alone, Processing, Kept
<1>4. Tidy'
  <2>1. OneRequest(installs')
    BY <1>1, <1>2 DEF Tidy, OneRequest
  <2> QED BY <1>1, <1>2, <2>1 DEF Tidy
<1>5. ASSUME NEW q \in Proc PROVE Knows(pc[q], mem[q])'
  <2>1. PICK s, m : s = pc[q] /\ m = mem[q]
    OBVIOUS
  <2>2. Knows(s, m) /\ Typed(m) /\ Holds(s, m)
    BY <1>2, <2>1, Remembered DEF AllKnow
  <2>3. KnowsMember(s, m)' /\ KnowsBuilding(s, m)' /\ KnowsError(s, m)'
    BY <1>1, <2>2 DEF Knows, KnowsMember, KnowsBuilding, KnowsError, Known, Exact, Structure
  <2>4. \A i \in DOMAIN installs : Triple(i, m)' <=> Triple(i, m)
    BY <1>1 DEF Triple
  <2>5. s = "ticket" => m.install \in DOMAIN installs
    BY <2>2 DEF Typed, Holds
  <2>6. KnowsInstall(s, m)
    BY <2>2 DEF Knows
  <2>7. KnowsInstall(s, m)'
    BY <1>1, <2>4, <2>5, <2>6 DEF KnowsInstall
  <2>8. Knows(s, m)'
    BY <2>3, <2>7 DEF Knows
  <2> QED BY <1>1, <2>1, <2>8
<1> QED BY <1>3, <1>4, <1>5 DEF AllKnow

LEMMA NextAlone == Inv /\ AloneInv /\ [Next]_vars => AloneInv'
<1> SUFFICES ASSUME Inv, AloneInv, [Next]_vars PROVE AloneInv'
  OBVIOUS
<1>1. LockHeld'
  BY LockStep DEF AloneInv
<1>2. ASSUME NEW p \in Proc, Process(p) PROVE AloneInv'
  <2>1. CASE ~overlap
    BY <1>1, <1>2, <2>1, Works, ProcessAlone, AloneStep
  <2>2. CASE overlap
    BY <1>1, <1>2, <2>2, Works DEF AloneInv
  <2> QED BY <2>1, <2>2
<1> QED BY <1>1, <1>2, WaitsAlone, BeginsAlone, RestsAlone, Steps

LEMMA SpecAlone == Spec => []AloneInv
BY SpecInv, InitAlone, NextAlone, PTL DEF Spec

(* No sequence of form requests, errors, crashes, resubmissions and        *)
(* replays makes a member, a building or an open request twice, as long as *)
(* no replay runs beside anything.                                         *)
THEOREM MadeOnce == Spec => []NothingTwice
<1>1. AloneInv => NothingTwice
  BY DEF AloneInv, Tidy, NothingTwice
<1> QED BY <1>1, SpecAlone, PTL

(* A sound submission that left a record is served or can be replayed,     *)
(* whatever failed: its record never shows a 400 or a 409, and an install  *)
(* in it serves.                                                           *)
THEOREM NothingLost == Spec => []Replayable
<1>1. Inv /\ AloneInv => Replayable
  BY DEF Inv, Aside, AloneInv, Kept, Irrelevant, Stored, Replayable, Served
<1> QED BY <1>1, SpecInv, SpecAlone, PTL

-----------------------------------------------------------------------------
(***************************************************************************)
(* Buildings of a structure share their nodes.  Nobody brings new nodes,   *)
(* so the nodes of a structure are those it had at the start, and those    *)
(* are still on its first buildings, which nobody deletes: a clean-up only *)
(* deletes a building that its own request made.                           *)
(***************************************************************************)
SameStructure(a, b) == BinOf[a] = BinOf[b]

(* s is the database at the start. *)
NodesAt(s, a) ==
  UNION {s.buildings[j].nodes : j \in {k \in DOMAIN s.buildings : SameStructure(s.buildings[k].address, a)}}

LEMMA AtNode ==
  ASSUME NEW s, NEW a, NEW x
  PROVE  x \in NodesAt(s, a) <=> \E j \in DOMAIN s.buildings : /\ SameStructure(s.buildings[j].address, a)
                                                              /\ x \in s.buildings[j].nodes
BY DEF NodesAt

LEMMA SameNodesAt ==
  ASSUME NEW s, NEW a, NEW b, SameStructure(a, b) PROVE NodesAt(s, a) = NodesAt(s, b)
<1>1. \A x : x \in NodesAt(s, a) <=> x \in NodesAt(s, b)
  BY AtNode DEF SameStructure
<1> QED BY <1>1

FirstStand(s) ==
  \A j \in DOMAIN s.buildings :
    /\ j \in DOMAIN buildings /\ buildings[j].live /\ buildings[j].address = s.buildings[j].address
    /\ s.buildings[j].nodes \subseteq buildings[j].nodes

House(s, j) ==
  /\ buildings[j].nodes \subseteq NodesAt(s, buildings[j].address)
  /\ buildings[j].primary \in NodesAt(s, buildings[j].address) \cup {Null}

Full(s, j) == NodesAt(s, buildings[j].address) \subseteq buildings[j].nodes

Houses(s) ==
  /\ FirstStand(s)
  /\ \A j \in DOMAIN buildings : House(s, j)
  /\ \A i \in DOMAIN installs : Full(s, installs[i].building)

(* What a process carries from its lookups to its install.                 *)
Carries(s, t, m) ==
  /\ t \in {"member", "structure"} => m.nodes = {}
  /\ t \in {"member", "structure", "building"} => m.building = 0 /\ ~m.created
  /\ t \in {"building", "install", "saveMember", "saveBuilding", "addNodes"}
       => m.nodes = NodesAt(s, submission[m.sub].address)
  /\ t \in {"member", "structure", "building", "install", "saveMember", "saveBuilding", "addNodes"}
       => m.primary \in NodesAt(s, submission[m.sub].address) \cup {Null}
  /\ t = "saveInstall" => (buildings[m.building].live => Full(s, m.building))
  /\ t \in {"install", "saveMember", "saveBuilding", "addNodes", "saveInstall", "ticket", "deleteMember"}
       => (m.created => m.building \notin DOMAIN s.buildings)
  /\ t = "deleteBuilding" => m.building \notin DOMAIN s.buildings

(* Two that work at one building have not seen it deleted.                 *)
MeetLive ==
  \A p, q \in Proc :
    /\ Processing(p) /\ Processing(q) /\ p # q
    /\ mem[p].building = mem[q].building /\ mem[p].building # 0
    => buildings[mem[p].building].live

Street(s) ==
  /\ Houses(s) /\ MeetLive
  /\ \A p \in Proc : Carries(s, pc[p], mem[p])

ShareInv == \E s \in Start : Street(s)

LEMMA InitShare == Init => ShareInv
<1> SUFFICES ASSUME Init PROVE ShareInv
  OBVIOUS
<1>1. PICK s \in Start : /\ members = s.members /\ buildings = s.buildings
                         /\ installs = s.installs /\ submission = s.submission
  BY DEF Init
<1>2. FirstStand(s)
  BY <1>1, StartAssumption DEF FirstStand
<1>3. ASSUME NEW j \in DOMAIN buildings PROVE House(s, j)
  <2>1. \A x : x \in buildings[j].nodes => x \in NodesAt(s, buildings[j].address)
    BY <1>1, AtNode DEF SameStructure
  <2>2. buildings[j].primary \in buildings[j].nodes \cup {Null}
    BY <1>1, StartAssumption
  <2> QED BY <2>1, <2>2 DEF House
<1>4. ASSUME NEW i \in DOMAIN installs PROVE Full(s, installs[i].building)
  <2>1. PICK b : b = installs[i].building
    OBVIOUS
  <2>2. \A j \in DOMAIN s.buildings :
          SameStructure(s.buildings[j].address, buildings[b].address)
            => s.buildings[j].nodes \subseteq buildings[b].nodes
    BY <1>1, <2>1, StartAssumption DEF SameStructure
  <2>3. \A x : x \in NodesAt(s, buildings[b].address) => x \in buildings[b].nodes
    BY <2>2, AtNode
  <2> QED BY <2>1, <2>3 DEF Full
<1>5. MeetLive /\ \A p \in Proc : Carries(s, pc[p], mem[p])
  BY DEF Init, MeetLive, Carries, Processing
<1> QED BY <1>2, <1>3, <1>4, <1>5 DEF Houses, Street, ShareInv

LEMMA ShareShares == Inv /\ ShareInv => NodesShared
<1> SUFFICES ASSUME Inv, ShareInv, NEW i \in DOMAIN installs,
                    NEW j \in Structure(buildings[installs[i].building].address)
             PROVE  buildings[j].nodes \subseteq buildings[installs[i].building].nodes
  BY DEF NodesShared
<1>1. PICK s \in Start : Street(s)
  BY DEF ShareInv
<1>2. PICK b : b = installs[i].building
  OBVIOUS
<1>3. j \in DOMAIN buildings /\ SameStructure(buildings[j].address, buildings[b].address)
  BY <1>2 DEF Structure, SameStructure
<1>4. NodesAt(s, buildings[j].address) = NodesAt(s, buildings[b].address)
  BY <1>3, SameNodesAt
<1>5. House(s, j) /\ Full(s, b)
  BY <1>1, <1>2, <1>3 DEF Street, Houses
<1> QED BY <1>2, <1>4, <1>5 DEF House, Full

(* A step of a process, as far as the others see it.                       *)
LEMMA ShareStep ==
  ASSUME Inv, NEW s, Street(s), NEW p \in Proc, Others(p), UNCHANGED submission,
         Houses(s)', MeetLive', Carries(s, pc[p], mem[p])',
         \A q \in Proc \ {p} : pc[q] = "saveInstall"
            => (buildings[mem[q].building].live => Full(s, mem[q].building))'
  PROVE  Street(s)'
<1>1. ASSUME NEW q \in Proc, q # p PROVE Carries(s, pc[q], mem[q])'
  <2>1. PICK t, m : t = pc[q] /\ m = mem[q]
    OBVIOUS
  <2>2. pc'[q] = t /\ mem'[q] = m
    BY <1>1, <2>1 DEF Others
  <2>3. Carries(s, t, m)
    BY <2>1 DEF Street
  <2>4. t = "saveInstall" => (buildings'[m.building].live => Full(s, m.building)')
    BY <1>1, <2>1, <2>2
  <2>5. Carries(s, t, m)'
    BY <2>3, <2>4 DEF Carries
  <2> QED BY <2>2, <2>5
<1> QED BY <1>1 DEF Street

(* Buildings as they were.                                                 *)
LEMMA ShareQuiet ==
  ASSUME Inv, NEW s, Street(s), NEW p \in Proc, Others(p), UNCHANGED <<submission, buildings>>,
         \A i \in DOMAIN installs' : /\ i \in DOMAIN installs
                                     /\ installs'[i].building = installs[i].building,
         MeetLive', Carries(s, pc[p], mem[p])'
  PROVE  Street(s)'
<1>1. Houses(s)'
  BY DEF Street, Houses, FirstStand, House, Full
<1>2. ASSUME NEW q \in Proc, q # p, pc[q] = "saveInstall"
      PROVE  (buildings[mem[q].building].live => Full(s, mem[q].building))'
  <2>1. PICK m : m = mem[q]
    OBVIOUS
  <2>2. mem'[q] = m /\ Carries(s, "saveInstall", m)
    BY <1>2, <2>1 DEF Others, Street
  <2>3. (buildings[m.building].live => Full(s, m.building))'
    BY <2>2 DEF Carries, Full
  <2> QED BY <2>2, <2>3
<1> QED BY <1>1, <1>2, ShareStep

LEMMA StillMeetLive ==
  ASSUME Inv, MeetLive, NEW p \in Proc, Others(p), NEW n, n = mem'[p],
         \A j \in DOMAIN buildings : buildings[j].live => buildings'[j].live,
         \/ pc'[p] \in {"idle", "lock", "answered", "next"}
         \/ n.building = 0 \/ n.building \notin DOMAIN buildings
         \/ Processing(p) /\ n.building = mem[p].building
         \/ n.building \in DOMAIN buildings /\ buildings[n.building].live
  PROVE  MeetLive'
<1> SUFFICES ASSUME NEW q \in Proc, NEW r \in Proc, Processing(q)', Processing(r)', q # r,
                    mem'[q].building = mem'[r].building, mem'[q].building # 0
             PROVE  buildings'[mem'[q].building].live
  BY DEF MeetLive
<1>1. \A x \in Proc : mem[x].building \in {0} \cup DOMAIN buildings
  BY DEF Inv, Shape, Typed
<1>2. CASE q # p /\ r # p
  BY <1>1, <1>2 DEF Others, MeetLive, Processing
<1>3. CASE q = p
  <2>1. r # p /\ pc'[r] = pc[r] /\ mem'[r] = mem[r] /\ Processing(r) /\ n.building = mem[r].building
    BY <1>3 DEF Others, Processing
  <2>2. n.building \in DOMAIN buildings
    BY <1>1, <1>3, <2>1
  <2>3. buildings[n.building].live
    BY <1>3, <2>1, <2>2 DEF MeetLive, Processing
  <2> QED BY <1>3, <2>2, <2>3
<1>4. CASE r = p
  <2>1. q # p /\ pc'[q] = pc[q] /\ mem'[q] = mem[q] /\ Processing(q) /\ n.building = mem[q].building
    BY <1>4 DEF Others, Processing
  <2>2. n.building \in DOMAIN buildings
    BY <1>1, <1>4, <2>1
  <2>3. buildings[n.building].live
    BY <1>4, <2>1, <2>2 DEF MeetLive, Processing
  <2> QED BY <1>4, <2>1, <2>2, <2>3
<1> QED BY <1>2, <1>3, <1>4

LEMMA LooksShare ==
  ASSUME Inv, NEW s, s \in Start, Street(s), NEW p \in Proc,
         FindMember(p) \/ FindStructure(p) \/ FindBuilding(p) \/ FindInstall(p)
  PROVE  Street(s)'
<1>0. PICK m, n : m = mem[p] /\ n = mem'[p]
  OBVIOUS
<1>1. Typed(m) /\ Holds(pc[p], m) /\ Carries(s, pc[p], m) /\ Tables /\ MeetLive /\ Houses(s)
  BY <1>0, Remembered DEF Street
<1>2. UNCHANGED <<rows, submission>> /\ UNCHANGED buildings /\ UNCHANGED installs
  BY DEF FindMember, FindStructure, FindBuilding, FindInstall, rows
<1>3. Processing(p) /\ Others(p)
  BY Works DEF Process
<1>4. ASSUME \/ pc'[p] \in {"idle", "lock", "answered", "next"}
             \/ n.building = m.building
             \/ n.building \in DOMAIN buildings /\ buildings[n.building].live,
             NEW t, pc'[p] = t, Carries(s, t, n)
      PROVE  Street(s)'
  <2>1. MeetLive'
    BY <1>0, <1>1, <1>2, <1>3, <1>4, StillMeetLive
  <2>2. Carries(s, t, n)'
    BY <1>2, <1>4 DEF Carries, Full
  <2>3. Carries(s, pc[p], mem[p])'
    BY <1>0, <1>4, <2>2
  <2> QED BY <1>2, <1>3, <2>1, <2>3, ShareQuiet
<1>5. Carries(s, "answered", n)
  BY DEF Carries
<1>6. CASE FindMember(p)
  <2>1. \/ pc'[p] = "answered"
        \/ /\ pc[p] = "member" /\ pc'[p] = "structure" /\ n.sub = m.sub /\ n.building = m.building
           /\ SameNodes(m, n) /\ n.created = m.created
    BY <1>0, <1>6, FindMemberDoes DEF Moves, Answers
  <2>2. ASSUME pc[p] = "member", n.sub = m.sub, n.building = m.building,
               SameNodes(m, n), n.created = m.created
        PROVE  Carries(s, "structure", n)
    BY <1>1, <2>2 DEF Carries, SameNodes
  <2> QED BY <1>4, <1>5, <2>1, <2>2
<1>7. CASE FindStructure(p)
  <2>0. PICK S, a : a = submission[m.sub].address /\ S = Structure(a)
    OBVIOUS
  <2>1. /\ pc[p] = "structure" /\ pc'[p] = "building" /\ SameRows(m, n) /\ n.created = m.created
        /\ \/ S = {} /\ SameNodes(m, n)
           \/ /\ n.nodes = UNION {buildings[j].nodes : j \in S}
              /\ \E i \in S : n.primary = buildings[i].primary
    BY <1>0, <1>7, <2>0, FindStructureDoes DEF Moves
  <2>2. m.nodes = {} /\ m.building = 0 /\ ~m.created /\ m.primary \in NodesAt(s, a) \cup {Null}
    BY <1>1, <2>0, <2>1 DEF Carries
  <2>3. \A j \in S : House(s, j) /\ NodesAt(s, buildings[j].address) = NodesAt(s, a)
    BY <1>1, <2>0, SameNodesAt DEF Structure, Houses, SameStructure
  <2>4. \A x : x \in NodesAt(s, a) => \E j \in S : x \in buildings[j].nodes
    <3>1. ASSUME NEW x \in NodesAt(s, a) PROVE \E j \in S : x \in buildings[j].nodes
      <4>1. PICK j \in DOMAIN s.buildings : SameStructure(s.buildings[j].address, a) /\ x \in s.buildings[j].nodes
        BY <3>1, AtNode
      <4>2. /\ j \in DOMAIN buildings /\ buildings[j].live /\ buildings[j].address = s.buildings[j].address
            /\ x \in buildings[j].nodes
        BY <1>1, <4>1 DEF Houses, FirstStand
      <4> QED BY <2>0, <4>1, <4>2 DEF Structure, SameStructure
    <3> QED BY <3>1
  <2>5. n.nodes = NodesAt(s, a)
    <3>1. CASE S = {} /\ SameNodes(m, n)
      <4>1. NodesAt(s, a) = {}
        BY <2>4, <3>1
      <4> QED BY <2>2, <3>1, <4>1 DEF SameNodes
    <3>2. CASE n.nodes = UNION {buildings[j].nodes : j \in S}
      <4>1. \A x : x \in n.nodes <=> \E j \in S : x \in buildings[j].nodes
        BY <3>2
      <4>2. \A x : x \in n.nodes <=> x \in NodesAt(s, a)
        BY <2>3, <2>4, <4>1 DEF House
      <4> QED BY <4>2
    <3> QED BY <2>1, <3>1, <3>2
  <2>6. n.primary \in NodesAt(s, a) \cup {Null}
    BY <2>1, <2>2, <2>3 DEF House, SameNodes
  <2>7. Carries(s, "building", n)
    BY <2>0, <2>1, <2>2, <2>5, <2>6 DEF Carries, SameRows
  <2> QED BY <1>4, <2>1, <2>7 DEF SameRows
<1>8. CASE FindBuilding(p)
  <2>0. PICK S, a : a = submission[m.sub].address /\ S = Exact(submission[m.sub].address)
    OBVIOUS
  <2>1. /\ pc[p] = "building" /\ pc'[p] = "install" /\ n.sub = m.sub /\ n.nodes = m.nodes
        /\ \/ n.building = m.building /\ n.primary = m.primary
           \/ /\ n.building \in S /\ n.created = m.created
              /\ n.primary \in {m.primary, buildings[n.building].primary}
    <3>1. S = Exact(submission[m.sub].address)
      BY <2>0
    <3>2. BuildingFound(p, m, n, S)
      BY <1>0, <1>8, <3>1, FindBuildingDoes
    <3> QED BY <3>2 DEF BuildingFound, Moves
  <2>2. /\ m.nodes = NodesAt(s, a) /\ m.building = 0 /\ ~m.created /\ m.primary \in NodesAt(s, a) \cup {Null}
    BY <1>1, <2>0, <2>1 DEF Carries
  <2>3. \A b \in S : /\ b \in DOMAIN buildings /\ buildings[b].live
                     /\ buildings[b].primary \in NodesAt(s, a) \cup {Null}
    BY <1>1, <2>0 DEF Exact, Structure, Houses, House
  <2>4. 0 \notin DOMAIN s.buildings
    BY Domains, JoinAssumption
  <2>5. n.primary \in NodesAt(s, a) \cup {Null} /\ (n.created => n.building \notin DOMAIN s.buildings)
    BY <2>1, <2>2, <2>3, <2>4
  <2>6. Carries(s, "install", n)
    BY <2>0, <2>1, <2>2, <2>5 DEF Carries
  <2>7. n.building = m.building \/ (n.building \in DOMAIN buildings /\ buildings[n.building].live)
    BY <2>1, <2>3
  <2> QED BY <1>4, <2>1, <2>6, <2>7
<1>9. CASE FindInstall(p)
  <2>1. pc'[p] = "answered" \/ (pc[p] = "install" /\ pc'[p] = "saveMember" /\ n = m)
    BY <1>0, <1>9, FindInstallDoes DEF Moves, Answers
  <2>2. ASSUME pc[p] = "install", n = m PROVE Carries(s, "saveMember", n)
    BY <1>1, <2>2 DEF Carries
  <2> QED BY <1>4, <1>5, <2>1, <2>2
<1> QED BY <1>6, <1>7, <1>8, <1>9

LEMMA SavesMemberShares ==
  ASSUME Inv, NEW s, Street(s), NEW p \in Proc, SaveMember(p)
  PROVE  Street(s)'
<1>0. PICK m, n : m = mem[p] /\ n = mem'[p]
  OBVIOUS
<1>1. Carries(s, "saveMember", m) /\ MeetLive
  BY <1>0 DEF Street, SaveMember
<1>2. /\ pc'[p] = "saveBuilding" /\ UNCHANGED <<buildings, installs, submission>> /\ n.sub = m.sub
      /\ n.building = m.building /\ SameNodes(m, n) /\ n.created = m.created
  <2>1. MemberSaved(p, m, n)
    BY <1>0, SaveMemberDoes
  <2> QED BY <2>1 DEF MemberSaved, Moves
<1>3. Processing(p) /\ Others(p)
  BY Works DEF Process
<1>4. MeetLive'
  BY <1>0, <1>1, <1>2, <1>3, StillMeetLive
<1>5. Carries(s, "saveBuilding", n)'
  BY <1>1, <1>2 DEF Carries, SameNodes
<1> QED BY <1>0, <1>2, <1>3, <1>4, <1>5, ShareQuiet

(* One building changes.                                                   *)
LEMMA OneHouse ==
  ASSUME Inv, NEW s, Houses(s), NEW b,
         DOMAIN buildings' = DOMAIN buildings \cup {b}, installs' = installs,
         \A j \in DOMAIN buildings \ {b} : buildings'[j] = buildings[j],
         House(s, b)',
         b \in DOMAIN buildings =>
           /\ buildings'[b].address = buildings[b].address
           /\ \/ \A i \in DOMAIN installs : installs[i].building # b
              \/ buildings[b].nodes \subseteq buildings'[b].nodes
           /\ b \in DOMAIN s.buildings => /\ buildings'[b].live
                                          /\ buildings[b].nodes \subseteq buildings'[b].nodes
  PROVE  Houses(s)'
<1>1. FirstStand(s)'
  BY DEF Houses, FirstStand
<1>2. \A j \in DOMAIN buildings' : House(s, j)'
  BY DEF Houses, House
<1>3. ASSUME NEW i \in DOMAIN installs PROVE Full(s, installs[i].building)'
  <2>1. PICK j : j = installs[i].building
    OBVIOUS
  <2>2. j \in DOMAIN buildings /\ Full(s, j)
    BY <2>1 DEF Inv, Tables, Houses
  <2>3. Full(s, j)'
    BY <2>1, <2>2 DEF Full
  <2> QED BY <2>1, <2>3
<1> QED BY <1>1, <1>2, <1>3 DEF Houses

LEMMA SavesBuildingShares ==
  ASSUME Inv, NEW s, Street(s), NEW p \in Proc, SaveBuilding(p)
  PROVE  Street(s)'
<1>0. PICK m, n, b : m = mem[p] /\ n = mem'[p] /\ b = n.building
  OBVIOUS
<1>1. Typed(m) /\ Holds("saveBuilding", m) /\ Carries(s, "saveBuilding", m) /\ MeetLive /\ Houses(s) /\ pc[p] = "saveBuilding"
  BY <1>0, Remembered DEF Street, SaveBuilding
<1>2. /\ pc'[p] = "addNodes" /\ UNCHANGED <<installs, submission>> /\ n.sub = m.sub
      /\ SameNodes(m, n) /\ n.created = m.created
      /\ \/ m.building = 0 /\ b \notin DOMAIN buildings /\ buildings'[b].nodes = {}
         \/ m.building # 0 /\ b = m.building /\ buildings'[b].nodes = buildings[b].nodes
      /\ DOMAIN buildings' = DOMAIN buildings \cup {b}
      /\ \A i \in DOMAIN buildings \ {b} : buildings'[i] = buildings[i]
      /\ buildings'[b].live /\ buildings'[b].address = submission[m.sub].address
      /\ buildings'[b].primary = m.primary
  BY <1>0, SaveBuildingDoes DEF Moves
<1>3. Processing(p) /\ Others(p)
  BY Works DEF Process
<1>4. m.building # 0 => b \in DOMAIN buildings /\ buildings[b].address = submission[m.sub].address /\ House(s, b)
  BY <1>1, <1>2 DEF Typed, Holds, Houses
<1>5. House(s, b)'
  BY <1>1, <1>2, <1>4 DEF House, Carries
<1>6. Houses(s)'
  BY <1>1, <1>2, <1>4, <1>5, OneHouse
<1>7. MeetLive'
  BY <1>0, <1>1, <1>2, <1>3, StillMeetLive
<1>8. Carries(s, "addNodes", n)'
  <2>1. n.created => n.building \notin DOMAIN s.buildings
    BY <1>0, <1>1, <1>2 DEF Carries, Houses, FirstStand
  <2> QED BY <1>1, <1>2, <2>1 DEF Carries, SameNodes
<1>9. ASSUME NEW q \in Proc \ {p}, pc[q] = "saveInstall"
      PROVE  (buildings[mem[q].building].live => Full(s, mem[q].building))'
  <2>1. PICK k : k = mem[q]
    OBVIOUS
  <2>2. mem'[q] = k /\ Carries(s, "saveInstall", k) /\ Holds("saveInstall", k) /\ Typed(k)
    BY <1>3, <1>9, <2>1, Remembered DEF Others, Street
  <2>3. k.building # 0 /\ k.building \in DOMAIN buildings
    BY <2>2 DEF Holds, Typed
  <2>4. CASE k.building # b
    BY <1>2, <2>2, <2>3, <2>4 DEF Carries, Full
  <2>5. CASE k.building = b
    <3>1. m.building = b /\ buildings[b].live
      BY <1>0, <1>1, <1>2, <1>9, <2>1, <2>3, <2>5 DEF MeetLive, Processing
    <3>2. Full(s, b)
      BY <2>2, <2>5, <3>1 DEF Carries
    <3>3. Full(s, b)'
      BY <1>2, <1>4, <2>3, <2>5, <3>1, <3>2 DEF Full
    <3> QED BY <2>2, <2>5, <3>3
  <2> QED BY <2>4, <2>5
<1> QED BY <1>0, <1>2, <1>3, <1>6, <1>7, <1>8, <1>9, ShareStep

LEMMA AddsNodesShares ==
  ASSUME Inv, NEW s, Street(s), NEW p \in Proc, AddNodes(p)
  PROVE  Street(s)'
<1>0. PICK m, n, b : m = mem[p] /\ n = mem'[p] /\ b = m.building
  OBVIOUS
<1>1. Typed(m) /\ Holds("addNodes", m) /\ Carries(s, "addNodes", m) /\ MeetLive /\ Houses(s) /\ Tables
  BY <1>0, Remembered DEF Street, AddNodes
<1>2. UNCHANGED <<installs, submission>> /\ Processing(p) /\ Others(p)
  BY Works DEF Process, AddNodes
<1>3. b \in DOMAIN buildings /\ buildings[b].address = submission[m.sub].address
  BY <1>0, <1>1, Rows
<1>4. CASE NodesAdded(p, m, n, b)
  <2>1. /\ pc'[p] = "saveInstall" /\ n = m
        /\ DOMAIN buildings' = DOMAIN buildings
        /\ \A i \in DOMAIN buildings \ {b} : buildings'[i] = buildings[i]
        /\ buildings'[b].address = buildings[b].address /\ (buildings'[b].live <=> buildings[b].live)
        /\ buildings'[b].primary = buildings[b].primary
        /\ buildings'[b].nodes = buildings[b].nodes \cup Wanted(m)
    BY <1>4 DEF NodesAdded, Moves
  <2>2. Wanted(m) = NodesAt(s, submission[m.sub].address)
    BY <1>1 DEF Carries, Wanted
  <2>3. House(s, b)' /\ Full(s, b)'
    BY <1>1, <1>3, <2>1, <2>2 DEF Houses, House, Full
  <2>4. Houses(s)'
    <3>1. b \in DOMAIN s.buildings => buildings[b].live
      BY <1>1 DEF Houses, FirstStand
    <3> QED BY <1>1, <1>2, <1>3, <2>1, <2>3, <3>1, OneHouse
  <2>5. MeetLive'
    <3>1. \A j \in DOMAIN buildings : buildings[j].live => buildings'[j].live
      BY <2>1
    <3> QED BY <1>0, <1>1, <1>2, <2>1, <3>1, StillMeetLive
  <2>6. Carries(s, "saveInstall", n)'
    BY <1>0, <1>1, <2>1, <2>3 DEF Carries
  <2>7. ASSUME NEW q \in Proc \ {p}, pc[q] = "saveInstall"
        PROVE  (buildings[mem[q].building].live => Full(s, mem[q].building))'
    <3>1. PICK k : k = mem[q]
      OBVIOUS
    <3>2. mem'[q] = k /\ Carries(s, "saveInstall", k) /\ Holds("saveInstall", k) /\ Typed(k)
      BY <1>2, <2>7, <3>1, Remembered DEF Others, Street
    <3>3. k.building \in DOMAIN buildings
      BY <3>2 DEF Holds, Typed
    <3>4. CASE k.building # b
      BY <2>1, <3>2, <3>3, <3>4 DEF Carries, Full
    <3>5. CASE k.building = b
      BY <2>3, <3>2, <3>5
    <3> QED BY <3>4, <3>5
  <2> QED BY <1>0, <1>2, <2>1, <2>4, <2>5, <2>6, <2>7, ShareStep
<1>5. CASE pc'[p] = "deleteMember" /\ SameRows(m, n) /\ n.created = FALSE /\ buildings' = buildings
  <2>1. MeetLive'
    BY <1>0, <1>1, <1>2, <1>5, StillMeetLive DEF SameRows
  <2>2. Carries(s, "deleteMember", n)'
    BY <1>5 DEF Carries
  <2> QED BY <1>0, <1>2, <1>5, <2>1, <2>2, ShareQuiet
<1> QED BY <1>0, <1>4, <1>5, AddNodesDoes DEF Moves

LEMMA SavesInstallShares ==
  ASSUME Inv, NEW s, Street(s), NEW p \in Proc, SaveInstall(p)
  PROVE  Street(s)'
<1>0. PICK m, n : m = mem[p] /\ n = mem'[p]
  OBVIOUS
<1>1. Carries(s, "saveInstall", m) /\ MeetLive /\ Houses(s)
  BY <1>0 DEF Street, SaveInstall
<1>2. UNCHANGED <<buildings, submission>> /\ Processing(p) /\ Others(p)
  BY Works DEF Process, SaveInstall
<1>3. CASE pc'[p] = "deleteMember" /\ n = m /\ installs' = installs
  <2>1. MeetLive'
    BY <1>0, <1>1, <1>2, <1>3, StillMeetLive
  <2>2. Carries(s, "deleteMember", n)'
    BY <1>1, <1>3 DEF Carries
  <2> QED BY <1>0, <1>2, <1>3, <2>1, <2>2, ShareQuiet
<1>4. ASSUME pc'[p] = "ticket", SameRows(m, n), n.created = m.created, buildings[m.building].live,
             DOMAIN installs' = DOMAIN installs \cup {n.install},
             \A i \in DOMAIN installs : installs'[i] = installs[i],
             installs'[n.install].building = m.building
      PROVE  Street(s)'
  <2>1. MeetLive'
    BY <1>0, <1>1, <1>2, <1>4, StillMeetLive DEF SameRows
  <2>2. Carries(s, "ticket", n)'
    BY <1>1, <1>4 DEF Carries, SameRows
  <2>3. Full(s, m.building)
    BY <1>1, <1>4 DEF Carries
  <2>4. FirstStand(s)' /\ \A j \in DOMAIN buildings' : House(s, j)'
    BY <1>1, <1>2 DEF Houses, FirstStand, House
  <2>5. ASSUME NEW i \in DOMAIN installs' PROVE Full(s, installs[i].building)'
    <3>1. PICK j : j = installs'[i].building
      OBVIOUS
    <3>2. Full(s, j)
      BY <1>1, <1>4, <2>3, <3>1 DEF Houses
    <3>3. Full(s, j)'
      BY <1>2, <3>2 DEF Full
    <3> QED BY <3>1, <3>3
  <2>6. Houses(s)'
    BY <2>4, <2>5 DEF Houses
  <2>7. ASSUME NEW q \in Proc \ {p}, pc[q] = "saveInstall"
        PROVE  (buildings[mem[q].building].live => Full(s, mem[q].building))'
    <3>1. PICK k : k = mem[q]
      OBVIOUS
    <3>2. mem'[q] = k /\ Carries(s, "saveInstall", k)
      BY <1>2, <2>7, <3>1 DEF Others, Street
    <3>3. (buildings[k.building].live => Full(s, k.building))'
      BY <1>2, <3>2 DEF Carries, Full
    <3> QED BY <3>2, <3>3
  <2> QED BY <1>0, <1>2, <1>4, <2>1, <2>2, <2>6, <2>7, ShareStep
<1>5. \/ pc'[p] = "deleteMember" /\ n = m /\ installs' = installs
      \/ /\ pc'[p] = "ticket" /\ SameRows(m, n) /\ n.created = m.created /\ buildings[m.building].live
         /\ DOMAIN installs' = DOMAIN installs \cup {n.install}
         /\ \A i \in DOMAIN installs : installs'[i] = installs[i]
         /\ installs'[n.install].building = m.building
  BY <1>0, SaveInstallDoes DEF Moves
<1> QED BY <1>3, <1>4, <1>5

(* A form and a replay at most are at work at once.                        *)
LEMMA FewWork ==
  ASSUME LockHeld, \A p, q \in Replay : p = q,
         NEW p \in Proc, NEW q \in Proc, NEW r \in Proc, Processing(p), Processing(q), Processing(r)
  PROVE  p = q \/ q = r \/ p = r
BY DEF LockHeld, Processing, Proc

LEMMA EndsShare ==
  ASSUME Inv, LockHeld, \A p, q \in Replay : p = q, NEW s, Street(s), NEW p \in Proc,
         CreateTicket(p) \/ DeleteMember(p) \/ DeleteBuilding(p)
  PROVE  Street(s)'
<1>0. PICK m, n : m = mem[p] /\ n = mem'[p]
  OBVIOUS
<1>1. Typed(m) /\ Holds(pc[p], m) /\ Carries(s, pc[p], m) /\ MeetLive /\ Houses(s) /\ Tables
  BY <1>0, Remembered DEF Street
<1>2. UNCHANGED submission /\ Processing(p) /\ Others(p)
  BY Works DEF Process
<1>3. ASSUME UNCHANGED buildings,
             \A i \in DOMAIN installs' : i \in DOMAIN installs /\ installs'[i].building = installs[i].building,
             pc'[p] \in {"idle", "answered"} \/ (pc[p] = "deleteMember" /\ m.created /\ n = m /\ pc'[p] = "deleteBuilding")
      PROVE  Street(s)'
  <2>1. n = m \/ pc'[p] \in {"idle", "answered"}
    BY <1>3
  <2>2. MeetLive'
    BY <1>0, <1>1, <1>2, <1>3, <2>1, StillMeetLive
  <2>3. CASE pc'[p] \in {"idle", "answered"}
    <3>1. Carries(s, pc[p], mem[p])'
      BY <2>3 DEF Carries
    <3> QED BY <1>2, <1>3, <2>2, <3>1, ShareQuiet
  <2>4. CASE pc[p] = "deleteMember" /\ m.created /\ n = m /\ pc'[p] = "deleteBuilding"
    <3>1. Carries(s, "deleteBuilding", n)'
      BY <1>1, <2>4 DEF Carries
    <3> QED BY <1>0, <1>2, <1>3, <2>2, <2>4, <3>1, ShareQuiet
  <2> QED BY <1>3, <2>3, <2>4
<1>4. CASE CreateTicket(p)
  <2>1. UNCHANGED buildings
    BY <1>4 DEF CreateTicket
  <2>2. \A i \in DOMAIN installs' : i \in DOMAIN installs /\ installs'[i].building = installs[i].building
    BY <1>0, <1>4, CreateTicketDoes
  <2>3. pc'[p] \in {"idle", "answered"}
    BY <1>0, <1>4, CreateTicketDoes DEF Answers, Escapes, Moves
  <2> QED BY <1>3, <2>1, <2>2, <2>3
<1>5. CASE DeleteMember(p)
  <2>1. UNCHANGED <<buildings, installs>> /\ pc[p] = "deleteMember"
    BY <1>5 DEF DeleteMember
  <2>2. pc'[p] \in {"idle", "answered"} \/ (m.created /\ n = m /\ pc'[p] = "deleteBuilding")
    BY <1>0, <1>5, DeleteMemberDoes DEF Answers, Escapes, Moves
  <2> QED BY <1>3, <2>1, <2>2
<1>6. CASE DeleteBuilding(p)
  <2>0. PICK b : b = m.building
    OBVIOUS
  <2>1. UNCHANGED installs /\ pc[p] = "deleteBuilding" /\ b \in DOMAIN buildings /\ b \notin DOMAIN s.buildings
    BY <1>1, <1>6, <2>0, Rows DEF DeleteBuilding, Carries
  <2>2. pc'[p] \in {"idle", "answered"}
    BY <1>0, <1>6, DeleteBuildingDoes DEF Answers, Escapes, Moves
  <2>3. CASE buildings' = buildings
    BY <1>3, <2>1, <2>2, <2>3
  <2>4. CASE /\ \A j \in DOMAIN installs : installs[j].building # b
             /\ DOMAIN buildings' = DOMAIN buildings
             /\ \A i \in DOMAIN buildings \ {b} : buildings'[i] = buildings[i]
             /\ buildings'[b].address = buildings[b].address
             /\ buildings'[b].primary = buildings[b].primary
             /\ ~buildings'[b].live /\ buildings'[b].nodes = {}
    <3>1. House(s, b)'
      BY <1>1, <2>1, <2>4 DEF Houses, House
    <3>2. Houses(s)'
      BY <1>1, <2>1, <2>4, <3>1, OneHouse
    <3>3. MeetLive'
      <4>1. \A q, r \in Proc : Processing(q)' /\ Processing(r)' => q = r
        BY <1>2, <2>2, FewWork DEF Others, Processing
      <4> QED BY <4>1 DEF MeetLive
    <3>4. Carries(s, pc[p], mem[p])'
      BY <2>2 DEF Carries
    <3>5. ASSUME NEW q \in Proc \ {p}, pc[q] = "saveInstall"
          PROVE  (buildings[mem[q].building].live => Full(s, mem[q].building))'
      <4>1. PICK k : k = mem[q]
        OBVIOUS
      <4>2. mem'[q] = k /\ Carries(s, "saveInstall", k) /\ Holds("saveInstall", k) /\ Typed(k)
        BY <1>2, <3>5, <4>1, Remembered DEF Others, Street
      <4>3. k.building \in DOMAIN buildings
        BY <4>2 DEF Holds, Typed
      <4>4. k.building # b => (buildings'[k.building].live => Full(s, k.building)')
        BY <2>4, <4>2, <4>3 DEF Carries, Full
      <4> QED BY <2>4, <4>2, <4>4
    <3> QED BY <1>2, <3>2, <3>3, <3>4, <3>5, ShareStep
  <2>5. \/ buildings' = buildings
        \/ /\ \A j \in DOMAIN installs : installs[j].building # b
           /\ DOMAIN buildings' = DOMAIN buildings
           /\ \A i \in DOMAIN buildings \ {b} : buildings'[i] = buildings[i]
           /\ buildings'[b].address = buildings[b].address
           /\ buildings'[b].primary = buildings[b].primary
           /\ ~buildings'[b].live /\ buildings'[b].nodes = {}
    BY <1>0, <1>6, <2>0, DeleteBuildingDoes
  <2> QED BY <2>3, <2>4, <2>5
<1> QED BY <1>4, <1>5, <1>6

LEMMA NextShare ==
  ASSUME \A p, q \in Replay : p = q PROVE Inv /\ LockHeld /\ ShareInv /\ [Next]_vars => ShareInv'
<1> SUFFICES ASSUME Inv, LockHeld, ShareInv, [Next]_vars PROVE ShareInv'
  OBVIOUS
<1>1. PICK s \in Start : Street(s)
  BY DEF ShareInv
<1>2. CASE Waits
  <2>1. UNCHANGED <<buildings, submission, pc, mem>>
        /\ \A i \in DOMAIN installs' : i \in DOMAIN installs /\ installs'[i].building = installs[i].building
    BY <1>2 DEF Waits
  <2>2. Houses(s)'
    BY <1>1, <2>1 DEF Street, Houses, FirstStand, House, Full
  <2>3. MeetLive'
    BY <1>1, <2>1 DEF Street, MeetLive, Processing
  <2>4. \A p \in Proc : Carries(s, pc[p], mem[p])'
    BY <1>1, <2>1 DEF Street, Carries, Full
  <2> QED BY <1>1, <2>2, <2>3, <2>4 DEF Street, ShareInv
<1>3. ASSUME NEW p \in Proc, Begins(p) PROVE Street(s)'
  <2>1. /\ UNCHANGED <<submission, buildings, installs>> /\ Others(p) /\ pc'[p] = "member"
        /\ Fresh(mem'[p])
    BY <1>3 DEF Begins, Moves, rows
  <2>2. PICK n : n = mem'[p]
    OBVIOUS
  <2>3. MeetLive'
    BY <1>1, <2>1, <2>2, StillMeetLive DEF Street, Fresh
  <2>4. Carries(s, "member", n)'
    BY <2>1, <2>2 DEF Carries, Fresh
  <2> QED BY <1>1, <2>1, <2>2, <2>3, <2>4, ShareQuiet
<1>4. ASSUME NEW p \in Proc, Rests(p) PROVE Street(s)'
  <2>1. /\ UNCHANGED <<submission, buildings, installs>> /\ Others(p)
        /\ pc'[p] \in {"idle", "lock", "next"}
    BY <1>4 DEF Rests, rows
  <2>2. PICK n : n = mem'[p]
    OBVIOUS
  <2>3. MeetLive'
    BY <1>1, <2>1, <2>2, StillMeetLive DEF Street
  <2>4. Carries(s, pc[p], mem[p])'
    BY <2>1 DEF Carries
  <2> QED BY <1>1, <2>1, <2>3, <2>4, ShareQuiet
<1>5. ASSUME NEW p \in Proc, Process(p) PROVE Street(s)'
  BY <1>1, <1>5, LooksShare, SavesMemberShares, SavesBuildingShares, AddsNodesShares, SavesInstallShares,
     EndsShare DEF Process
<1> QED BY <1>1, <1>2, <1>3, <1>4, <1>5, Steps DEF ShareInv

(* With one replay beside the forms, an install is only stored for a       *)
(* building that has the nodes of its structure (forms.py l.357-361,       *)
(* building.py l.108-114).                                                 *)
THEOREM NodesAreShared ==
  ASSUME \A p, q \in Replay : p = q PROVE Spec => []NodesShared
<1>1. Spec => []ShareInv
  <2>1. AloneInv => LockHeld
    BY DEF AloneInv
  <2> QED BY <2>1, SpecInv, SpecAlone, InitShare, NextShare, PTL DEF Spec
<1> QED BY <1>1, SpecInv, ShareShares, PTL

=============================================================================
