-------------------------- MODULE RunResultsProofs --------------------------
(***************************************************************************)
(* Theorems about RunResults, for every number of runs, browsers, images,  *)
(* approvals, alerts and faults.                                           *)
(***************************************************************************)
EXTENDS RunResults, FiniteSetTheorems, SequenceTheorems, TLAPS

LEMMA SetupTypes ==
    ASSUME setup \in Setups
    PROVE  /\ Run = DOMAIN Browser /\ Run = DOMAIN App
           /\ setup.approvals \in Nat /\ setup.calls \in Nat
BY ResultsAssumption DEF Run, Browser, App

LEMMA TypeInit == Init => TypeOK
<1> SUFFICES ASSUME Init PROVE TypeOK
  OBVIOUS
<1> USE ResultsAssumption DEF Init
<1>1. setup.approvals \in Nat
  BY SetupTypes
<1>2. NoStep \in Checks
  BY DEF NoStep, Checks
<1>3. NoLocal \in Locals
  BY <1>2 DEF NoLocal, Locals
<1>4. row \in [Run -> [status : Statuses, finished : 0 .. Len(verdicts)]]
  BY DEF Statuses
<1>5. at \in [Run -> Places] /\ local \in [Run -> Locals]
  BY <1>3 DEF Places
<1>6. actual \in [Run -> Images \cup {0}] /\ step \in [Run -> Checks]
  BY <1>2
<1>7. image \in [{Browser[r] : r \in Run} -> Images \cup {0}] /\ incident \in [DOMAIN image -> BOOLEAN]
  OBVIOUS
<1>8. baselines \in Seq([browser : DOMAIN image, approved : BOOLEAN])
  OBVIOUS
<1>9. verdicts \in Seq([run : Run, browser : DOMAIN image, status : Terminal])
  OBVIOUS
<1>10. approvals \in 0 .. setup.approvals /\ faults \in 0 .. MaxFaults
  BY <1>1
<1> QED
  BY <1>4, <1>5, <1>6, <1>7, <1>8, <1>9, <1>10 DEF TypeOK

LEMMA FaultType ==
    ASSUME faults \in 0 .. MaxFaults, NEW kind, Fault(kind) PROVE faults' \in 0 .. MaxFaults
BY ResultsAssumption DEF Fault

(* The constant part of a step. *)
LEMMA SetupKept ==
    ASSUME UNCHANGED setup
    PROVE  /\ Run' = Run /\ App' = App /\ Browser' = Browser /\ Alerts' = Alerts
           /\ Locals' = Locals /\ \A b : Shared(b)' = Shared(b)
BY DEF Run, App, Browser, Alerts, Locals, Shared

(* A verdict keeps the types of what it is written to. *)
LEMMA SettleType ==
    ASSUME TypeOK, NEW r \in Run, NEW s \in Terminal, Settle(r, s)
    PROVE  /\ row' \in [Run -> [status : Statuses, finished : 0 .. Len(verdicts')]]
           /\ verdicts' \in Seq([run : Run, browser : DOMAIN image, status : Terminal])
<1> DEFINE v == [run |-> r, browser |-> Browser[r], status |-> s]
<1>1. v \in [run : Run, browser : DOMAIN image, status : Terminal]
  BY DEF TypeOK
<1>2. verdicts' = Append(verdicts, v)
  BY DEF Settle
<1>3. Len(verdicts) \in Nat /\ Len(verdicts') = Len(verdicts) + 1
  BY <1>1, <1>2 DEF TypeOK
<1>4. [status |-> s, finished |-> Len(verdicts) + 1] \in [status : Statuses, finished : 0 .. Len(verdicts')]
  BY <1>3 DEF Statuses
<1>5. \A q \in Run : row[q] \in [status : Statuses, finished : 0 .. Len(verdicts')]
  BY <1>3 DEF TypeOK
<1>6. row' = [row EXCEPT ![r] = [status |-> s, finished |-> Len(verdicts) + 1]]
  BY DEF Settle
<1> QED
  BY <1>1, <1>2, <1>4, <1>5, <1>6 DEF TypeOK

(* What an execution holds keeps its type, field by field. *)
LEMMA HeldTypes ==
    ASSUME local \in [Run -> Locals], NEW r \in Run
    PROVE  /\ \A b \in BOOLEAN : [local EXCEPT ![r].found = b] \in [Run -> Locals]
           /\ \A i \in Images \cup {0} : [local EXCEPT ![r].base = i] \in [Run -> Locals]
           /\ \A c \in Checks : [local EXCEPT ![r].check = c] \in [Run -> Locals]
           /\ \A a \in SUBSET Alerts : [local EXCEPT ![r].left = a] \in [Run -> Locals]
           /\ \A b \in BOOLEAN, n \in Nat :
                 [local EXCEPT ![r].changed = b, ![r].seen = n, ![r].left = Alerts] \in [Run -> Locals]
<1> USE DEF Locals
<1>1. \A b \in BOOLEAN : [local EXCEPT ![r].found = b] \in [Run -> Locals]
  OBVIOUS
<1>2. \A i \in Images \cup {0} : [local EXCEPT ![r].base = i] \in [Run -> Locals]
  OBVIOUS
<1>3. \A c \in Checks : [local EXCEPT ![r].check = c] \in [Run -> Locals]
  OBVIOUS
<1>4. \A a \in SUBSET Alerts : [local EXCEPT ![r].left = a] \in [Run -> Locals]
  OBVIOUS
<1>5. \A b \in BOOLEAN, n \in Nat :
         [local EXCEPT ![r].changed = b, ![r].seen = n, ![r].left = Alerts] \in [Run -> Locals]
  OBVIOUS
<1> QED
  BY <1>1, <1>2, <1>3, <1>4, <1>5

(* Each step of an execution keeps the types. *)
LEMMA ExecuteType ==
    ASSUME TypeOK, Checked, NEW r \in Run, Execute(r), UNCHANGED setup
    PROVE  TypeOK'
<1> USE SetupKept DEF TypeOK, Go, Tables, Store, Outside, Alerted
<1>1. CASE Begin(r)
  <2>1. NoLocal \in Locals /\ NoStep \in Checks
    BY ResultsAssumption DEF NoLocal, NoStep, Locals, Checks
  <2>2. local' \in [Run -> Locals] /\ step' \in [Run -> Checks]
    BY <1>1, <2>1 DEF Begin
  <2>3. row' \in [Run -> [status : Statuses, finished : 0 .. Len(verdicts)]]
    BY <1>1 DEF Begin, Statuses
  <2>4. at' \in [Run -> Places]
    BY <1>1 DEF Begin, Places
  <2> QED
    BY <1>1, <2>2, <2>3, <2>4 DEF Begin
<1>2. CASE Look(r)
  <2>1. local' \in [Run -> Locals]
    BY <1>2, HeldTypes DEF Look
  <2>2. at' \in [Run -> Places]
    BY <1>2 DEF Look, Places
  <2> QED
    BY <1>2, <2>1, <2>2 DEF Look
<1>3. CASE PutActual(r)
  <2>1. at' \in [Run -> Places]
    BY <1>3 DEF PutActual, Places
  <2>2. actual' \in [Run -> Images \cup {0}]
    BY <1>3 DEF PutActual
  <2> QED
    BY <1>3, <2>1, <2>2 DEF PutActual
<1>4. CASE AdoptObject(r)
  <2>1. at' \in [Run -> Places]
    BY <1>4 DEF AdoptObject, Places
  <2>2. image' \in [{Browser[q] : q \in Run} -> Images \cup {0}]
    BY <1>4 DEF AdoptObject
  <2> QED
    BY <1>4, <2>1, <2>2 DEF AdoptObject
<1>5. CASE AdoptRow(r)
  <2>1. at' \in [Run -> Places]
    BY <1>5 DEF AdoptRow, Places
  <2>2. local' \in [Run -> Locals]
    BY <1>5, HeldTypes DEF AdoptRow, Checks
  <2>3. baselines' \in Seq([browser : DOMAIN image, approved : BOOLEAN])
    BY <1>5 DEF AdoptRow
  <2> QED
    BY <1>5, <2>1, <2>2, <2>3 DEF AdoptRow
<1>6. CASE Download(r)
  <2>1. at' \in [Run -> Places]
    BY <1>6 DEF Download, Places
  <2>2. local' \in [Run -> Locals]
    <3>1. image[Browser[r]] \in Images \cup {0} /\ local' = [local EXCEPT ![r].base = image[Browser[r]]]
      BY <1>6 DEF Download
    <3> QED
      BY <3>1, HeldTypes
  <2> QED
    BY <1>6, <2>1, <2>2 DEF Download
<1>7. CASE Compare(r)
  <2>1. at' \in [Run -> Places]
    BY <1>7 DEF Compare, Places
  <2> DEFINE pct == Distance(actual[r], local[r].base)
             c   == [status |-> IF pct > Tolerance THEN "failed" ELSE "passed", baseline |-> TRUE, diff |-> pct > 0]
  <2>2. c \in Checks /\ local' = [local EXCEPT ![r].check = c]
    <3>1. c \in Checks
      BY ONLY DEF Checks
    <3> QED
      BY ONLY <1>7, <3>1 DEF Compare
  <2>3. local' \in [Run -> Locals]
    <3> HIDE DEF c
    <3> QED
      BY <2>2, HeldTypes
  <2> QED
    BY <1>7, <2>1, <2>3 DEF Compare
<1>8. CASE SinkFails(r)
  <2>1. at' \in [Run -> Places]
    BY <1>8 DEF SinkFails, Places
  <2> DEFINE c == [status |-> "failed", baseline |-> at[r] \in {"download", "compare"}, diff |-> FALSE]
  <2>2. c \in Checks /\ local' = [local EXCEPT ![r].check = c]
    <3>1. c \in Checks
      BY ONLY DEF Checks
    <3> QED
      BY ONLY <1>8, <3>1 DEF SinkFails
  <2>3. local' \in [Run -> Locals]
    <3> HIDE DEF c
    <3> QED
      BY <2>2, HeldTypes
  <2> QED
    BY <1>8, <2>1, <2>3, FaultType DEF SinkFails
<1>9. CASE Persist(r)
  <2>1. at' \in [Run -> Places]
    BY <1>9 DEF Persist, Places
  <2>2. step' \in [Run -> Checks]
    BY <1>9 DEF Persist, Locals
  <2> QED
    BY <1>9, <2>1, <2>2 DEF Persist
<1>10. CASE Commit(r)
  <2>1. at' \in [Run -> Places]
    BY <1>10 DEF Commit, Places
  <2>2. local[r].check.status \in Terminal
    BY <1>10 DEF Commit, Checked, Locals, Checks, Terminal
  <2>3. Settle(r, local[r].check.status)
    BY <1>10 DEF Commit
  <2>4. /\ row' \in [Run -> [status : Statuses, finished : 0 .. Len(verdicts')]]
        /\ verdicts' \in Seq([run : Run, browser : DOMAIN image, status : Terminal])
    BY <2>2, <2>3, SettleType
  <2> QED
    BY <1>10, <2>1, <2>4 DEF Commit
<1>11. CASE Throw(r)
  <2>1. at' \in [Run -> Places]
    BY <1>11 DEF Throw, Places
  <2>2. Settle(r, "errored")
    BY <1>11 DEF Throw
  <2>3. /\ row' \in [Run -> [status : Statuses, finished : 0 .. Len(verdicts')]]
        /\ verdicts' \in Seq([run : Run, browser : DOMAIN image, status : Terminal])
    BY <2>2, SettleType DEF Terminal
  <2> QED
    BY <1>11, <2>1, <2>3, FaultType DEF Throw
<1>12. CASE Previous(r)
  <2>1. at' \in [Run -> Places]
    BY <1>12 DEF Previous, Places
  <2>2. PICK b \in BOOLEAN :
          local' = [local EXCEPT ![r].changed = b, ![r].seen = Len(verdicts), ![r].left = Alerts]
    BY <1>12 DEF Previous
  <2>3. Len(verdicts) \in Nat
    OBVIOUS
  <2>4. local' \in [Run -> Locals]
    BY <2>2, <2>3, HeldTypes
  <2>5. UNCHANGED << row, step, actual, image, baselines, approval, approvals, client, incident, told, verdicts, faults >>
    BY <1>12 DEF Previous
  <2> QED
    BY <2>1, <2>4, <2>5
<1>13. CASE Send(r)
  <2>1. PICK a \in local[r].left :
          \/ Deliver(r, a, TRUE) /\ UNCHANGED faults
          \/ Deliver(r, a, FALSE) /\ Fault("delivery")
    BY <1>13 DEF Send
  <2>2. faults' \in 0 .. MaxFaults
    BY <2>1, FaultType
  <2>3. /\ local' = [local EXCEPT ![r].left = @ \ {a}]
        /\ UNCHANGED << row, step, at, actual, image, baselines, approval, approvals, client, verdicts >>
    BY <2>1 DEF Deliver
  <2>4. local' \in [Run -> Locals]
    <3>1. local[r].left \ {a} \in SUBSET Alerts
      BY DEF Locals
    <3> QED
      BY <2>3, <3>1, HeldTypes
  <2>5. \E b \in BOOLEAN : incident' \in {incident, [incident EXCEPT ![Browser[r]] = b]}
    <3>1. incident' \in {incident, [incident EXCEPT ![Browser[r]] = Bad(local[r].check.status)]}
      BY <2>1 DEF Deliver
    <3>2. Bad(local[r].check.status) \in BOOLEAN
      BY DEF Bad
    <3> QED
      BY ONLY <3>1, <3>2
  <2>6. incident' \in [DOMAIN image -> BOOLEAN]
    BY <2>5
  <2> QED
    BY <2>2, <2>3, <2>4, <2>6
<1>14. CASE Return(r)
  <2>1. at' \in [Run -> Places]
    BY <1>14 DEF Return, Places
  <2> QED
    BY <1>14, <2>1 DEF Return
<1>15. CASE Redeliver(r)
  <2>1. at' \in [Run -> Places]
    BY <1>15 DEF Redeliver, Places
  <2> QED
    BY <1>15, <2>1, FaultType DEF Redeliver
<1>16. CASE LaunchFails(r)
  <2>1. at' \in [Run -> Places]
    BY <1>16 DEF LaunchFails, Places
  <2> DEFINE c == [NoStep EXCEPT !.status = "errored"]
  <2>2. c \in Checks /\ local' = [local EXCEPT ![r].check = c]
    <3>1. c \in Checks
      BY ONLY DEF Checks, NoStep
    <3> QED
      BY ONLY <1>16, <3>1 DEF LaunchFails
  <2>3. local' \in [Run -> Locals]
    <3> HIDE DEF c
    <3> QED
      BY <2>2, HeldTypes
  <2> QED
    BY <1>16, <2>1, <2>3 DEF LaunchFails
<1> QED
  BY <1>1, <1>2, <1>3, <1>4, <1>5, <1>6, <1>7, <1>8, <1>9, <1>10, <1>11, <1>12, <1>13, <1>14, <1>15, <1>16 DEF Execute

Baselines == [browser : DOMAIN image, approved : BOOLEAN]

LEMMA BaselineRows ==
    ASSUME TypeOK
    PROVE  /\ baselines \in [1 .. Len(baselines) -> Baselines]
           /\ DOMAIN baselines = 1 .. Len(baselines) /\ Len(baselines) \in Nat
<1>1. baselines \in Seq(Baselines)
  BY DEF TypeOK, Baselines
<1> QED
  BY <1>1, LenProperties

(* So do the steps of the users, of an approval and of the REST call. *)
LEMMA OutsideType ==
    ASSUME TypeOK, ShotFirst, User \/ Client, UNCHANGED setup
    PROVE  TypeOK'
<1> USE SetupKept DEF TypeOK, Tables, Store, Alerted
<1>1. ASSUME NEW r \in Run, Approve(r) PROVE TypeOK'
  <2>1. approval' \in [at : {"copy", "mark"}, run : Run]
    BY <1>1 DEF Approve
  <2>2. setup.approvals \in Nat
    BY SetupTypes
  <2>3. approvals' \in 0 .. setup.approvals
    BY <1>1, <2>2 DEF Approve
  <2> QED
    BY <1>1, <2>1, <2>3 DEF Approve
<1>2. CASE ApproveCopy
  <2>1. approval.run \in Run /\ approval' = [approval EXCEPT !.at = "mark"]
    BY <1>2 DEF ApproveCopy
  <2>2. approval' \in [at : {"copy", "mark"}, run : Run]
    BY <1>2, <2>1 DEF ApproveCopy
  <2>3. image' = [image EXCEPT ![Browser[approval.run]] = actual[approval.run]]
    BY <1>2 DEF ApproveCopy
  <2>4. image' \in [{Browser[q] : q \in Run} -> Images \cup {0}]
    BY <2>1, <2>3
  <2> QED
    BY <1>2, <2>2, <2>4 DEF ApproveCopy
<1>3. CASE ApproveMark
  <2>1. approval' \in [at : {"idle"}]
    BY <1>3 DEF ApproveMark
  <2>2. \A i \in DOMAIN baselines :
          [baselines EXCEPT ![i].approved = TRUE] \in Seq([browser : DOMAIN image, approved : BOOLEAN])
    <3> TAKE i \in DOMAIN baselines
    <3>1. i \in 1 .. Len(baselines) /\ baselines[i] \in Baselines
      BY BaselineRows
    <3>2. [baselines[i] EXCEPT !.approved = TRUE] \in Baselines
      BY ONLY <3>1 DEF Baselines
    <3>3. baselines \in Seq(Baselines)
      BY DEF Baselines
    <3>4. [baselines EXCEPT ![i] = [baselines[i] EXCEPT !.approved = TRUE]] \in Seq(Baselines)
      BY ONLY <3>1, <3>2, <3>3, ExceptSeq
    <3> QED
      BY ONLY <3>4 DEF Baselines
  <2>3. baselines' \in Seq([browser : DOMAIN image, approved : BOOLEAN])
    <3> DEFINE rows == Rows(Browser[approval.run])
               i    == CHOOSE i \in rows : \A j \in rows : i <= j
    <3>1. CASE rows = {}
      BY <1>3, <3>1 DEF ApproveMark
    <3>2. CASE baselines' = [baselines EXCEPT ![i].approved = TRUE] /\ i \in DOMAIN baselines
      <4> HIDE DEF i
      <4> QED
        BY <2>2, <3>2
    <3>3. CASE baselines' = [baselines EXCEPT ![i].approved = TRUE] /\ i \notin DOMAIN baselines
      <4> HIDE DEF i
      <4>1. baselines \in [1 .. Len(baselines) -> [browser : DOMAIN image, approved : BOOLEAN]]
        BY BaselineRows DEF Baselines
      <4>2. [baselines EXCEPT ![i].approved = TRUE] = baselines
        BY <3>3, <4>1
      <4> QED
        BY <3>3, <4>2
    <3> QED
      BY <1>3, <3>1, <3>2, <3>3 DEF ApproveMark
  <2> QED
    BY <1>3, <2>1, <2>3 DEF ApproveMark
<1>4. ASSUME NEW r \in Run, Ask(r) PROVE TypeOK'
  BY <1>4 DEF Ask
<1>5. CASE Client
  <2>1. ClientOnly
    BY <1>5 DEF Client, WaitForRun, ResultJson
  <2> QED
    BY <2>1 DEF ClientOnly
<1> QED
  BY <1>1, <1>2, <1>3, <1>4, <1>5 DEF User

-----------------------------------------------------------------------------
(* A step of one execution leaves the others where they are, and opens only what
   it begins. *)
LEMMA OthersKept ==
    ASSUME TypeOK, NEW r \in Run, Execute(r)
    PROVE  /\ \A s \in Run \ {r} : at'[s] = at[s] /\ local'[s] = local[s]
           /\ at'[r] \notin {"queued", "done"} => Open(r) \/ Begin(r)
           /\ UNCHANGED << approval, approvals >>
<1> USE DEF Go, Outside, Open
<1>0. at \in [Run -> Places] /\ local \in [Run -> Locals]
  BY DEF TypeOK
<1>1. CASE Begin(r) \/ LaunchFails(r) \/ Look(r) \/ PutActual(r)
  BY <1>0, <1>1 DEF Begin, LaunchFails, Look, PutActual
<1>2. CASE AdoptObject(r) \/ AdoptRow(r) \/ Download(r) \/ Compare(r)
  BY <1>0, <1>2 DEF AdoptObject, AdoptRow, Download, Compare
<1>3. CASE SinkFails(r) \/ Persist(r) \/ Commit(r) \/ Throw(r)
  BY <1>0, <1>3 DEF SinkFails, Persist, Commit, Throw
<1>4. CASE Previous(r)
  BY <1>0, <1>4 DEF Previous
<1>5. CASE Send(r)
  <2>1. PICK a \in local[r].left : \E arrives \in BOOLEAN : Deliver(r, a, arrives)
    BY <1>5 DEF Send
  <2> QED
    BY <1>0, <2>1 DEF Deliver
<1>6. CASE Return(r) \/ Redeliver(r)
  BY <1>0, <1>6 DEF Return, Redeliver
<1> QED
  BY <1>1, <1>2, <1>3, <1>4, <1>5, <1>6 DEF Execute

LEMMA OneOpenExecute ==
    ASSUME TypeOK, OneOpen, NEW r \in Run, Execute(r), UNCHANGED setup
    PROVE  OneOpen'
<1>1. Run' = Run /\ App' = App
  BY SetupKept
<1> SUFFICES ASSUME NEW p \in Run, NEW q \in Run, App[p] = App[q], Open(p)', Open(q)'
             PROVE  p = q
  BY <1>1 DEF OneOpen
<1>2. \A s \in Run \ {r} : Open(s)' => Open(s)
  BY OthersKept DEF Open
<1>3. Open(r)' => Open(r) \/ \A s \in Run \ {r} : App[s] = App[r] => ~ Open(s)
  BY OthersKept DEF Open, Begin
<1> QED
  BY <1>2, <1>3 DEF OneOpen

(* Where the rows of a browser change. *)
LEMMA RowsAdopted ==
    ASSUME TypeOK, NEW r \in Run, AdoptRow(r)
    PROVE  /\ \A i \in DOMAIN baselines : baselines'[i] = baselines[i]
           /\ DOMAIN baselines' = DOMAIN baselines \cup {Len(baselines) + 1}
           /\ baselines'[Len(baselines) + 1] = [browser |-> Browser[r], approved |-> FALSE]
           /\ \A b : Rows(b)' = Rows(b) \cup IF b = Browser[r] THEN {Len(baselines) + 1} ELSE {}
<1> DEFINE new == [browser |-> Browser[r], approved |-> FALSE]
<1>1. baselines \in Seq(Baselines) /\ new \in Baselines
  BY DEF TypeOK, Baselines
<1>2. baselines' = Append(baselines, new)
  BY DEF AdoptRow
<1>3. new.browser = Browser[r]
  OBVIOUS
<1> HIDE DEF new
<1>4. /\ Len(baselines') = Len(baselines) + 1
      /\ \A i \in 1 .. Len(baselines) : baselines'[i] = baselines[i]
      /\ baselines'[Len(baselines) + 1] = new
      /\ baselines' \in Seq(Baselines)
  BY <1>1, <1>2, AppendProperties
<1>5. DOMAIN baselines' = 1 .. Len(baselines') /\ DOMAIN baselines = 1 .. Len(baselines) /\ Len(baselines) \in Nat
  BY <1>1, <1>4, LenProperties
<1>6. DOMAIN baselines' = DOMAIN baselines \cup {Len(baselines) + 1}
  BY <1>4, <1>5
<1>7. ASSUME NEW b PROVE Rows(b)' = Rows(b) \cup IF b = Browser[r] THEN {Len(baselines) + 1} ELSE {}
  <2>1. \A i \in DOMAIN baselines : baselines'[i].browser = baselines[i].browser
    BY <1>4, <1>5
  <2>2. baselines'[Len(baselines) + 1].browser = Browser[r]
    BY <1>3, <1>4
  <2> QED
    BY <1>6, <2>1, <2>2 DEF Rows
<1>8. \A i \in DOMAIN baselines : baselines'[i] = baselines[i]
  BY <1>4, <1>5
<1>9. baselines'[Len(baselines) + 1] = [browser |-> Browser[r], approved |-> FALSE]
  BY <1>4 DEF new
<1> QED
  BY ONLY <1>6, <1>7, <1>8, <1>9

LEMMA RowsMarked ==
    ASSUME TypeOK, ApproveMark
    PROVE  /\ DOMAIN baselines' = DOMAIN baselines
           /\ \A i \in DOMAIN baselines : baselines'[i].browser = baselines[i].browser
           /\ \A b : Rows(b)' = Rows(b)
<1> DEFINE rows == Rows(Browser[approval.run])
           i    == CHOOSE i \in rows : \A j \in rows : i <= j
<1>1. baselines' = baselines \/ baselines' = [baselines EXCEPT ![i].approved = TRUE]
  BY DEF ApproveMark
<1>2. DOMAIN baselines' = DOMAIN baselines
  BY <1>1
<1> HIDE DEF i
<1>3. \A j \in DOMAIN baselines : baselines[j] \in Baselines
  BY BaselineRows
<1>4. \A j \in DOMAIN baselines : baselines'[j].browser = baselines[j].browser
  <2> TAKE j \in DOMAIN baselines
  <2>1. [baselines[j] EXCEPT !.approved = TRUE].browser = baselines[j].browser
    BY <1>3 DEF Baselines
  <2> QED
    BY <1>1, <2>1
<1> QED
  BY <1>2, <1>4 DEF Rows

(* Screenshots, images and rows are only ever replaced by others. *)
LEMMA NothingLost ==
    ASSUME TypeOK, ShotFirst, UNCHANGED setup,
           (\E r \in Run : Execute(r)) \/ User \/ Client
    PROVE  /\ \A r \in Run : actual[r] # 0 => actual'[r] # 0
           /\ \A b \in DOMAIN image : image[b] # 0 => image'[b] # 0
           /\ \A b : Rows(b) \subseteq Rows(b)'
<1> USE DEF Store, TypeOK
<1>0. ASSUME UNCHANGED baselines PROVE \A b : Rows(b)' = Rows(b)
  BY <1>0 DEF Rows
<1>1. ASSUME NEW r \in Run, Execute(r)
      PROVE  \/ UNCHANGED Store \/ PutActual(r) \/ AdoptObject(r) \/ AdoptRow(r)
  <2>1. CASE Begin(r) \/ LaunchFails(r) \/ Look(r) \/ Download(r) \/ Compare(r) \/ SinkFails(r) \/ Persist(r) \/ Commit(r)
    BY <2>1 DEF Begin, LaunchFails, Look, Download, Compare, SinkFails, Persist, Commit
  <2>2. CASE Throw(r) \/ Previous(r) \/ Return(r) \/ Redeliver(r)
    BY <2>2 DEF Throw, Previous, Return, Redeliver
  <2>3. CASE Send(r)
    <3>1. PICK a \in local[r].left : \E arrives \in BOOLEAN : Deliver(r, a, arrives)
      BY <2>3 DEF Send
    <3> QED
      BY <3>1 DEF Deliver
  <2> QED
    BY <1>1, <2>1, <2>2, <2>3 DEF Execute
<1>2. ASSUME User \/ Client
      PROVE  UNCHANGED Store \/ ApproveCopy \/ ApproveMark
  BY <1>2 DEF User, Client, Approve, Ask, WaitForRun, ResultJson, ClientOnly
<1>3. CASE UNCHANGED Store
  BY <1>0, <1>3
<1>4. ASSUME NEW r \in Run, PutActual(r) \/ AdoptObject(r) PROVE
           /\ \A q \in Run : actual[q] # 0 => actual'[q] # 0
           /\ \A b \in DOMAIN image : image[b] # 0 => image'[b] # 0
           /\ UNCHANGED baselines
  BY <1>4, ResultsAssumption DEF PutActual, AdoptObject, Go, ShotFirst
<1>5. ASSUME NEW r \in Run, AdoptRow(r) PROVE
           /\ UNCHANGED << actual, image >>
           /\ \A b : Rows(b) \subseteq Rows(b)'
  <2>1. UNCHANGED << actual, image >>
    BY <1>5 DEF AdoptRow
  <2>2. ASSUME NEW b PROVE Rows(b) \subseteq Rows(b)'
    <3>1. Rows(b)' = Rows(b) \cup IF b = Browser[r] THEN {Len(baselines) + 1} ELSE {}
      BY <1>5, RowsAdopted
    <3> QED
      BY ONLY <3>1
  <2> QED
    BY <2>1, <2>2
<1>6. CASE ApproveCopy
  <2>1. UNCHANGED << actual, baselines >>
    BY <1>6 DEF ApproveCopy
  <2>2. actual[approval.run] # 0 /\ image' = [image EXCEPT ![Browser[approval.run]] = actual[approval.run]]
    BY <1>6 DEF ApproveCopy, ShotFirst
  <2> QED
    BY <1>0, <2>1, <2>2
<1>7. CASE ApproveMark
  BY <1>7, RowsMarked DEF ApproveMark
<1> QED
  BY <1>0, <1>1, <1>2, <1>3, <1>4, <1>5, <1>6, <1>7

(* The step that brings an execution to a place. *)
LEMMA WaysIn ==
    ASSUME TypeOK, NEW r \in Run, Execute(r)
    PROVE  /\ at'[r] = "put" => Look(r)
           /\ at'[r] = "adopt" => PutActual(r) /\ ~ local[r].found
           /\ at'[r] = "download" => PutActual(r) /\ local[r].found
           /\ at'[r] = "adoptRow" => AdoptObject(r)
           /\ at'[r] = "compare" => Download(r)
           /\ at'[r] = "persist" => AdoptRow(r) \/ Compare(r) \/ SinkFails(r)
           /\ at'[r] = "commit" => Persist(r) \/ LaunchFails(r)
<1> USE DEF Go
<1>0. at \in [Run -> Places] /\ local[r].found \in BOOLEAN
  BY DEF TypeOK, Locals
<1>1. CASE Begin(r) \/ LaunchFails(r) \/ Look(r) \/ AdoptObject(r) \/ AdoptRow(r)
  BY <1>0, <1>1 DEF Begin, LaunchFails, Look, AdoptObject, AdoptRow
<1>2. CASE PutActual(r)
  BY <1>0, <1>2 DEF PutActual
<1>3. CASE Download(r) \/ Compare(r) \/ SinkFails(r) \/ Persist(r) \/ Commit(r) \/ Throw(r)
  BY <1>0, <1>3 DEF Download, Compare, SinkFails, Persist, Commit, Throw
<1>4. CASE Previous(r) \/ Return(r) \/ Redeliver(r)
  BY <1>0, <1>4 DEF Previous, Return, Redeliver
<1>5. CASE Send(r)
  <2>1. PICK a \in local[r].left : \E arrives \in BOOLEAN : Deliver(r, a, arrives)
    BY <1>5 DEF Send
  <2> QED
    BY <1>0, <2>1 DEF Deliver
<1> QED
  BY <1>1, <1>2, <1>3, <1>4, <1>5 DEF Execute

LEMMA ShotFirstExecute ==
    ASSUME TypeOK, ShotFirst, NEW r \in Run, Execute(r), UNCHANGED setup
    PROVE  ShotFirst'
<1>0. Run' = Run /\ Browser' = Browser
  BY SetupKept
<1>1. \A s \in Run : actual[s] # 0 => actual'[s] # 0
  BY NothingLost
<1>2. \A s \in Run : Browser[s] \in DOMAIN image
  BY DEF TypeOK
<1>3. \A s \in Run : image[Browser[s]] # 0 => image'[Browser[s]] # 0
  BY <1>2, NothingLost
<1>4. \A s \in Run \ {r} : at'[s] = at[s]
  BY OthersKept
<1>5. UNCHANGED approval
  BY OthersKept
<1>6. approval.at = "copy" => approval.run \in Run
  BY DEF TypeOK
<1>7. at'[r] = "adopt" => actual'[r] # 0
  <2> SUFFICES ASSUME PutActual(r) PROVE actual'[r] # 0
    BY WaysIn
  <2> QED
    BY ResultsAssumption DEF PutActual, TypeOK
<1>8. at'[r] = "adoptRow" => image'[Browser[r]] # 0
  <2> SUFFICES ASSUME AdoptObject(r) PROVE image'[Browser[r]] # 0
    BY WaysIn
  <2>1. actual[r] # 0 /\ image' = [image EXCEPT ![Browser[r]] = actual[r]]
    BY DEF AdoptObject, Go, ShotFirst
  <2> QED
    BY <1>2, <2>1 DEF TypeOK
<1> QED
  BY <1>0, <1>1, <1>3, <1>4, <1>5, <1>6, <1>7, <1>8 DEF ShotFirst

(* Rows come of AdoptRow only. *)
LEMMA RowsKept ==
    ASSUME TypeOK, NEW r \in Run, Execute(r), ~ AdoptRow(r)
    PROVE  UNCHANGED baselines
<1> USE DEF Store
<1>1. CASE Begin(r) \/ LaunchFails(r) \/ Look(r) \/ PutActual(r) \/ AdoptObject(r) \/ Download(r) \/ Compare(r)
  BY <1>1 DEF Begin, LaunchFails, Look, PutActual, AdoptObject, Download, Compare
<1>2. CASE SinkFails(r) \/ Persist(r) \/ Commit(r) \/ Throw(r) \/ Previous(r) \/ Return(r) \/ Redeliver(r)
  BY <1>2 DEF SinkFails, Persist, Commit, Throw, Previous, Return, Redeliver
<1>3. CASE Send(r)
  <2>1. PICK a \in local[r].left : \E arrives \in BOOLEAN : Deliver(r, a, arrives)
    BY <1>3 DEF Send
  <2> QED
    BY <2>1 DEF Deliver
<1> QED
  BY <1>1, <1>2, <1>3 DEF Execute

LEMMA LookedRightExecute ==
    ASSUME TypeOK, OneOpen, ShotFirst, LookedRight, NEW r \in Run, Execute(r), UNCHANGED setup
    PROVE  LookedRight'
<1>0. Run' = Run /\ Browser' = Browser /\ \A b : Shared(b)' = Shared(b)
  BY SetupKept
<1>1. \A b : Rows(b) \subseteq Rows(b)'
  BY NothingLost
<1>2. \A s \in Run \ {r} : at'[s] = at[s] /\ local'[s] = local[s]
  BY OthersKept
<1>3. ASSUME ~ AdoptRow(r) PROVE \A b : Rows(b)' = Rows(b)
  BY <1>3, RowsKept DEF Rows
<1> DEFINE Early(s) == at[s] \in {"adopt", "adoptRow"} \/ (at[s] = "put" /\ ~ local[s].found)
           Later(s) == at[s] = "download" \/ (at[s] = "put" /\ local[s].found)
<1>4. ASSUME NEW b, Early(r)', b = Browser[r] PROVE Shared(b) \/ Rows(b)' = {}
  <2>1. CASE at'[r] = "put"
    <3>1. Look(r) /\ ~ AdoptRow(r)
      BY <2>1, WaysIn DEF Look, AdoptRow, Go
    <3>2. local'[r].found = (Rows(Browser[r]) # {})
      BY <3>1 DEF Look, TypeOK, Locals
    <3> QED
      BY <1>3, <1>4, <2>1, <3>1, <3>2
  <2>2. CASE at'[r] = "adopt"
    <3>1. PutActual(r) /\ ~ local[r].found /\ at[r] = "put" /\ ~ AdoptRow(r)
      BY <2>2, WaysIn DEF PutActual, AdoptRow, Go
    <3> QED
      BY <1>3, <1>4, <3>1 DEF LookedRight
  <2>3. CASE at'[r] = "adoptRow"
    <3>1. AdoptObject(r) /\ at[r] = "adopt" /\ ~ AdoptRow(r)
      BY <2>3, WaysIn DEF AdoptObject, AdoptRow, Go
    <3> QED
      BY <1>3, <1>4, <3>1 DEF LookedRight
  <2> QED
    BY <1>4, <2>1, <2>2, <2>3
<1>5. ASSUME NEW b, Later(r)', b = Browser[r] PROVE Rows(b)' # {}
  <2>1. CASE at'[r] = "put"
    <3>1. Look(r) /\ ~ AdoptRow(r)
      BY <2>1, WaysIn DEF Look, AdoptRow, Go
    <3>2. local'[r].found = (Rows(Browser[r]) # {})
      BY <3>1 DEF Look, TypeOK, Locals
    <3> QED
      BY <1>3, <1>5, <2>1, <3>1, <3>2
  <2>2. CASE at'[r] = "download"
    <3>1. PutActual(r) /\ local[r].found /\ at[r] = "put"
      BY <2>2, WaysIn DEF PutActual, Go
    <3> QED
      BY <1>1, <1>5, <3>1 DEF LookedRight
  <2> QED
    BY <1>5, <2>1, <2>2
<1>6. ASSUME NEW s \in Run \ {r}, NEW b, Early(s), b = Browser[s] PROVE Shared(b) \/ Rows(b)' = {}
  <2>1. Shared(b) \/ Rows(b) = {}
    BY <1>6 DEF LookedRight
  <2>2. CASE ~ AdoptRow(r)
    BY <1>3, <2>1, <2>2
  <2>3. CASE AdoptRow(r) /\ b # Browser[r]
    BY <2>1, <2>3, RowsAdopted
  <2>4. CASE AdoptRow(r) /\ b = Browser[r]
    <3>1. Open(s) /\ Open(r)
      BY <1>6, <2>4 DEF Open, AdoptRow, Go
    <3>2. App[s] # App[r]
      BY <3>1 DEF OneOpen
    <3> QED
      BY <1>6, <2>4, <3>2 DEF Shared
  <2> QED
    BY <2>2, <2>3, <2>4
<1>7. ASSUME NEW s \in Run \ {r}, NEW b, Later(s), b = Browser[s] PROVE Rows(b)' # {}
  BY <1>1, <1>7 DEF LookedRight
<1>8. ASSUME NEW s \in Run, NEW b, b = Browser[s]
      PROVE  (Early(s)' => Shared(b) \/ Rows(b)' = {}) /\ (Later(s)' => Rows(b)' # {})
  <2>1. CASE s = r
    BY <1>4, <1>5, <1>8, <2>1
  <2>2. CASE s # r
    BY <1>2, <1>6, <1>7, <1>8, <2>2
  <2> QED
    BY <2>1, <2>2
<1>9. ASSUME NEW s \in Run
      PROVE  /\ Early(s)' => (Shared(Browser[s]) \/ Rows(Browser[s]) = {})'
             /\ Later(s)' => (Rows(Browser[s]) # {})'
  BY <1>0, <1>8 DEF Rows, Shared
<1> QED
  BY <1>0, <1>9 DEF LookedRight

LEMMA CheckedExecute ==
    ASSUME TypeOK, Checked, NEW r \in Run, Execute(r), UNCHANGED setup
    PROVE  Checked'
<1>0. Run' = Run
  BY SetupKept
<1>1. \A s \in Run \ {r} : at'[s] = at[s] /\ local'[s] = local[s]
  BY OthersKept
<1>2. local \in [Run -> Locals] /\ local[r] \in Locals
  BY DEF TypeOK
<1>3. ASSUME NEW c \in Checks, local' = [local EXCEPT ![r].check = c], c.status # "none"
      PROVE  local'[r].check.status # "none"
  BY <1>2, <1>3 DEF Locals
<1>4. CASE AdoptRow(r)
  <2> DEFINE c == [status |-> "passed", baseline |-> TRUE, diff |-> FALSE]
  <2>1. c \in Checks /\ c.status # "none" /\ local' = [local EXCEPT ![r].check = c]
    BY <1>4 DEF AdoptRow, Checks
  <2> HIDE DEF c
  <2> QED
    BY <1>0, <1>1, <1>3, <2>1 DEF Checked
<1>5. CASE Compare(r)
  <2> DEFINE pct == Distance(actual[r], local[r].base)
             c   == [status |-> IF pct > Tolerance THEN "failed" ELSE "passed", baseline |-> TRUE, diff |-> pct > 0]
  <2>1. c \in Checks /\ c.status # "none"
    BY ONLY DEF Checks
  <2>2. local' = [local EXCEPT ![r].check = c]
    BY ONLY <1>5 DEF Compare
  <2> HIDE DEF c
  <2> QED
    BY <1>0, <1>1, <1>3, <2>1, <2>2 DEF Checked
<1>6. CASE SinkFails(r)
  <2> DEFINE c == [status |-> "failed", baseline |-> at[r] \in {"download", "compare"}, diff |-> FALSE]
  <2>1. c \in Checks /\ c.status # "none"
    BY ONLY DEF Checks
  <2>2. local' = [local EXCEPT ![r].check = c]
    BY ONLY <1>6 DEF SinkFails
  <2> HIDE DEF c
  <2> QED
    BY <1>0, <1>1, <1>3, <2>1, <2>2 DEF Checked
<1>7. CASE Persist(r)
  <2>1. at[r] = "persist" /\ local' = local
    BY <1>7 DEF Persist, Go
  <2> QED
    BY <1>0, <1>1, <2>1 DEF Checked
<1>8. CASE LaunchFails(r)
  <2> DEFINE c == [NoStep EXCEPT !.status = "errored"]
  <2>1. c \in Checks /\ c.status # "none"
    BY ONLY DEF Checks, NoStep
  <2>2. local' = [local EXCEPT ![r].check = c]
    BY ONLY <1>8 DEF LaunchFails
  <2> HIDE DEF c
  <2> QED
    BY <1>0, <1>1, <1>3, <2>1, <2>2 DEF Checked
<1>9. CASE at'[r] \notin {"persist", "commit"}
  BY <1>0, <1>1, <1>9 DEF Checked
<1> QED
  BY <1>4, <1>5, <1>6, <1>7, <1>8, <1>9, WaysIn

LEMMA HasImageExecute ==
    ASSUME TypeOK, ShotFirst, BaselineHasImage, NEW r \in Run, Execute(r), UNCHANGED setup
    PROVE  BaselineHasImage'
<1>1. \A i \in DOMAIN baselines : baselines[i] \in Baselines
  BY BaselineRows
<1>2. \A i \in DOMAIN baselines : baselines[i].browser \in DOMAIN image
  BY <1>1 DEF Baselines
<1>3. \A i \in DOMAIN baselines : image'[baselines[i].browser] # 0
  BY <1>2, NothingLost DEF BaselineHasImage
<1>4. CASE ~ AdoptRow(r)
  BY <1>3, <1>4, RowsKept DEF BaselineHasImage
<1>5. CASE AdoptRow(r)
  <2>1. image[Browser[r]] # 0 /\ image' = image
    BY <1>5 DEF AdoptRow, Go, ShotFirst
  <2>2. \A i \in DOMAIN baselines : baselines'[i] = baselines[i]
    BY <1>5, RowsAdopted
  <2>3. baselines'[Len(baselines) + 1].browser = Browser[r]
    <3>1. baselines'[Len(baselines) + 1] = [browser |-> Browser[r], approved |-> FALSE]
      BY <1>5, RowsAdopted
    <3> QED
      BY ONLY <3>1
  <2>4. DOMAIN baselines' = DOMAIN baselines \cup {Len(baselines) + 1}
    BY <1>5, RowsAdopted
  <2> QED
    BY <1>3, <2>1, <2>2, <2>3, <2>4 DEF BaselineHasImage
<1> QED
  BY <1>4, <1>5

LEMMA ComparedExecute ==
    ASSUME TypeOK, LookedRight, BaselineHasImage, ComparedWithOwn, NEW r \in Run, Execute(r), UNCHANGED setup
    PROVE  ComparedWithOwn'
<1>0. Run' = Run
  BY SetupKept
<1>1. \A s \in Run \ {r} : at'[s] = at[s] /\ local'[s] = local[s]
  BY OthersKept
<1>2. ASSUME at'[r] = "compare" PROVE local'[r].base # 0
  <2>1. at[r] = "download" /\ local' = [local EXCEPT ![r].base = image[Browser[r]]]
    BY <1>2, WaysIn DEF Download, Go
  <2>2. local'[r].base = image[Browser[r]]
    <3>1. local \in [Run -> Locals] /\ local[r] \in Locals
      BY DEF TypeOK
    <3> QED
      BY <2>1, <3>1 DEF Locals
  <2>3. image[Browser[r]] # 0
    BY <2>1 DEF LookedRight, Rows, BaselineHasImage
  <2> QED
    BY <2>2, <2>3
<1> QED
  BY <1>0, <1>1, <1>2 DEF ComparedWithOwn

LEMMA OneBaselineExecute ==
    ASSUME TypeOK, LookedRight, OneBaseline, NEW r \in Run, Execute(r), UNCHANGED setup, TypeOK'
    PROVE  OneBaseline'
<1>0. (\A b : Shared(b)' = Shared(b)) /\ DOMAIN image' = DOMAIN image
  BY SetupKept DEF TypeOK
<1> SUFFICES ASSUME NEW b \in DOMAIN image, ~ Shared(b) PROVE ~ (Cardinality(Rows(b)') > 1)
  BY <1>0 DEF OneBaseline
<1>1. ~ (Cardinality(Rows(b)) > 1)
  BY DEF OneBaseline
<1>2. CASE ~ AdoptRow(r)
  BY <1>1, <1>2, RowsKept DEF Rows
<1>3. CASE AdoptRow(r) /\ b # Browser[r]
  <2>1. Rows(b)' = Rows(b) \cup IF b = Browser[r] THEN {Len(baselines) + 1} ELSE {}
    BY <1>3, RowsAdopted
  <2>2. Rows(b)' = Rows(b)
    BY ONLY <1>3, <2>1
  <2> QED
    BY <1>1, <2>2
<1>4. CASE AdoptRow(r) /\ b = Browser[r]
  <2>1. Rows(b) = {}
    BY <1>4 DEF LookedRight, AdoptRow, Go
  <2>2. Rows(b)' = {Len(baselines) + 1}
    BY <1>4, <2>1, RowsAdopted
  <2>3. Cardinality(Rows(b)') = 1
    BY <2>2, FS_Singleton
  <2> QED
    BY <2>3
<1> QED
  BY <1>2, <1>3, <1>4

-----------------------------------------------------------------------------
(* The users, an approval and the REST call disturb none of it. *)
LEMMA OutsideInv ==
    ASSUME BaselineInv, User \/ Client, UNCHANGED setup
    PROVE  BaselineInv'
<1> USE DEF BaselineInv
<1>1. TypeOK'
  BY OutsideType
<1>2. Run' = Run /\ App' = App /\ Browser' = Browser /\ \A b : Shared(b)' = Shared(b)
  BY SetupKept
<1>3. UNCHANGED << at, local, actual >>
  BY DEF User, Client, Approve, ApproveCopy, ApproveMark, Ask, WaitForRun, ResultJson, ClientOnly, Store
<1>4. /\ \A b : Rows(b)' = Rows(b)
      /\ DOMAIN baselines' = DOMAIN baselines
      /\ \A i \in DOMAIN baselines : baselines'[i].browser = baselines[i].browser
  <2>1. CASE ApproveMark
    BY <2>1, RowsMarked
  <2>2. CASE ~ ApproveMark
    <3>1. UNCHANGED baselines
      BY <2>2 DEF User, Client, Approve, ApproveCopy, Ask, WaitForRun, ResultJson, ClientOnly, Store
    <3> QED
      BY <3>1 DEF Rows
  <2> QED
    BY <2>1, <2>2
<1>5. OneOpen' /\ Checked' /\ ComparedWithOwn'
  BY <1>2, <1>3 DEF OneOpen, Open, Checked, ComparedWithOwn
<1>6. \A b \in DOMAIN image : image[b] # 0 => image'[b] # 0
  BY NothingLost
<1>7. ShotFirst'
  <2>1. \A s \in Run : Browser[s] \in DOMAIN image
    BY DEF TypeOK
  <2>2. approval'.at = "copy" => actual'[approval'.run] # 0
    BY <1>3 DEF User, Client, Approve, ApproveCopy, ApproveMark, Ask, WaitForRun, ResultJson, ClientOnly, ShotFirst, TypeOK
  <2> QED
    BY <1>2, <1>3, <1>6, <2>1, <2>2 DEF ShotFirst
<1>8. LookedRight'
  BY <1>2, <1>3, <1>4 DEF LookedRight, Rows, Shared
<1>9. BaselineHasImage'
  <2>1. \A i \in DOMAIN baselines : baselines[i] \in Baselines
    BY BaselineRows
  <2>2. \A i \in DOMAIN baselines : baselines[i].browser \in DOMAIN image
    BY <2>1 DEF Baselines
  <2> QED
    BY <1>4, <1>6, <2>2 DEF BaselineHasImage
<1>10. OneBaseline'
  <2>1. DOMAIN image' = DOMAIN image
    BY <1>1, <1>2 DEF TypeOK
  <2> QED
    BY <1>2, <1>4, <2>1 DEF OneBaseline
<1> QED
  BY <1>1, <1>5, <1>7, <1>8, <1>9, <1>10

LEMMA ExecuteInv ==
    ASSUME BaselineInv, NEW r \in Run, Execute(r), UNCHANGED setup
    PROVE  BaselineInv'
<1> USE DEF BaselineInv
<1>1. TypeOK'
  BY ExecuteType
<1>2. OneOpen' /\ ShotFirst' /\ LookedRight' /\ Checked'
  BY OneOpenExecute, ShotFirstExecute, LookedRightExecute, CheckedExecute
<1>3. BaselineHasImage' /\ ComparedWithOwn' /\ OneBaseline'
  BY <1>1, HasImageExecute, ComparedExecute, OneBaselineExecute
<1> QED
  BY <1>1, <1>2, <1>3

LEMMA StutterInv == ASSUME BaselineInv, UNCHANGED vars PROVE BaselineInv'
<1>1. TypeOK'
  BY DEF BaselineInv, TypeOK, vars, Run, Browser, Locals, Alerts
<1>2. OneOpen' /\ ShotFirst' /\ Checked'
  BY DEF BaselineInv, OneOpen, ShotFirst, Checked, Open, vars, Run, App, Browser
<1>3. LookedRight' /\ OneBaseline'
  BY DEF BaselineInv, LookedRight, OneBaseline, Shared, Rows, vars, Run, App, Browser
<1>4. BaselineHasImage' /\ ComparedWithOwn'
  BY DEF BaselineInv, BaselineHasImage, ComparedWithOwn, vars, Run
<1> QED
  BY <1>1, <1>2, <1>3, <1>4 DEF BaselineInv

LEMMA InitInv == Init => BaselineInv
<1> SUFFICES ASSUME Init PROVE BaselineInv
  OBVIOUS
<1>1. TypeOK
  BY TypeInit
<1>2. OneOpen /\ ShotFirst /\ LookedRight /\ Checked /\ ComparedWithOwn
  BY DEF Init, OneOpen, Open, ShotFirst, LookedRight, Checked, ComparedWithOwn
<1>3. DOMAIN baselines = {}
  BY DEF Init
<1>4. BaselineHasImage
  BY <1>3 DEF BaselineHasImage
<1>5. OneBaseline
  <2>1. \A b : Rows(b) = {}
    BY <1>3 DEF Rows
  <2> QED
    BY <2>1, FS_EmptySet DEF OneBaseline
<1> QED
  BY <1>1, <1>2, <1>4, <1>5 DEF BaselineInv

(* The register of baselines holds together, whoever adopts, approves or fails when:
   a row has an image, a check is held against its own browser's, and only runs under
   different base URLs can make two rows. *)
THEOREM BaselineSafe == Spec => []BaselineInv
<1>1. BaselineInv /\ [Next]_vars => BaselineInv'
  BY ExecuteInv, OutsideInv, StutterInv DEF Next
<1> QED
  BY InitInv, <1>1, PTL DEF Spec

(* An approved image is replaced by approvals only, unless runs under different base
   URLs adopt at once. *)
THEOREM ApprovalsLast == Spec => ApprovalLasts
<1> DEFINE Lasts ==
      \A b \in DOMAIN image :
          (\E i \in Rows(b) : baselines[i].approved) /\ image'[b] # image[b]
              => approval.at = "copy" \/ (Shared(b) /\ Adopting(b))
<1>1. ASSUME BaselineInv, [Next]_vars PROVE Lasts
  <2>1. CASE UNCHANGED image
    BY <2>1
  <2>2. CASE ApproveCopy
    BY <2>2 DEF ApproveCopy
  <2>3. ASSUME NEW r \in Run, AdoptObject(r) PROVE Lasts
    <3>1. image' = [image EXCEPT ![Browser[r]] = actual[r]] /\ at[r] = "adopt"
      BY <2>3 DEF AdoptObject, Go
    <3>2. \A b \in DOMAIN image : image'[b] # image[b] => b = Browser[r]
      BY <3>1 DEF BaselineInv, TypeOK
    <3>3. Shared(Browser[r]) \/ Rows(Browser[r]) = {}
      <4>1. LookedRight
        BY <1>1 DEF BaselineInv
      <4> QED
        BY <3>1, <4>1 DEF LookedRight
    <3>4. Adopting(Browser[r])
      BY <3>1 DEF Adopting
    <3> QED
      BY <3>2, <3>3, <3>4
  <2>4. UNCHANGED image \/ ApproveCopy \/ \E r \in Run : AdoptObject(r)
    <3>1. ASSUME NEW r \in Run, Execute(r), ~ AdoptObject(r) PROVE UNCHANGED image
      <4>1. CASE Begin(r) \/ LaunchFails(r) \/ Look(r) \/ PutActual(r) \/ AdoptRow(r) \/ Download(r) \/ Compare(r)
        BY <4>1 DEF Begin, LaunchFails, Look, PutActual, AdoptRow, Download, Compare, Store
      <4>2. CASE SinkFails(r) \/ Persist(r) \/ Commit(r) \/ Throw(r)
        BY <4>2 DEF SinkFails, Persist, Commit, Throw, Store
      <4>3. CASE Previous(r) \/ Return(r) \/ Redeliver(r)
        BY <4>3 DEF Previous, Return, Redeliver, Store
      <4>4. CASE Send(r)
        <5>1. PICK a \in local[r].left : \E arrives \in BOOLEAN : Deliver(r, a, arrives)
          BY <4>4 DEF Send
        <5> QED
          BY <5>1 DEF Deliver, Store
      <4> QED
        BY <3>1, <4>1, <4>2, <4>3, <4>4 DEF Execute
    <3>2. ASSUME User \/ Client, ~ ApproveCopy PROVE UNCHANGED image
      BY <3>2 DEF User, Client, Approve, ApproveMark, Ask, WaitForRun, ResultJson, ClientOnly, Store
    <3> QED
      BY <1>1, <3>1, <3>2 DEF Next, vars
  <2> QED
    BY <2>1, <2>2, <2>3, <2>4
<1>2. BaselineInv /\ [Next]_vars => [Lasts]_vars
  BY <1>1
<1>3. Spec => [][Lasts]_vars
  BY BaselineSafe, <1>2, PTL DEF Spec
<1> QED
  BY <1>3 DEF ApprovalLasts

-----------------------------------------------------------------------------
(* The verdicts are a sequence that only grows. *)
Verdicts == [run : Run, browser : DOMAIN image, status : Terminal]

LEMMA VerdictSeq ==
    ASSUME TypeOK
    PROVE  /\ verdicts \in [1 .. Len(verdicts) -> Verdicts] /\ verdicts \in Seq(Verdicts)
           /\ DOMAIN verdicts = 1 .. Len(verdicts) /\ Len(verdicts) \in Nat
<1>1. verdicts \in Seq(Verdicts)
  BY DEF TypeOK, Verdicts
<1> QED
  BY <1>1, LenProperties

LEMMA SettleAppends ==
    ASSUME TypeOK, NEW r \in Run, NEW s \in Terminal, Settle(r, s)
    PROVE  /\ Len(verdicts') = Len(verdicts) + 1
           /\ DOMAIN verdicts' = 1 .. Len(verdicts) + 1
           /\ \A i \in 1 .. Len(verdicts) : verdicts'[i] = verdicts[i]
           /\ verdicts'[Len(verdicts) + 1] = [run |-> r, browser |-> Browser[r], status |-> s]
           /\ row'[r] = [status |-> s, finished |-> Len(verdicts) + 1]
           /\ \A q \in Run \ {r} : row'[q] = row[q]
<1> DEFINE v == [run |-> r, browser |-> Browser[r], status |-> s]
<1>1. v \in Verdicts
  BY DEF TypeOK, Verdicts
<1>2. verdicts' = Append(verdicts, v)
  BY DEF Settle
<1>3. row'[r] = [status |-> s, finished |-> Len(verdicts) + 1] /\ \A q \in Run \ {r} : row'[q] = row[q]
  BY DEF Settle, TypeOK
<1> HIDE DEF v
<1>4. /\ Len(verdicts') = Len(verdicts) + 1
      /\ \A i \in 1 .. Len(verdicts) : verdicts'[i] = verdicts[i]
      /\ verdicts'[Len(verdicts) + 1] = v
      /\ verdicts' \in Seq(Verdicts)
  BY <1>1, <1>2, VerdictSeq, AppendProperties
<1>5. DOMAIN verdicts' = 1 .. Len(verdicts) + 1
  BY <1>4, LenProperties
<1>6. verdicts'[Len(verdicts) + 1] = [run |-> r, browser |-> Browser[r], status |-> s]
  BY <1>4 DEF v
<1> QED
  BY ONLY <1>3, <1>4, <1>5, <1>6

(* What a step does to the tables and the verdicts. *)
Settling(r) == (Commit(r) /\ Settle(r, local[r].check.status)) \/ (Throw(r) /\ Settle(r, "errored"))
LEMMA Footprint ==
    ASSUME NEW r \in Run, Execute(r)
    PROVE  /\ Settling(r) \/ UNCHANGED verdicts
           /\ Begin(r) \/ Settling(r) \/ UNCHANGED row
           /\ Begin(r) \/ Persist(r) \/ UNCHANGED step
           /\ UNCHANGED client
<1> USE DEF Tables, Alerted, Outside, Settling
<1>1. CASE Begin(r) \/ LaunchFails(r) \/ Look(r) \/ PutActual(r) \/ AdoptObject(r) \/ AdoptRow(r) \/ Download(r) \/ Compare(r)
  BY <1>1 DEF Begin, LaunchFails, Look, PutActual, AdoptObject, AdoptRow, Download, Compare
<1>2. CASE SinkFails(r) \/ Persist(r) \/ Previous(r) \/ Return(r) \/ Redeliver(r)
  BY <1>2 DEF SinkFails, Persist, Previous, Return, Redeliver
<1>3. CASE Commit(r) \/ Throw(r)
  BY <1>3 DEF Commit, Throw
<1>4. CASE Send(r)
  <2>1. PICK a \in local[r].left : \E arrives \in BOOLEAN : Deliver(r, a, arrives)
    BY <1>4 DEF Send
  <2> QED
    BY <2>1 DEF Deliver
<1> QED
  BY <1>1, <1>2, <1>3, <1>4 DEF Execute

LEMMA SettledTerminal ==
    ASSUME TypeOK, Checked, NEW r \in Run, Settling(r)
    PROVE  \E s \in Terminal :
             /\ Settle(r, s)
             /\ \/ Commit(r) /\ s = local[r].check.status /\ s \in {"passed", "failed", "errored"}
                \/ Throw(r) /\ s = "errored"
<1>1. CASE Throw(r) /\ Settle(r, "errored")
  BY <1>1 DEF Terminal
<1>2. CASE Commit(r) /\ Settle(r, local[r].check.status)
  <2>1. local[r].check.status \in {"passed", "failed", "errored"}
    BY <1>2 DEF Commit, Go, Checked, TypeOK, Locals, Checks
  <2>2. local[r].check.status \in Terminal
    BY <2>1 DEF Terminal
  <2> QED
    BY ONLY <1>2, <2>1, <2>2
<1> QED
  BY <1>1, <1>2 DEF Settling

(* Verdicts only come to those that are there. *)
LEMMA VerdictsKeep ==
    ASSUME TypeOK, Checked, NEW r \in Run, Execute(r)
    PROVE  /\ Len(verdicts) <= Len(verdicts') /\ Len(verdicts') \in Nat /\ DOMAIN verdicts' = 1 .. Len(verdicts')
           /\ \A i \in 1 .. Len(verdicts) : verdicts'[i] = verdicts[i]
           /\ \A i \in DOMAIN verdicts' : i \notin DOMAIN verdicts =>
                 verdicts'[i].run = r /\ verdicts'[i].browser = Browser[r] /\ row'[r].finished = i /\ Settling(r)
<1>1. CASE UNCHANGED verdicts
  BY <1>1, VerdictSeq
<1>2. CASE Settling(r)
  <2>1. PICK s \in Terminal : Settle(r, s)
    BY <1>2, SettledTerminal
  <2>2. /\ Len(verdicts') = Len(verdicts) + 1 /\ DOMAIN verdicts' = 1 .. Len(verdicts) + 1
        /\ \A i \in 1 .. Len(verdicts) : verdicts'[i] = verdicts[i]
        /\ verdicts'[Len(verdicts) + 1] = [run |-> r, browser |-> Browser[r], status |-> s]
        /\ row'[r] = [status |-> s, finished |-> Len(verdicts) + 1]
    BY <2>1, SettleAppends
  <2>3. Len(verdicts) \in Nat /\ DOMAIN verdicts = 1 .. Len(verdicts)
    BY VerdictSeq
  <2> QED
    BY ONLY <1>2, <2>2, <2>3
<1> QED
  BY <1>1, <1>2, Footprint

(* Each row follows its verdicts. *)
RowFollows(q) ==
    /\ \A i \in DOMAIN verdicts : verdicts[i].run = q => i <= row[q].finished
    /\ row[q].finished > 0 => verdicts[row[q].finished].run = q /\ row[q].status # "queued"
    /\ row[q].status \in Terminal =>
          row[q].finished > 0 /\ verdicts[row[q].finished].status = row[q].status
    /\ row[q].status \in {"passed", "failed"} => step[q].status = row[q].status

LEMMA RowsFollowExecute ==
    ASSUME TypeOK, Checked, RowsFollow, PlacesFollow, NEW r \in Run, Execute(r), UNCHANGED setup
    PROVE  RowsFollow'
<1>0. /\ Run' = Run /\ DOMAIN verdicts = 1 .. Len(verdicts) /\ Len(verdicts) \in Nat
      /\ \A q \in Run : row[q].finished \in 0 .. Len(verdicts)
  BY SetupKept, VerdictSeq DEF TypeOK
<1>1. \A q \in Run : RowFollows(q)
  BY DEF RowsFollow, RowFollows
<1>2. ASSUME NEW q \in Run, row'[q] = row[q], step'[q] = step[q] \/ row[q].status \notin {"passed", "failed"},
             \A i \in DOMAIN verdicts' \ DOMAIN verdicts : verdicts'[i].run # q
      PROVE  RowFollows(q)'
  <2>1. \A i \in 1 .. Len(verdicts) : verdicts'[i] = verdicts[i]
    BY VerdictsKeep
  <2>2. row[q].finished > 0 => row[q].finished \in 1 .. Len(verdicts)
    BY <1>0
  <2> QED
    BY <1>0, <1>1, <1>2, <2>1, <2>2 DEF RowFollows
<1>3. \A i \in DOMAIN verdicts' \ DOMAIN verdicts : verdicts'[i].run = r
  BY VerdictsKeep
<1>4. ASSUME NEW q \in Run \ {r} PROVE RowFollows(q)'
  <2>1. row'[q] = row[q]
    <3>1. CASE Begin(r)
      BY <3>1 DEF Begin, TypeOK
    <3>2. CASE Settling(r)
      BY <3>2, SettledTerminal, SettleAppends
    <3> QED
      BY <3>1, <3>2, Footprint
  <2>2. step'[q] = step[q]
    BY Footprint DEF Begin, Persist, TypeOK
  <2> QED
    BY <1>2, <1>3, <2>1, <2>2
<1>5. RowFollows(r)'
  <2>1. CASE Settling(r)
    <3>1. PICK s \in Terminal :
            /\ Settle(r, s)
            /\ \/ Commit(r) /\ s = local[r].check.status /\ s \in {"passed", "failed", "errored"}
               \/ Throw(r) /\ s = "errored"
      BY <2>1, SettledTerminal
    <3>2. /\ DOMAIN verdicts' = 1 .. Len(verdicts) + 1
          /\ verdicts'[Len(verdicts) + 1] = [run |-> r, browser |-> Browser[r], status |-> s]
          /\ row'[r] = [status |-> s, finished |-> Len(verdicts) + 1]
      BY <3>1, SettleAppends
    <3>3. s \in {"passed", "failed"} => step'[r].status = s
      <4>1. CASE Throw(r) /\ s = "errored"
        BY <4>1
      <4>2. CASE Commit(r) /\ s = local[r].check.status
        BY <4>2 DEF Commit, Go, PlacesFollow
      <4> QED
        BY <3>1, <4>1, <4>2
    <3> QED
      BY ONLY <1>0, <3>2, <3>3 DEF RowFollows, Terminal
  <2>2. CASE Begin(r)
    <3>1. /\ UNCHANGED verdicts
          /\ row'[r].status = "running" /\ row'[r].finished = row[r].finished
      BY <2>2 DEF Begin, TypeOK, Alerted
    <3> QED
      BY <1>1, <3>1 DEF RowFollows, Terminal
  <2>3. CASE Persist(r)
    <3>1. UNCHANGED verdicts /\ UNCHANGED row
      BY <2>3 DEF Persist, Alerted
    <3>2. row[r].status = "running"
      BY <2>3 DEF Persist, Go, PlacesFollow
    <3> QED
      BY <1>1, <3>1, <3>2 DEF RowFollows
  <2>4. CASE UNCHANGED << verdicts, row, step >>
    BY <1>1, <2>4 DEF RowFollows
  <2> QED
    BY <2>1, <2>2, <2>3, <2>4, Footprint
<1> QED
  BY <1>0, <1>4, <1>5 DEF RowsFollow, RowFollows

(* A verdict names its run's browser. *)
LEMMA OwnBrowserExecute ==
    ASSUME TypeOK, Checked, OwnBrowser, NEW r \in Run, Execute(r), UNCHANGED setup
    PROVE  OwnBrowser'
<1>1. Browser' = Browser /\ DOMAIN verdicts = 1 .. Len(verdicts)
  BY SetupKept, VerdictSeq
<1> QED
  BY <1>1, VerdictsKeep DEF OwnBrowser

(* A place goes with its row. *)
LEMMA PlacesFollowExecute ==
    ASSUME TypeOK, Checked, PlacesFollow, NEW r \in Run, Execute(r), UNCHANGED setup
    PROVE  PlacesFollow'
<1> DEFINE Fits(p, w, st, c) ==
      /\ p = "queued" => w # "running"
      /\ p \in {"alerts", "send"} => w = c.status
      /\ p \in {"alerts", "send", "done"} => w \in Terminal
      /\ p = "commit" => st = c \/ c.status = "errored"
      /\ p \notin {"queued", "alerts", "send", "done"} => w = "running"
<1>0. /\ Run' = Run /\ at \in [Run -> Places] /\ local \in [Run -> Locals] /\ step \in [Run -> Checks]
      /\ row \in [Run -> [status : Statuses, finished : 0 .. Len(verdicts)]]
  BY SetupKept DEF TypeOK
<1>1. \A q \in Run : Fits(at[q], row[q].status, step[q], local[q].check)
  BY DEF PlacesFollow
<1>2. ASSUME NEW q \in Run \ {r}
      PROVE  row'[q] = row[q] /\ step'[q] = step[q] /\ at'[q] = at[q] /\ local'[q] = local[q]
  <2>1. row'[q] = row[q]
    <3>1. CASE Begin(r)
      BY <3>1 DEF Begin, TypeOK
    <3>2. CASE Settling(r)
      BY <3>2, SettledTerminal, SettleAppends
    <3> QED
      BY <3>1, <3>2, Footprint
  <2>2. step'[q] = step[q]
    BY Footprint DEF Begin, Persist, TypeOK
  <2> QED
    BY <2>1, <2>2, OthersKept
<1>3. Fits(at'[r], row'[r].status, step'[r], local'[r].check)
  <2>1. CASE Settling(r)
    <3>1. PICK s \in Terminal :
            /\ Settle(r, s)
            /\ \/ Commit(r) /\ s = local[r].check.status /\ s \in {"passed", "failed", "errored"}
               \/ Throw(r) /\ s = "errored"
      BY <2>1, SettledTerminal
    <3>2. row'[r] = [status |-> s, finished |-> Len(verdicts) + 1]
      BY <3>1, SettleAppends
    <3>3. CASE Throw(r)
      <4>1. at'[r] = "done"
        BY <1>0, <3>3 DEF Throw
      <4> QED
        BY ONLY <3>1, <3>2, <4>1 DEF Terminal
    <3>4. CASE Commit(r) /\ s = local[r].check.status
      <4>1. at'[r] = "alerts" /\ local'[r] = local[r]
        BY <1>0, <3>4 DEF Commit, Go
      <4> QED
        BY ONLY <3>1, <3>2, <3>4, <4>1
    <3> QED
      BY <3>1, <3>3, <3>4
  <2>2. CASE Begin(r)
    <3>1. at'[r] = "look" /\ row'[r].status = "running"
      BY <1>0, <2>2 DEF Begin, Go
    <3> QED
      BY ONLY <3>1 DEF Terminal
  <2>3. CASE Persist(r)
    <3>1. at[r] = "persist" /\ at'[r] = "commit" /\ row' = row /\ step'[r] = local[r].check /\ local' = local
      BY <1>0, <2>3 DEF Persist, Go
    <3> QED
      BY <1>1, <3>1
  <2>4. CASE Look(r) \/ PutActual(r) \/ AdoptObject(r) \/ AdoptRow(r) \/ Download(r) \/ Compare(r) \/ SinkFails(r)
    <3>1. /\ at[r] \in {"look", "put", "adopt", "adoptRow", "download", "compare"}
          /\ at'[r] \in {"put", "adopt", "download", "adoptRow", "compare", "persist"}
          /\ row' = row
      <4>1. CASE Look(r) \/ PutActual(r) \/ AdoptObject(r)
        BY <1>0, <4>1 DEF Look, PutActual, AdoptObject, Go, Tables
      <4>2. CASE AdoptRow(r) \/ Download(r) \/ Compare(r) \/ SinkFails(r)
        BY <1>0, <4>2 DEF AdoptRow, Download, Compare, SinkFails, Go, Tables
      <4> QED
        BY <2>4, <4>1, <4>2
    <3> QED
      BY <1>1, <3>1
  <2>5. CASE Previous(r)
    <3>1. at[r] = "alerts" /\ at'[r] = "send" /\ UNCHANGED << row, step >>
      BY <1>0, <2>5 DEF Previous, Go, Tables
    <3>2. PICK b \in BOOLEAN :
            local' = [local EXCEPT ![r].changed = b, ![r].seen = Len(verdicts), ![r].left = Alerts]
      BY <2>5 DEF Previous
    <3>3. local'[r].check = local[r].check
      BY <1>0, <3>2 DEF Locals
    <3> QED
      BY <1>1, <3>1, <3>3
  <2>6. CASE Send(r)
    <3>1. PICK a \in local[r].left : \E arrives \in BOOLEAN : Deliver(r, a, arrives)
      BY <2>6 DEF Send
    <3>2. /\ UNCHANGED << row, step, at >> /\ at[r] = "send"
          /\ local' = [local EXCEPT ![r].left = @ \ {a}]
      BY <3>1 DEF Deliver, Tables
    <3>3. local'[r].check = local[r].check
      BY <1>0, <3>2 DEF Locals
    <3> QED
      BY <1>1, <3>2, <3>3
  <2>7. CASE Return(r) \/ Redeliver(r)
    <3>1. /\ at[r] \in {"alerts", "send", "done"} /\ UNCHANGED row
          /\ at'[r] \in {"done", "queued"}
      BY <1>0, <2>7 DEF Return, Redeliver, Go, Tables
    <3> QED
      BY <1>1, <3>1 DEF Terminal
  <2>8. CASE LaunchFails(r)
    <3> DEFINE c == [NoStep EXCEPT !.status = "errored"]
    <3>1. /\ at[r] = "look" /\ at'[r] = "commit" /\ row' = row
          /\ local' = [local EXCEPT ![r].check = c]
      BY <1>0, <2>8 DEF LaunchFails, Go, Tables
    <3>2. c.status = "errored"
      BY DEF NoStep
    <3> HIDE DEF c
    <3>3. local'[r].check.status = "errored"
      BY <1>0, <3>1, <3>2 DEF Locals
    <3> QED
      BY <1>1, <3>1, <3>3
  <2>9. Settling(r) <=> Commit(r) \/ Throw(r)
    BY DEF Settling, Commit, Throw
  <2> QED
    BY <2>1, <2>2, <2>3, <2>4, <2>5, <2>6, <2>7, <2>8, <2>9 DEF Execute
<1>4. ASSUME NEW q \in Run PROVE Fits(at'[q], row'[q].status, step'[q], local'[q].check)
  <2>1. CASE q = r
    BY <1>3, <2>1
  <2>2. CASE q # r
    BY <1>1, <1>2, <2>2
  <2> QED
    BY <2>1, <2>2
<1> QED
  BY <1>0, <1>4 DEF PlacesFollow

(* A run that was opened again stays so. *)
LEMMA ReopenedStays ==
    ASSUME TypeOK, Checked, RowsFollow, PlacesFollow, NEW r \in Run, Execute(r), UNCHANGED setup,
           NEW q \in Run, Reopened(q)
    PROVE  Reopened(q)'
<1>0. /\ at \in [Run -> Places] /\ Len(verdicts) \in Nat /\ DOMAIN verdicts = 1 .. Len(verdicts)
      /\ \A i \in 1 .. Len(verdicts) : verdicts'[i] = verdicts[i]
      /\ DOMAIN verdicts' = 1 .. Len(verdicts') /\ Len(verdicts) <= Len(verdicts') /\ Len(verdicts') \in Nat
      /\ row[q].finished \in 0 .. Len(verdicts)
  BY VerdictSeq, VerdictsKeep DEF TypeOK
<1>1. CASE \E i, j \in DOMAIN verdicts : i < j /\ verdicts[i].run = q /\ verdicts[j].run = q
  BY <1>0, <1>1 DEF Reopened
<1>2. CASE row[q].finished > 0 /\ (at[q] = "queued" \/ row[q].status = "running")
  <2>1. CASE q = r /\ Settling(r)
    <3>1. /\ DOMAIN verdicts' = 1 .. Len(verdicts) + 1
          /\ verdicts'[Len(verdicts) + 1].run = r
      <4>1. PICK s \in Terminal : Settle(r, s)
        BY <2>1, SettledTerminal
      <4>2. /\ DOMAIN verdicts' = 1 .. Len(verdicts) + 1
            /\ verdicts'[Len(verdicts) + 1] = [run |-> r, browser |-> Browser[r], status |-> s]
        BY <4>1, SettleAppends
      <4> QED
        BY <4>2
    <3>2. verdicts'[row[r].finished].run = r /\ row[r].finished \in 1 .. Len(verdicts)
      BY <1>0, <1>2, <2>1 DEF RowsFollow
    <3> QED
      BY <1>0, <2>1, <3>1, <3>2 DEF Reopened
  <2>2. CASE Begin(r) /\ q = r
    <3>1. row'[r].status = "running" /\ row'[r].finished = row[r].finished
      BY <2>2 DEF Begin, TypeOK
    <3> QED
      BY <1>2, <2>2, <3>1 DEF Reopened
  <2>3. CASE q = r /\ UNCHANGED row
    <3>1. CASE row[q].status = "running"
      BY <1>2, <2>3, <3>1 DEF Reopened
    <3>2. CASE row[q].status # "running" /\ at[q] = "queued"
      <4>1. Begin(r)
        BY <2>3, <3>2 DEF Execute, LaunchFails, Look, PutActual, AdoptObject, AdoptRow, Download, Compare, SinkFails,
                          Persist, Commit, Throw, Previous, Send, Deliver, Return, Redeliver, Go
      <4> QED
        BY <2>2, <2>3, <4>1
    <3> QED
      BY <1>2, <3>1, <3>2
  <2>4. CASE q # r
    <3>1. row'[q] = row[q]
      <4>1. CASE Begin(r)
        BY <2>4, <4>1 DEF Begin, TypeOK
      <4>2. CASE Settling(r)
        BY <2>4, <4>2, SettledTerminal, SettleAppends
      <4> QED
        BY <4>1, <4>2, Footprint
    <3>2. at'[q] = at[q]
      BY <2>4, OthersKept
    <3> QED
      BY <1>2, <3>1, <3>2 DEF Reopened
  <2> QED
    BY <2>1, <2>2, <2>3, <2>4, Footprint
<1> QED
  BY <1>1, <1>2 DEF Reopened

(* The call's answer, through the steps of the executions. *)
LEMMA AnswerExecute ==
    ASSUME TypeOK, Checked, AnswerInv, NEW r \in Run, Execute(r), UNCHANGED setup
    PROVE  ReadOnce' /\ AnswerExplained'
<1>0. Run' = Run /\ UNCHANGED client
  BY SetupKept, Footprint
<1>1. CASE client.at = "idle"
  BY <1>0, <1>1 DEF AnswerInv, ReadOnce, AnswerExplained
<1>2. CASE client.at # "idle"
  <2>1. client.run \in Run
    BY <1>2 DEF AnswerInv, ReadOnce
  <2>2. Reopened(client.run) => Reopened(client.run)'
    <3>1. ASSUME NEW q \in Run, q = client.run, Reopened(q) PROVE Reopened(q)'
      BY <3>1, ReopenedStays DEF AnswerInv
    <3> QED
      BY <1>0, <2>1, <3>1 DEF Reopened
  <2>3. AnswerExplained'
    BY <1>0, <2>2 DEF AnswerInv, AnswerExplained
  <2>4. ASSUME client.at = "steps", ~ Reopened(client.run)', client.status \in {"passed", "failed"}
        PROVE  row'[client.run].status = client.status
    <3> DEFINE q == client.run
    <3>1. row[q].status = client.status /\ q \in Run
      BY <2>1, <2>2, <2>4 DEF AnswerInv, ReadOnce
    <3>2. /\ row[q].finished > 0 /\ row[q].finished \in 1 .. Len(verdicts)
          /\ verdicts[row[q].finished].run = q
      BY <2>4, <3>1, VerdictSeq DEF AnswerInv, RowsFollow, Terminal, TypeOK
    <3>3. CASE Begin(r) /\ q = r
      <4>1. row'[q].status = "running" /\ row'[q].finished = row[q].finished
        BY <3>1, <3>3 DEF Begin, TypeOK
      <4>2. Reopened(client.run)'
        BY <1>0, <3>2, <4>1 DEF Reopened
      <4> QED
        BY <2>4, <4>2
    <3>4. CASE Settling(r) /\ q = r
      <4>1. PICK s \in Terminal : Settle(r, s)
        BY <3>4, SettledTerminal
      <4>2. /\ DOMAIN verdicts' = 1 .. Len(verdicts) + 1 /\ Len(verdicts) \in Nat
            /\ \A i \in 1 .. Len(verdicts) : verdicts'[i] = verdicts[i]
            /\ verdicts'[Len(verdicts) + 1] = [run |-> r, browser |-> Browser[r], status |-> s]
        BY <4>1, SettleAppends, VerdictSeq
      <4>3. verdicts'[Len(verdicts) + 1].run = q /\ verdicts'[row[q].finished].run = q
        BY <3>2, <3>4, <4>2
      <4>4. Reopened(client.run)'
        BY <1>0, <3>2, <4>2, <4>3 DEF Reopened
      <4> QED
        BY <2>4, <4>4
    <3>5. CASE q # r
      <4>1. CASE Begin(r)
        BY <3>1, <3>5, <4>1 DEF Begin, TypeOK
      <4>2. CASE Settling(r)
        <5>1. PICK s \in Terminal : Settle(r, s)
          BY <4>2, SettledTerminal
        <5>2. \A p \in Run \ {r} : row'[p] = row[p]
          BY <5>1, SettleAppends
        <5> QED
          BY ONLY <3>1, <3>5, <5>2
      <4> QED
        BY <3>1, <4>1, <4>2, Footprint
    <3> QED
      BY <3>1, <3>3, <3>4, <3>5, Footprint
  <2>5. ReadOnce'
    <3>1. Locals' = Locals /\ Statuses' = Statuses /\ Checks' = Checks
      BY SetupKept DEF Statuses, Checks, Terminal
    <3> QED
      BY <1>0, <2>4, <3>1 DEF AnswerInv, ReadOnce
  <2> QED
    BY <2>3, <2>5
<1> QED
  BY <1>1, <1>2

(* What the users and the call leave alone. *)
LEMMA OutsideKeeps ==
    ASSUME User \/ Client
    PROVE  UNCHANGED << row, step, at, local, incident, told, verdicts, faults >>
BY DEF User, Client, Approve, ApproveCopy, ApproveMark, Ask, WaitForRun, ResultJson, ClientOnly, Tables, Alerted

LEMMA AnswerOutside ==
    ASSUME TypeOK, AnswerInv, User \/ Client, UNCHANGED setup
    PROVE  AnswerInv'
<1>0. /\ UNCHANGED << row, step, at, local, verdicts >>
      /\ Run' = Run /\ Browser' = Browser
  BY SetupKept, OutsideKeeps
<1>1. RowsFollow' /\ OwnBrowser' /\ PlacesFollow'
  BY <1>0 DEF AnswerInv, RowsFollow, OwnBrowser, PlacesFollow
<1>2. \A q : Reopened(q)' <=> Reopened(q)
  BY <1>0 DEF Reopened
<1> DEFINE Asked == [at : {"wait", "row", "steps", "answered"}, run : Run, status : Statuses \cup {"none"},
                     steps : Checks, late : BOOLEAN]
<1>3. client \in [at : {"idle"}] \cup Asked
  BY DEF AnswerInv, ReadOnce
<1>4. CASE UNCHANGED client
  BY <1>0, <1>1, <1>2, <1>4 DEF AnswerInv, ReadOnce, AnswerExplained, Reopened
<1>5. ASSUME NEW r \in Run, Ask(r) PROVE AnswerInv'
  <2>1. NoStep \in Checks
    BY DEF NoStep, Checks
  <2>2. client' \in Asked /\ client'.at = "wait"
    BY <1>5, <2>1 DEF Ask
  <2> QED
    BY <1>0, <1>1, <2>2 DEF AnswerInv, ReadOnce, AnswerExplained
<1>6. CASE WaitForRun
  <2>1. client' \in Asked /\ client'.at = "row"
    BY <1>3, <1>6 DEF WaitForRun
  <2> QED
    BY <1>0, <1>1, <2>1 DEF AnswerInv, ReadOnce, AnswerExplained
<1>7. CASE ResultJson
  <2>1. client.run \in Run /\ client.at # "idle"
    BY <1>3, <1>7 DEF ResultJson
  <2>2. CASE client.at = "row"
    <3>1. client' = [client EXCEPT !.at = "steps", !.status = row[client.run].status]
      BY <1>7, <2>2 DEF ResultJson
    <3>2. row[client.run].status \in Statuses
      BY <2>1 DEF TypeOK
    <3>3. client' \in Asked /\ client'.at = "steps" /\ client'.run = client.run /\ client'.status = row[client.run].status
      BY <1>3, <2>2, <3>1, <3>2
    <3> QED
      BY <1>0, <1>1, <3>3 DEF AnswerInv, ReadOnce, AnswerExplained
  <2>3. CASE client.at = "steps"
    <3>1. client' = [client EXCEPT !.at = "answered", !.steps = step[client.run]]
      BY <1>7, <2>3 DEF ResultJson
    <3>2. step[client.run] \in Checks
      BY <2>1 DEF TypeOK
    <3>3. /\ client' \in Asked /\ client'.at = "answered" /\ client'.run = client.run
          /\ client'.steps = step[client.run] /\ client'.status = client.status
      BY <1>3, <2>3, <3>1, <3>2
    <3>4. ~ Reopened(client.run) /\ client.status \in {"passed", "failed"} => step[client.run].status = client.status
      BY <2>1, <2>3 DEF AnswerInv, ReadOnce, RowsFollow
    <3>5. AnswerExplained'
      BY <1>0, <1>2, <3>3, <3>4 DEF AnswerExplained, Reopened
    <3>6. ReadOnce'
      BY <1>0, <3>3 DEF ReadOnce
    <3> QED
      BY <1>1, <3>5, <3>6 DEF AnswerInv
  <2> QED
    BY <1>7, <2>2, <2>3 DEF ResultJson
<1> QED
  BY <1>4, <1>5, <1>6, <1>7 DEF User, Client, Approve, ApproveCopy, ApproveMark

LEMMA AnswerStep == BaselineInv /\ AnswerInv /\ [Next]_vars => AnswerInv'
<1> SUFFICES ASSUME BaselineInv, AnswerInv, [Next]_vars PROVE AnswerInv'
  OBVIOUS
<1>1. TypeOK /\ Checked
  BY DEF BaselineInv
<1>2. ASSUME NEW r \in Run, Execute(r), UNCHANGED setup PROVE AnswerInv'
  <2>1. RowsFollow' /\ OwnBrowser' /\ PlacesFollow'
    BY <1>1, <1>2, RowsFollowExecute, OwnBrowserExecute, PlacesFollowExecute DEF AnswerInv
  <2>2. ReadOnce' /\ AnswerExplained'
    BY <1>1, <1>2, AnswerExecute
  <2> QED
    BY <2>1, <2>2 DEF AnswerInv
<1>3. CASE (User \/ Client) /\ UNCHANGED setup
  BY <1>1, <1>3, AnswerOutside
<1>4. CASE UNCHANGED vars
  <2>1. UNCHANGED << row, step, at, local, verdicts, client >> /\ Run' = Run /\ Browser' = Browser
    BY <1>4 DEF vars, Run, Browser
  <2> QED
    BY <2>1 DEF AnswerInv, RowsFollow, OwnBrowser, PlacesFollow, ReadOnce, AnswerExplained, Reopened
<1> QED
  BY <1>2, <1>3, <1>4 DEF Next

LEMMA AnswerInit == Init => AnswerInv
<1> SUFFICES ASSUME Init PROVE AnswerInv
  OBVIOUS
<1>1. RowsFollow /\ OwnBrowser /\ PlacesFollow
  BY DEF Init, RowsFollow, OwnBrowser, PlacesFollow, Terminal
<1> QED
  BY <1>1 DEF Init, AnswerInv, ReadOnce, AnswerExplained

(* The two reads of the REST call tell of one moment, whatever the executions do in
   between, unless its run is delivered again. *)
THEOREM AnswersExplained == Spec => []AnswerExplained
<1>1. Spec => []AnswerInv
  BY BaselineSafe, AnswerInit, AnswerStep, PTL DEF Spec
<1>2. AnswerInv => AnswerExplained
  BY DEF AnswerInv
<1> QED
  BY <1>1, <1>2, PTL

-----------------------------------------------------------------------------
(* Sets of natural numbers have a least element, bounded ones a largest. *)
LEMMA MinNat ==
    ASSUME NEW S, S \subseteq Nat, S # {}
    PROVE  \E x \in S : \A y \in S : x <= y
<1> DEFINE R == OpToRel(<, Nat)
<1>1. IsWellFoundedOn(R, Nat)
  BY NatLessThanWellFounded
<1>2. \A x, y \in Nat : y < x => << y, x >> \in R
  BY DEF OpToRel
<1> HIDE DEF R
<1>3. PICK x \in S : \A y \in S : ~ (<< y, x >> \in R)
  BY <1>1, WFMin
<1>4. \A y \in S : ~ (y < x) /\ x \in Nat /\ y \in Nat
  BY <1>2, <1>3
<1> QED
  BY <1>3, <1>4

LEMMA MaxNat ==
    ASSUME NEW n \in Nat, NEW S, S \subseteq 1 .. n, S # {}
    PROVE  \E x \in S : \A y \in S : y <= x
<1> DEFINE T == {n - x : x \in S}
<1>1. T \subseteq Nat
  <2>1. \A x \in 1 .. n : n - x \in Nat
    OBVIOUS
  <2> QED
    BY <2>1
<1>2. T # {}
  OBVIOUS
<1>3. PICK t \in T : \A u \in T : t <= u
  <2> HIDE DEF T
  <2> QED
    BY <1>1, <1>2, MinNat
<1>4. PICK x \in S : t = n - x
  OBVIOUS
<1>5. \A y \in S : n - x <= n - y /\ x \in 1 .. n /\ y \in 1 .. n
  BY <1>3, <1>4
<1> QED
  BY <1>4, <1>5

-----------------------------------------------------------------------------
(* What a comparison was about stays as it was. *)
LEMMA ForetoldKept ==
    ASSUME TypeOK, Checked, AnswerInv, NEW r \in Run, Execute(r), UNCHANGED setup,
           NEW q \in Run, NEW seen, NEW changed, Foretold(q, seen, changed)
    PROVE  Foretold(q, seen, changed)'
<1>0. /\ Run' = Run /\ Browser' = Browser /\ Len(verdicts) \in Nat
      /\ Len(verdicts) <= Len(verdicts') /\ Len(verdicts') \in Nat
      /\ \A i \in 1 .. Len(verdicts) : verdicts'[i] = verdicts[i]
  BY SetupKept, VerdictSeq, VerdictsKeep
<1>1. seen \in 1 .. Len(verdicts) /\ seen \in 1 .. Len(verdicts')
  BY <1>0 DEF Foretold
<1>2. \A i \in 1 .. seen : verdicts'[i] = verdicts[i] /\ (Other(q, i)' <=> Other(q, i))
  BY <1>0, <1>1 DEF Other
<1>3. (\A p \in Run : ~ Reopened(p))' => (\A p \in Run : ~ Reopened(p))
  BY <1>0, ReopenedStays DEF AnswerInv
<1>4. PICK m \in 1 .. seen :
        /\ verdicts[m].run = q /\ \A j \in m + 1 .. seen : verdicts[j].run # q
        /\ (\A j \in m + 1 .. seen : ~ Other(q, j)) /\ (\A p \in Run : ~ Reopened(p))
              => (changed <=> Differs(q, m))
  BY DEF Foretold
<1>5. Differs(q, m)' <=> Differs(q, m)
  <2>1. \A i \in 1 .. m - 1 : i \in 1 .. seen /\ \A j \in i + 1 .. m - 1 : j \in 1 .. seen
    BY <1>1
  <2> QED
    BY <1>2, <2>1 DEF Differs
<1>6. \A j \in m + 1 .. seen : j \in 1 .. seen
  BY <1>1
<1> QED
  BY <1>1, <1>2, <1>3, <1>4, <1>5, <1>6 DEF Foretold

(* What Previous finds is the verdict before the run's own. *)
LEMMA ForetoldPrevious ==
    ASSUME TypeOK, AnswerInv, NEW r \in Run, at[r] = "alerts"
    PROVE  Foretold(r, Len(verdicts),
                    Prior(r) # {} /\ row[Latest(Prior(r))].status # local[r].check.status)
<1> DEFINE n == Len(verdicts)
           m == row[r].finished
           s == Latest(Prior(r))
           changed == Prior(r) # {} /\ row[s].status # local[r].check.status
<1>0. /\ n \in Nat /\ DOMAIN verdicts = 1 .. n
      /\ \A q \in Run : row[q].finished \in 0 .. n /\ row[q].status \in Statuses
      /\ \A i \in 1 .. n : verdicts[i].run \in Run
  BY VerdictSeq DEF TypeOK, Verdicts
<1>1. /\ m \in 1 .. n /\ verdicts[m].run = r /\ verdicts[m].status = local[r].check.status
      /\ \A j \in m + 1 .. n : verdicts[j].run # r
  BY <1>0 DEF AnswerInv, RowsFollow, PlacesFollow
<1> SUFFICES ASSUME \A j \in m + 1 .. n : ~ Other(r, j), \A q \in Run : ~ Reopened(q)
             PROVE  changed <=> Differs(r, m)
  BY <1>1 DEF Foretold
<1>2. ASSUME NEW q \in Prior(r)
      PROVE  /\ row[q].finished \in 1 .. m - 1 /\ Other(r, row[q].finished)
             /\ verdicts[row[q].finished].status = row[q].status
  <2>1. q \in Run /\ q # r /\ Browser[q] = Browser[r] /\ row[q].finished \in 1 .. n
    BY <1>0 DEF Prior
  <2>2. verdicts[row[q].finished].run = q /\ row[q].status # "queued"
    BY <2>1 DEF AnswerInv, RowsFollow
  <2>3. row[q].status # "running"
    BY <2>1 DEF Reopened
  <2>4. row[q].status \in Terminal
    BY <1>0, <2>1, <2>2, <2>3 DEF Statuses
  <2>5. verdicts[row[q].finished].status = row[q].status
    BY <2>1, <2>4 DEF AnswerInv, RowsFollow
  <2>6. Other(r, row[q].finished)
    BY <1>0, <2>1, <2>2 DEF Other, AnswerInv, OwnBrowser
  <2>7. row[q].finished # m /\ row[q].finished \notin m + 1 .. n
    BY <1>1, <2>1, <2>2, <2>6
  <2> QED
    BY <1>0, <1>1, <2>1, <2>5, <2>6, <2>7
<1>3. ASSUME NEW i \in 1 .. m - 1, Other(r, i)
      PROVE  \E q \in Prior(r) : i <= row[q].finished
  <2>1. i \in 1 .. n
    BY <1>0, <1>1
  <2>2. verdicts[i].run \in Run /\ i <= row[verdicts[i].run].finished
    BY <1>0, <2>1 DEF AnswerInv, RowsFollow
  <2>3. Browser[verdicts[i].run] = Browser[r] /\ verdicts[i].run # r
    BY <1>0, <1>3, <2>1 DEF Other, AnswerInv, OwnBrowser
  <2>4. row[verdicts[i].run].finished > 0
    BY <1>0, <2>1, <2>2
  <2> QED
    BY <2>2, <2>3, <2>4 DEF Prior
<1>4. CASE Prior(r) = {}
  BY <1>3, <1>4 DEF Differs
<1>5. CASE Prior(r) # {}
  <2>1. s \in Prior(r) /\ \A o \in Prior(r) : row[o].finished <= row[s].finished
    <3> DEFINE S == {row[q].finished : q \in Prior(r)}
    <3>1. S \subseteq 1 .. n /\ S # {}
      BY <1>0, <1>1, <1>2, <1>5
    <3> HIDE DEF S
    <3>2. PICK x \in S : \A y \in S : y <= x
      BY <1>0, <3>1, MaxNat
    <3> USE DEF S
    <3>3. PICK q \in Prior(r) : x = row[q].finished
      OBVIOUS
    <3>4. \A o \in Prior(r) : row[o].finished <= row[q].finished
      BY <3>2, <3>3
    <3> QED
      BY ONLY <3>4 DEF Latest
  <2> DEFINE p == row[s].finished
  <2> HIDE DEF s
  <2>2. p \in 1 .. m - 1 /\ Other(r, p) /\ verdicts[p].status = row[s].status
    BY <1>2, <2>1
  <2>3. \A i \in 1 .. m - 1 : Other(r, i) => i <= p
    <3> SUFFICES ASSUME NEW i \in 1 .. m - 1, Other(r, i) PROVE i <= p
      OBVIOUS
    <3>1. PICK q \in Prior(r) : i <= row[q].finished
      BY <1>3
    <3>2. row[q].finished <= p /\ row[q].finished \in 1 .. m - 1
      BY <1>2, <2>1
    <3> QED
      BY <1>0, <1>1, <2>2, <3>1, <3>2
  <2> HIDE DEF p
  <2>4. m \in Nat
    BY <1>0, <1>1
  <2> HIDE DEF m
  <2>5. Differs(r, m) <=> verdicts[p].status # verdicts[m].status
    <3>1. ASSUME Differs(r, m) PROVE verdicts[p].status # verdicts[m].status
      <4>1. PICK i \in 1 .. m - 1 : /\ Other(r, i) /\ verdicts[i].status # verdicts[m].status
                                   /\ \A j \in i + 1 .. m - 1 : ~ Other(r, j)
        BY <3>1 DEF Differs
      <4>2. i = p
        BY <2>2, <2>3, <2>4, <4>1
      <4> QED
        BY <4>1, <4>2
    <3>2. ASSUME verdicts[p].status # verdicts[m].status PROVE Differs(r, m)
      <4>1. \A j \in p + 1 .. m - 1 : ~ Other(r, j)
        BY <2>2, <2>3, <2>4
      <4> QED
        BY <2>2, <3>2, <4>1 DEF Differs
    <3> QED
      BY <3>1, <3>2
  <2> QED
    BY <1>1, <1>5, <2>2, <2>5
<1> QED
  BY <1>4, <1>5

(* What an execution holds of its comparison, from the comparison to its end. *)
LEMMA HeldKept ==
    ASSUME TypeOK, NEW r \in Run, Execute(r), ~ Begin(r), ~ Previous(r)
    PROVE  /\ local'[r].seen = local[r].seen /\ local'[r].changed = local[r].changed
           /\ local'[r].left = local[r].left \/ Send(r)
<1> USE DEF Go
<1>0. local \in [Run -> Locals]
  BY DEF TypeOK
<1>1. ASSUME NEW c, local' = [local EXCEPT ![r].check = c]
      PROVE  /\ local'[r].seen = local[r].seen /\ local'[r].changed = local[r].changed
             /\ local'[r].left = local[r].left
  BY <1>0, <1>1 DEF Locals
<1>2. CASE LaunchFails(r) \/ AdoptRow(r) \/ SinkFails(r) \/ Compare(r)
  <2>1. \E c : local' = [local EXCEPT ![r].check = c]
    BY <1>2 DEF LaunchFails, AdoptRow, SinkFails, Compare
  <2> QED
    BY <1>1, <2>1
<1>3. CASE Look(r)
  BY <1>0, <1>3 DEF Look, Locals
<1>4. CASE Download(r)
  BY <1>0, <1>4 DEF Download, Locals
<1>5. CASE PutActual(r) \/ AdoptObject(r) \/ Persist(r) \/ Commit(r) \/ Throw(r) \/ Return(r) \/ Redeliver(r)
  BY <1>5 DEF PutActual, AdoptObject, Persist, Commit, Throw, Return, Redeliver
<1>6. CASE Send(r)
  <2>1. PICK a \in local[r].left : \E arrives \in BOOLEAN : Deliver(r, a, arrives)
    BY <1>6 DEF Send
  <2>2. local' = [local EXCEPT ![r].left = @ \ {a}]
    BY <2>1 DEF Deliver
  <2> QED
    BY <1>0, <1>6, <2>2 DEF Locals
<1> QED
  BY <1>2, <1>3, <1>4, <1>5, <1>6 DEF Execute

(* Only a delivery tells. *)
LEMMA ToldKept ==
    ASSUME NEW r \in Run, Execute(r), ~ Send(r)
    PROVE  UNCHANGED told
<1> USE DEF Alerted
<1>1. CASE Begin(r) \/ LaunchFails(r) \/ Look(r) \/ PutActual(r) \/ AdoptObject(r) \/ AdoptRow(r) \/ Download(r)
  BY <1>1 DEF Begin, LaunchFails, Look, PutActual, AdoptObject, AdoptRow, Download
<1>2. CASE Compare(r) \/ SinkFails(r) \/ Persist(r) \/ Commit(r) \/ Throw(r) \/ Previous(r) \/ Return(r) \/ Redeliver(r)
  BY <1>2 DEF Compare, SinkFails, Persist, Commit, Throw, Previous, Return, Redeliver
<1> QED
  BY <1>1, <1>2 DEF Execute

(* What a comparison found stays as it was found. *)
LEMMA ChangeExecute ==
    ASSUME TypeOK, Checked, AnswerInv, ChangeInv, SendInv, NEW r \in Run, Execute(r), UNCHANGED setup
    PROVE  ChangeInv'
<1>0. Run' = Run /\ at \in [Run -> Places] /\ local \in [Run -> Locals]
  BY SetupKept DEF TypeOK
<1>1. ASSUME NEW q \in Run, NEW seen, NEW changed, Foretold(q, seen, changed)
      PROVE  Foretold(q, seen, changed)'
  BY <1>1, ForetoldKept
<1>2. ASSUME NEW q \in Run, local'[q].seen > 0
      PROVE  \E seen, changed : seen = local'[q].seen /\ changed = local'[q].changed /\ Foretold(q, seen, changed)
  <2>1. CASE q # r
    <3>1. local'[q] = local[q]
      BY <2>1, OthersKept
    <3>2. Foretold(q, local[q].seen, local[q].changed)
      BY <1>2, <3>1 DEF ChangeInv, ComparedAt
    <3> QED
      BY <3>1, <3>2
  <2>2. CASE q = r /\ Previous(r)
    <3> DEFINE c == Prior(r) # {} /\ row[Latest(Prior(r))].status # local[r].check.status
    <3>1. at[r] = "alerts" /\ local' = [local EXCEPT ![r].changed = c, ![r].seen = Len(verdicts), ![r].left = Alerts]
      BY <2>2 DEF Previous, Go
    <3>2. Foretold(r, Len(verdicts), c)
      BY <3>1, ForetoldPrevious
    <3> HIDE DEF c
    <3>3. local'[r].seen = Len(verdicts) /\ local'[r].changed = c
      BY <1>0, <3>1 DEF Locals
    <3> QED
      BY <2>2, <3>2, <3>3
  <2>3. CASE q = r /\ Begin(r)
    <3>1. local'[r].seen = 0
      BY <1>0, <2>3 DEF Begin, NoLocal
    <3> QED
      BY <1>2, <2>3, <3>1
  <2>4. CASE q = r /\ ~ Begin(r) /\ ~ Previous(r)
    <3>1. local'[r].seen = local[r].seen /\ local'[r].changed = local[r].changed
      BY <2>4, HeldKept
    <3>2. Foretold(r, local[r].seen, local[r].changed)
      BY <1>2, <2>4, <3>1 DEF ChangeInv, ComparedAt
    <3> QED
      BY <2>4, <3>1, <3>2
  <2> QED
    BY <2>1, <2>2, <2>3, <2>4
<1>3. ASSUME NEW t \in told'
      PROVE  \E q, seen : /\ q = t.run /\ seen = t.seen /\ q \in Run
                          /\ \E c \in BOOLEAN : Foretold(q, seen, c)
  <2>1. CASE t \in told
    BY <2>1 DEF ChangeInv
  <2>2. CASE t \notin told
    <3>1. Send(r)
      BY <2>2, ToldKept
    <3>2. PICK a \in local[r].left, arrives \in BOOLEAN : Deliver(r, a, arrives)
      BY <3>1 DEF Send
    <3>3. at[r] = "send" /\ t.run = r /\ t.seen = local[r].seen
      BY <2>2, <3>2 DEF Deliver
    <3>4. Foretold(r, local[r].seen, local[r].changed) /\ local[r].changed \in BOOLEAN
      BY <1>0, <3>3 DEF ChangeInv, SendInv, ComparedAt, Locals
    <3> QED
      BY <3>3, <3>4
  <2> QED
    BY <2>1, <2>2
<1>4. ASSUME NEW q \in Run, local'[q].seen > 0 PROVE Foretold(q, local[q].seen, local[q].changed)'
  <2>1. PICK seen, changed : seen = local'[q].seen /\ changed = local'[q].changed /\ Foretold(q, seen, changed)
    BY <1>2, <1>4
  <2>2. Foretold(q, seen, changed)'
    BY <1>1, <2>1
  <2> QED
    BY <2>1, <2>2 DEF Foretold
<1>5. ASSUME NEW t \in told' PROVE t.run \in Run /\ \E c \in BOOLEAN : Foretold(t.run, t.seen, c)'
  <2>1. PICK q, seen : /\ q = t.run /\ seen = t.seen /\ q \in Run
                       /\ \E c \in BOOLEAN : Foretold(q, seen, c)
    BY <1>3
  <2>2. PICK c \in BOOLEAN : Foretold(q, seen, c)
    BY <2>1
  <2>3. Foretold(q, seen, c)'
    BY <1>1, <2>1, <2>2
  <2> QED
    BY <2>1, <2>3
<1> QED
  BY <1>0, <1>4, <1>5 DEF ChangeInv, ComparedAt

(* A run that something was told of has a verdict. *)
LEMMA ToldSettled ==
    ASSUME TypeOK, AnswerInv, ChangeInv, NEW t \in told
    PROVE  t.run \in Run /\ row[t.run].finished > 0
<1>1. t.run \in Run /\ \E c \in BOOLEAN : Foretold(t.run, t.seen, c)
  BY DEF ChangeInv
<1>2. PICK m \in 1 .. Len(verdicts) : verdicts[m].run = t.run
  BY <1>1, VerdictSeq DEF Foretold
<1>3. m <= row[t.run].finished /\ row[t.run].finished \in 0 .. Len(verdicts)
  BY <1>1, <1>2, VerdictSeq DEF AnswerInv, RowsFollow, TypeOK
<1> QED
  BY <1>1, <1>2, <1>3, VerdictSeq

(* What an execution says of itself, while it tells and afterwards. *)
Telling(r) ==
    /\ at[r] = "send" => ComparedAt(r) > 0
    /\ at[r] \notin {"queued", "send", "done"} => ComparedAt(r) = 0
    /\ at[r] \notin {"queued", "send"} => local[r].left = {}
Heard(r) ==
    \A a \in Alerts : ComparedAt(r) > 0 /\ OfChange(a) /\ ~ Reopened(r)
        => (ToldOf(r, a) <=> a \notin local[r].left /\ local[r].changed)

LEMMA SendExecute ==
    ASSUME TypeOK, Checked, AnswerInv, ChangeInv, SendInv, NEW r \in Run, Execute(r), UNCHANGED setup
    PROVE  SendInv'
<1>0. /\ Run' = Run /\ Alerts' = Alerts /\ at \in [Run -> Places] /\ local \in [Run -> Locals]
      /\ \A q \in Run : local[q].seen \in Nat /\ local[q].changed \in BOOLEAN
  BY SetupKept DEF TypeOK, Locals
<1>1. \A q \in Run : Telling(q) /\ Heard(q)
  BY DEF SendInv, Telling, Heard
<1>2. \A q \in Run : Reopened(q) => Reopened(q)'
  BY ReopenedStays DEF AnswerInv
<1>3. \A t \in told : t.run \in Run /\ row[t.run].finished > 0 /\ (local[t.run].seen > 0 \/ Reopened(t.run))
  BY ToldSettled DEF SendInv, ComparedAt
<1>4. ASSUME NEW q \in Run \ {r} PROVE Telling(q)' /\ Heard(q)'
  <2>1. at'[q] = at[q] /\ local'[q] = local[q]
    BY OthersKept
  <2>2. \A a : ToldOf(q, a)' <=> ToldOf(q, a)
    <3>1. CASE Send(r)
      <4>1. PICK a \in local[r].left, arrives \in BOOLEAN : Deliver(r, a, arrives)
        BY <3>1 DEF Send
      <4>2. told' = told \/ \E t : t.run = r /\ told' = told \cup {t}
        BY <4>1 DEF Deliver
      <4> QED
        BY <4>2 DEF ToldOf
    <3>2. CASE ~ Send(r)
      BY <3>2, ToldKept DEF ToldOf
    <3> QED
      BY <3>1, <3>2
  <2>3. Telling(q)'
    BY <1>1, <2>1 DEF Telling, ComparedAt
  <2>4. ASSUME NEW a \in Alerts, local[q].seen > 0, OfChange(a), ~ Reopened(q)'
        PROVE  ToldOf(q, a) <=> a \notin local[q].left /\ local[q].changed
    BY <1>1, <1>2, <2>4 DEF Heard, ComparedAt
  <2>5. Heard(q)'
    BY <1>0, <2>1, <2>2, <2>4 DEF Heard, ComparedAt, OfChange, IsPager
  <2> QED
    BY <2>3, <2>5
<1>5. CASE Begin(r)
  <2>1. /\ at'[r] = "look" /\ local'[r] = NoLocal /\ UNCHANGED told
        /\ row'[r].status = "running" /\ row'[r].finished = row[r].finished
    BY <1>0, <1>5 DEF Begin, Go, Alerted, TypeOK
  <2>2. Telling(r)' /\ Heard(r)'
    BY <2>1 DEF Telling, Heard, ComparedAt, NoLocal
  <2>3. \A t \in told : t.run = r => Reopened(r)'
    BY <1>3, <2>1 DEF Reopened
  <2>4. \A t \in told : t.run # r => local'[t.run] = local[t.run]
    BY <1>3, OthersKept
  <2>5. \A t \in told' : ComparedAt(t.run)' > 0 \/ Reopened(t.run)'
    BY <1>2, <1>3, <2>1, <2>3, <2>4 DEF ComparedAt
  <2> QED
    BY <1>0, <1>4, <2>2, <2>5 DEF SendInv, Telling, Heard
<1>6. CASE Previous(r)
  <2>1. at[r] = "alerts" /\ at'[r] = "send" /\ UNCHANGED << told, verdicts >>
    BY <1>0, <1>6 DEF Previous, Go, Alerted
  <2>2. local'[r].seen = Len(verdicts) /\ local'[r].left = Alerts
    <3>1. PICK b : local' = [local EXCEPT ![r].changed = b, ![r].seen = Len(verdicts), ![r].left = Alerts]
      BY <1>6 DEF Previous
    <3> QED
      BY <1>0, <3>1 DEF Locals
  <2>3. Len(verdicts) > 0
    <3>1. row[r].finished > 0 /\ row[r].finished \in 0 .. Len(verdicts)
      BY <2>1 DEF AnswerInv, PlacesFollow, RowsFollow, TypeOK
    <3> QED
      BY <3>1, VerdictSeq
  <2>4. local[r].seen = 0
    BY <1>1, <2>1 DEF Telling, ComparedAt
  <2>5. \A t \in told : t.run = r => Reopened(r)'
    BY <1>2, <1>3, <2>4
  <2>6. Telling(r)'
    BY <2>1, <2>2, <2>3 DEF Telling, ComparedAt
  <2>7. Heard(r)'
    BY <1>0, <2>1, <2>2, <2>5 DEF Heard, ToldOf
  <2>8. \A t \in told : t.run # r => local'[t.run] = local[t.run]
    BY <1>3, OthersKept
  <2>9. \A t \in told' : ComparedAt(t.run)' > 0 \/ Reopened(t.run)'
    BY <1>2, <1>3, <2>1, <2>5, <2>8 DEF ComparedAt
  <2> QED
    BY <1>0, <1>4, <2>6, <2>7, <2>9 DEF SendInv, Telling, Heard
<1>7. CASE Send(r)
  <2>1. PICK a \in local[r].left, arrives \in BOOLEAN : Deliver(r, a, arrives)
    BY <1>7 DEF Send
  <2>2. at[r] = "send" /\ at' = at /\ local' = [local EXCEPT ![r].left = @ \ {a}]
    BY <2>1 DEF Deliver
  <2>3. local'[r].seen = local[r].seen /\ local'[r].changed = local[r].changed /\ local'[r].left = local[r].left \ {a}
    BY <1>0, <2>2 DEF Locals
  <2>4. PICK t0 : /\ t0.run = r /\ t0.alert = a
                  /\ told' = IF Fires(a, Bad(local[r].check.status), local[r].changed) THEN told \cup {t0} ELSE told
    BY <2>1 DEF Deliver
  <2>5. Telling(r)' /\ local[r].seen > 0
    BY <1>1, <2>2, <2>3 DEF Telling, ComparedAt
  <2>6. ASSUME NEW b \in Alerts, OfChange(b), ~ Reopened(r)'
        PROVE  ToldOf(r, b)' <=> b \notin local'[r].left /\ local'[r].changed
    <3>1. ToldOf(r, b) <=> b \notin local[r].left /\ local[r].changed
      BY <1>1, <1>2, <2>5, <2>6 DEF Heard, ComparedAt
    <3>2. CASE b = a
      <4>1. ~ ToldOf(r, a) /\ (Fires(a, Bad(local[r].check.status), local[r].changed) <=> local[r].changed)
        BY <2>1, <2>6, <3>1, <3>2 DEF Fires, OfChange, IsPager
      <4> QED
        BY <1>0, <2>3, <2>4, <3>2, <4>1 DEF ToldOf
    <3>3. CASE b # a
      <4>1. ToldOf(r, b)' <=> ToldOf(r, b)
        BY <2>4, <3>3 DEF ToldOf
      <4> QED
        BY <2>3, <3>1, <3>3, <4>1
    <3> QED
      BY <3>2, <3>3
  <2>7. Heard(r)'
    BY <1>0, <2>6 DEF Heard, OfChange, IsPager
  <2>8. \A q \in Run \ {r} : local'[q] = local[q]
    BY OthersKept
  <2>9. \A t \in told' : ComparedAt(t.run)' > 0 \/ Reopened(t.run)'
    BY <1>2, <1>3, <2>3, <2>4, <2>5, <2>8 DEF ComparedAt
  <2> QED
    BY <1>0, <1>4, <2>5, <2>7, <2>9 DEF SendInv, Telling, Heard
<1>8. CASE ~ Begin(r) /\ ~ Previous(r) /\ ~ Send(r)
  <2>1. /\ local'[r].seen = local[r].seen /\ local'[r].changed = local[r].changed
        /\ local'[r].left = local[r].left /\ UNCHANGED told
    BY <1>8, HeldKept, ToldKept
  <2>2. Telling(r)'
    <3>1. CASE Redeliver(r)
      BY <1>0, <3>1 DEF Redeliver, Telling
    <3>2. CASE Return(r)
      BY <1>0, <3>2, <2>1 DEF Return, Go, Telling
    <3>3. CASE LaunchFails(r) \/ Look(r) \/ PutActual(r) \/ AdoptObject(r) \/ AdoptRow(r) \/ Download(r)
      <4>1. at[r] \notin {"queued", "send", "done"} /\ at'[r] \notin {"queued", "send", "done"}
        BY <1>0, <3>3 DEF LaunchFails, Look, PutActual, AdoptObject, AdoptRow, Download, Go
      <4> QED
        BY <1>1, <2>1, <4>1 DEF Telling, ComparedAt
    <3>4. CASE Compare(r) \/ SinkFails(r) \/ Persist(r) \/ Commit(r)
      <4>1. at[r] \notin {"queued", "send", "done"} /\ at'[r] \notin {"queued", "send", "done"}
        BY <1>0, <3>4 DEF Compare, SinkFails, Persist, Commit, Go
      <4> QED
        BY <1>1, <2>1, <4>1 DEF Telling, ComparedAt
    <3>5. CASE Throw(r)
      <4>1. at[r] \notin {"queued", "send", "done"} /\ at'[r] = "done"
        BY <1>0, <3>5 DEF Throw
      <4> QED
        BY <1>1, <2>1, <4>1 DEF Telling
    <3> QED
      BY <1>8, <3>1, <3>2, <3>3, <3>4, <3>5 DEF Execute
  <2>3. ASSUME NEW a \in Alerts, local[r].seen > 0, OfChange(a), ~ Reopened(r)'
        PROVE  ToldOf(r, a) <=> a \notin local[r].left /\ local[r].changed
    BY <1>1, <1>2, <2>3 DEF Heard, ComparedAt
  <2>4. Heard(r)'
    BY <1>0, <2>1, <2>3 DEF Heard, ComparedAt, OfChange, IsPager, ToldOf
  <2>5. \A q \in Run : local'[q].seen = local[q].seen
    BY <2>1, OthersKept
  <2>6. \A t \in told' : ComparedAt(t.run)' > 0 \/ Reopened(t.run)'
    BY <1>2, <1>3, <2>1, <2>5 DEF ComparedAt
  <2> QED
    BY <1>0, <1>4, <2>2, <2>4, <2>6 DEF SendInv, Telling, Heard
<1> QED
  BY <1>5, <1>6, <1>7, <1>8

LEMMA ChangeSilent ==
    ASSUME ChangeInv, SendInv, UNCHANGED << row, at, local, told, verdicts >>, Run' = Run, Browser' = Browser,
           Alerts' = Alerts
    PROVE  ChangeInv' /\ SendInv'
<1>1. \A q : Reopened(q)' <=> Reopened(q)
  BY DEF Reopened
<1>2. \A q, m : Differs(q, m)' <=> Differs(q, m)
  BY DEF Differs, Other
<1>3. ASSUME NEW q, NEW seen, NEW changed, Foretold(q, seen, changed) PROVE Foretold(q, seen, changed)'
  BY <1>1, <1>2, <1>3 DEF Foretold, Other
<1>4. ASSUME NEW q \in Run, local[q].seen > 0 PROVE Foretold(q, local[q].seen, local[q].changed)'
  <2>1. PICK seen, changed : seen = local[q].seen /\ changed = local[q].changed
    OBVIOUS
  <2>2. Foretold(q, seen, changed)'
    BY <1>3, <1>4, <2>1 DEF ChangeInv, ComparedAt
  <2> QED
    BY <2>1, <2>2 DEF Foretold
<1>5. \A t \in told : t.run \in Run /\ \E c \in BOOLEAN : Foretold(t.run, t.seen, c)'
  BY <1>3 DEF ChangeInv
<1>6. ChangeInv'
  BY <1>4, <1>5 DEF ChangeInv, ComparedAt
<1>7. SendInv'
  BY <1>1 DEF SendInv, ComparedAt, OfChange, IsPager, ToldOf
<1> QED
  BY <1>6, <1>7

LEMMA ChangeStep == BaselineInv /\ AnswerInv /\ ChangeInv /\ SendInv /\ [Next]_vars => ChangeInv' /\ SendInv'
<1> SUFFICES ASSUME BaselineInv, AnswerInv, ChangeInv, SendInv, [Next]_vars PROVE ChangeInv' /\ SendInv'
  OBVIOUS
<1>1. ASSUME NEW r \in Run, Execute(r), UNCHANGED setup PROVE ChangeInv' /\ SendInv'
  BY <1>1, ChangeExecute, SendExecute DEF BaselineInv
<1>2. CASE (User \/ Client) /\ UNCHANGED setup
  BY <1>2, SetupKept, OutsideKeeps, ChangeSilent
<1>3. CASE UNCHANGED vars
  <2>1. UNCHANGED << row, at, local, told, verdicts >> /\ Run' = Run /\ Browser' = Browser /\ Alerts' = Alerts
    BY <1>3 DEF vars, Run, Browser, Alerts
  <2> QED
    BY <2>1, ChangeSilent
<1> QED
  BY <1>1, <1>2, <1>3 DEF Next

(* The one verdict of a run that was not opened again is what its telling is about. *)
LEMMA ToldTruly ==
    ASSUME TypeOK, AnswerInv, ChangeInv, SendInv
    PROVE  ChangeToldTruly
<1> SUFFICES ASSUME NEW r \in Run, NEW a \in Alerts, at[r] = "done", ComparedAt(r) > 0, OfChange(a),
                    \A q \in Run : ~ Reopened(q),
                    \A j \in row[r].finished + 1 .. ComparedAt(r) : ~ Other(r, j)
             PROVE  ToldOf(r, a) <=> Differs(r, row[r].finished)
  BY DEF ChangeToldTruly
<1>1. ToldOf(r, a) <=> local[r].changed
  BY DEF SendInv
<1>2. Foretold(r, ComparedAt(r), local[r].changed)
  BY DEF ChangeInv
<1>3. Len(verdicts) \in Nat /\ DOMAIN verdicts = 1 .. Len(verdicts)
  BY VerdictSeq
<1>4. PICK m \in 1 .. ComparedAt(r) :
        /\ verdicts[m].run = r
        /\ (\A j \in m + 1 .. ComparedAt(r) : ~ Other(r, j)) /\ (\A q \in Run : ~ Reopened(q))
              => (local[r].changed <=> Differs(r, m))
  BY <1>2 DEF Foretold
<1>5. m \in 1 .. Len(verdicts)
  BY <1>2, <1>3 DEF Foretold
<1>6. m = row[r].finished
  <2>1. m <= row[r].finished /\ row[r].finished \in 1 .. Len(verdicts)
    <3>1. m <= row[r].finished
      BY <1>3, <1>4, <1>5 DEF AnswerInv, RowsFollow
    <3>2. row[r].finished \in 0 .. Len(verdicts)
      BY DEF TypeOK
    <3> QED
      BY <1>3, <1>5, <3>1, <3>2
  <2>2. verdicts[row[r].finished].run = r
    BY <2>1 DEF AnswerInv, RowsFollow
  <2>3. ~ (m < row[r].finished)
    BY <1>3, <1>4, <1>5, <2>1, <2>2 DEF Reopened
  <2> QED
    BY <1>3, <1>5, <2>1, <2>3
<1> QED
  BY <1>1, <1>4, <1>6

LEMMA ToldInv == Spec => [](ChangeInv /\ SendInv)
<1>1. Spec => []AnswerInv
  BY BaselineSafe, AnswerInit, AnswerStep, PTL DEF Spec
<1>2. Init => ChangeInv /\ SendInv
  BY DEF Init, ChangeInv, SendInv, ComparedAt, NoLocal
<1> QED
  BY BaselineSafe, <1>1, <1>2, ChangeStep, PTL DEF Spec

(* A "change" alert is sent if and only if the verdict before its run's own was another
   one, for every order in which runs are launched or not, finish, are errored, and tell
   or fail to; unless a run is opened again or another verdict comes in between. *)
THEOREM ChangesToldTruly == Spec => []ChangeToldTruly
<1>1. Spec => []AnswerInv
  BY BaselineSafe, AnswerInit, AnswerStep, PTL DEF Spec
<1>2. BaselineInv /\ AnswerInv /\ ChangeInv /\ SendInv => ChangeToldTruly
  BY ToldTruly DEF BaselineInv
<1> QED
  BY BaselineSafe, <1>1, ToldInv, <1>2, PTL

-----------------------------------------------------------------------------
(* Steps until the first fault. *)
LEMMA Faultless ==
    ASSUME TypeOK, NEW r \in Run, Execute(r), faults' = 0
    PROVE  /\ faults = 0 /\ ~ SinkFails(r) /\ ~ Throw(r) /\ ~ Redeliver(r)
           /\ Send(r) => \E a \in local[r].left : Deliver(r, a, TRUE)
<1>0. faults \in Nat
  BY ResultsAssumption DEF TypeOK
<1>1. \A kind : ~ Fault(kind)
  BY <1>0 DEF Fault
<1>2. ~ SinkFails(r) /\ ~ Throw(r) /\ ~ Redeliver(r)
  BY <1>1 DEF SinkFails, Throw, Redeliver
<1>3. Send(r) => faults' = faults /\ \E a \in local[r].left : Deliver(r, a, TRUE)
  BY <1>1 DEF Send
<1>4. CASE Begin(r) \/ LaunchFails(r) \/ Look(r) \/ PutActual(r) \/ AdoptObject(r) \/ AdoptRow(r) \/ Download(r) \/ Compare(r)
  BY <1>2, <1>3, <1>4 DEF Begin, LaunchFails, Look, PutActual, AdoptObject, AdoptRow, Download, Compare
<1>5. CASE Persist(r) \/ Commit(r) \/ Previous(r) \/ Return(r)
  BY <1>2, <1>3, <1>5 DEF Persist, Commit, Previous, Return
<1> QED
  BY <1>2, <1>3, <1>4, <1>5 DEF Execute

(* What a step that no verdict and no alert belongs to leaves as it is. *)
Incidents == OneVerdictEach /\ ToldAfterwards /\ PagersTold /\ IncidentOfNewest

LEMMA IncidentSame ==
    ASSUME Incidents, Run' = Run, Browser' = Browser, Alerts' = Alerts, DOMAIN image' = DOMAIN image,
           UNCHANGED << told, verdicts, incident >>,
           \A q \in Run : /\ row'[q].finished = row[q].finished
                          /\ \/ at'[q] = at[q] /\ local'[q] = local[q]
                             \/ ~ Past(q) /\ ~ Past(q)'
    PROVE  Incidents'
<1>1. OneVerdictEach'
  BY DEF Incidents, OneVerdictEach, Past
<1>2. ToldAfterwards'
  BY DEF Incidents, ToldAfterwards, Past
<1>3. PagersTold'
  BY DEF Incidents, PagersTold, Past
<1>4. \A b : InTurn(b)' <=> InTurn(b)
  BY DEF Incidents, ToldAfterwards, InTurn
<1>5. IncidentOfNewest'
  BY <1>4 DEF Incidents, ToldAfterwards, IncidentOfNewest, NewestOf
<1> QED
  BY <1>1, <1>2, <1>3, <1>5 DEF Incidents

(* The first verdict of a run comes after everything that was told. *)
LEMMA IncidentCommit ==
    ASSUME TypeOK, Checked, AnswerInv, Incidents, NEW r \in Run, Commit(r), UNCHANGED setup
    PROVE  Incidents'
<1>1. PICK s \in Terminal : Settle(r, s)
  <2>1. Settling(r)
    BY DEF Settling, Commit
  <2> QED
    BY <2>1, SettledTerminal
<1>2. /\ Len(verdicts') = Len(verdicts) + 1 /\ DOMAIN verdicts' = 1 .. Len(verdicts) + 1
      /\ \A i \in 1 .. Len(verdicts) : verdicts'[i] = verdicts[i]
      /\ verdicts'[Len(verdicts) + 1] = [run |-> r, browser |-> Browser[r], status |-> s]
      /\ \A q \in Run \ {r} : row'[q] = row[q]
      /\ Len(verdicts) \in Nat /\ DOMAIN verdicts = 1 .. Len(verdicts)
  BY <1>1, SettleAppends, VerdictSeq
<1>3. /\ Run' = Run /\ Browser' = Browser /\ Alerts' = Alerts
      /\ UNCHANGED << told, incident, local, image >>
  BY SetupKept DEF Commit, Store
<1>4. /\ at[r] = "commit" /\ at'[r] = "alerts" /\ \A q \in Run \ {r} : at'[q] = at[q]
      /\ row[r].finished = 0
  BY DEF Commit, Go, TypeOK, Incidents, OneVerdictEach, Past
<1>5. \A i \in 1 .. Len(verdicts) : verdicts[i].run # r
  BY <1>2, <1>4 DEF AnswerInv, RowsFollow
<1>6. verdicts'[Len(verdicts) + 1].run = r
  BY <1>2
<1>7. OneVerdictEach'
  <2>1. \A q \in Run : ~ Past(q)' => row'[q].finished = 0
    BY <1>2, <1>4 DEF Incidents, OneVerdictEach, Past
  <2>2. \A i, j \in 1 .. Len(verdicts) + 1 : verdicts'[i].run = verdicts'[j].run => i = j
    <3> SUFFICES ASSUME NEW i \in 1 .. Len(verdicts) + 1, NEW j \in 1 .. Len(verdicts) + 1,
                        verdicts'[i].run = verdicts'[j].run
                 PROVE  i = j
      OBVIOUS
    <3>1. CASE i # Len(verdicts) + 1 /\ j # Len(verdicts) + 1
      BY <1>2, <3>1 DEF Incidents, OneVerdictEach
    <3>2. CASE i = Len(verdicts) + 1 /\ j # Len(verdicts) + 1
      BY <1>2, <1>5, <1>6, <3>2
    <3>3. CASE i # Len(verdicts) + 1 /\ j = Len(verdicts) + 1
      BY <1>2, <1>5, <1>6, <3>3
    <3> QED
      BY <3>1, <3>2, <3>3
  <2> QED
    BY <1>2, <1>3, <2>1, <2>2 DEF OneVerdictEach
<1>8. \A t \in told : t.run \in Run \ {r} /\ row'[t.run] = row[t.run]
                      /\ row[t.run].finished \in 1 .. t.seen /\ t.sent \in 0 .. Len(verdicts)
  BY <1>2, <1>4 DEF Incidents, ToldAfterwards
<1>9. ToldAfterwards'
  BY <1>2, <1>3, <1>4, <1>8 DEF Incidents, ToldAfterwards
<1>10. PagersTold'
  BY <1>3, <1>4 DEF Incidents, PagersTold
<1>11. IncidentOfNewest'
  <2> SUFFICES ASSUME NEW t \in told, NEW b \in DOMAIN image, IsPager(t.alert), InTurn(b)',
                      NewestOf(b, row[t.run].finished)'
               PROVE  incident[b] = Bad(verdicts'[row[t.run].finished].status)
    BY <1>3, <1>8 DEF IncidentOfNewest, NewestOf
  <2> DEFINE p == row[t.run].finished
  <2>1. p \in 1 .. Len(verdicts)
    BY <1>2, <1>8 DEF TypeOK
  <2>2. verdicts'[p] = verdicts[p]
    BY <1>2, <2>1
  <2>3. NewestOf(b, p)
    <3>1. \A i \in p + 1 .. Len(verdicts) : i \in p + 1 .. Len(verdicts') /\ i \in 1 .. Len(verdicts)
      BY <1>2, <2>1
    <3> QED
      BY <1>2, <1>8, <2>2, <3>1 DEF NewestOf
  <2>4. InTurn(b)
    <3> SUFFICES ASSUME NEW u \in told, Browser[u.run] = b, NEW i \in row[u.run].finished + 1 .. u.sent
                 PROVE  verdicts[i].browser # b
      BY DEF InTurn
    <3>1. i \in 1 .. Len(verdicts)
      BY <1>2, <1>8
    <3>2. verdicts'[i].browser # b
      BY <1>3, <1>8 DEF InTurn
    <3> QED
      BY <1>2, <3>1, <3>2
  <2> QED
    BY <2>2, <2>3, <2>4 DEF Incidents, IncidentOfNewest
<1> QED
  BY <1>7, <1>9, <1>10, <1>11 DEF Incidents

(* A delivery in turn is about the newest verdict of its browser. *)
LEMMA IncidentDeliver ==
    ASSUME TypeOK, AnswerInv, Incidents, NEW r \in Run, NEW a \in local[r].left, Deliver(r, a, TRUE),
           UNCHANGED setup
    PROVE  Incidents'
<1> DEFINE failed == Bad(local[r].check.status)
           m == row[r].finished
           t0 == [run |-> r, alert |-> a, failed |-> failed, arrived |-> TRUE,
                  seen |-> local[r].seen, sent |-> Len(verdicts)]
<1>1. /\ Run' = Run /\ Browser' = Browser /\ Alerts' = Alerts
      /\ UNCHANGED << row, at, verdicts, image >> /\ at[r] = "send"
  BY SetupKept DEF Deliver, Tables, Store
<1>2. /\ \A q \in Run \ {r} : local'[q] = local[q]
      /\ local'[r].left = local[r].left \ {a} /\ local'[r].seen = local[r].seen
  BY DEF Deliver, TypeOK, Locals
<1>3. /\ told' \in {told, told \cup {t0}}
      /\ IsPager(a) => told' = told \cup {t0} /\ incident' = [incident EXCEPT ![Browser[r]] = failed]
      /\ ~ IsPager(a) => incident' = incident
  BY DEF Deliver, Fires, IsPager
<1>4. t0.run = r /\ t0.alert = a /\ t0.seen = local[r].seen /\ t0.sent = Len(verdicts)
  OBVIOUS
<1>5. /\ m \in 1 .. Len(verdicts) /\ Len(verdicts) \in Nat /\ DOMAIN verdicts = 1 .. Len(verdicts)
      /\ verdicts[m].run = r /\ Bad(verdicts[m].status) = failed
      /\ verdicts[m].browser = Browser[r] /\ m <= local[r].seen /\ local[r].seen \in Nat
  <2>1. Len(verdicts) \in Nat /\ DOMAIN verdicts = 1 .. Len(verdicts)
    BY VerdictSeq
  <2>2. row[r].status \in Terminal /\ row[r].status = local[r].check.status
    BY <1>1 DEF AnswerInv, PlacesFollow
  <2>3. m \in 1 .. Len(verdicts) /\ verdicts[m].run = r /\ verdicts[m].status = local[r].check.status
    BY <2>1, <2>2 DEF AnswerInv, RowsFollow, TypeOK
  <2>4. m <= local[r].seen /\ local[r].seen \in Nat
    BY <1>1 DEF Incidents, ToldAfterwards, TypeOK, Locals
  <2> QED
    BY <2>1, <2>3, <2>4 DEF AnswerInv, OwnBrowser
<1> HIDE DEF failed, m, t0
<1>6. \A t \in told' : t \in told \/ t = t0
  BY <1>3
<1>7. OneVerdictEach'
  BY <1>1 DEF Incidents, OneVerdictEach, Past
<1>8. ToldAfterwards'
  <2>1. \A q \in Run : at[q] = "send" => row[q].finished <= local'[q].seen
    BY <1>2 DEF Incidents, ToldAfterwards
  <2>2. t0.run \in Run /\ t0.sent \in 0 .. Len(verdicts) /\ row[t0.run].finished \in 1 .. t0.seen
    BY <1>4, <1>5 DEF m
  <2> QED
    BY <1>1, <1>6, <2>1, <2>2 DEF Incidents, ToldAfterwards
<1>9. PagersTold'
  <2> SUFFICES ASSUME NEW q \in Run, NEW c \in Alerts, IsPager(c),
                      at[q] = "done" \/ (at[q] = "send" /\ c \notin local'[q].left)
               PROVE  \E t \in told' : t.run = q /\ t.alert = c
    BY <1>1 DEF PagersTold
  <2>1. CASE q = r /\ c = a
    BY <1>3, <1>4, <2>1
  <2>2. CASE ~ (q = r /\ c = a)
    <3>1. at[q] = "done" \/ (at[q] = "send" /\ c \notin local[q].left)
      BY <1>2, <2>2
    <3> QED
      BY <1>3, <3>1 DEF Incidents, PagersTold
  <2> QED
    BY <2>1, <2>2
<1>10. IncidentOfNewest'
  <2> SUFFICES ASSUME NEW t \in told', NEW b \in DOMAIN image, IsPager(t.alert), InTurn(b)',
                      NewestOf(b, row[t.run].finished)
               PROVE  incident'[b] = Bad(verdicts[row[t.run].finished].status)
    BY <1>1 DEF IncidentOfNewest, NewestOf
  <2>1. InTurn(b)
    BY <1>1, <1>3 DEF InTurn
  <2>2. incident \in [DOMAIN image -> BOOLEAN]
    BY DEF TypeOK
  <2>3. CASE IsPager(a) /\ b = Browser[r]
    <3>1. \A i \in m + 1 .. Len(verdicts) : verdicts[i].browser # b
      BY <1>1, <1>3, <1>4, <2>3 DEF InTurn, m
    <3>2. row[t.run].finished \in 1 .. Len(verdicts)
      <4>1. t.run \in Run /\ row[t.run].finished \in Nat /\ 1 <= row[t.run].finished
        BY <1>4, <1>5, <1>6 DEF Incidents, ToldAfterwards, m
      <4>2. row[t.run].finished \in 0 .. Len(verdicts)
        BY <4>1 DEF TypeOK
      <4> QED
        BY <1>5, <4>1, <4>2
    <3>3. row[t.run].finished = m
      <4>1. ~ (m < row[t.run].finished)
        BY <1>5, <3>1, <3>2 DEF NewestOf
      <4>2. ~ (row[t.run].finished < m)
        BY <1>5, <2>3, <3>2 DEF NewestOf
      <4> QED
        BY <1>5, <3>2, <4>1, <4>2
    <3>4. incident'[b] = failed
      BY <1>3, <2>2, <2>3
    <3> QED
      BY <1>5, <3>3, <3>4
  <2>4. CASE ~ (IsPager(a) /\ b = Browser[r])
    <3>1. incident'[b] = incident[b]
      BY <1>3, <2>2, <2>4
    <3>2. CASE t \in told
      BY <2>1, <3>1, <3>2 DEF Incidents, IncidentOfNewest
    <3>3. CASE t = t0
      BY <1>4, <1>5, <2>4, <3>3 DEF NewestOf, m
    <3> QED
      BY <1>6, <3>2, <3>3
  <2> QED
    BY <2>3, <2>4
<1> QED
  BY <1>7, <1>8, <1>9, <1>10 DEF Incidents

LEMMA IncidentExecute ==
    ASSUME TypeOK, Checked, AnswerInv, IncidentInv, NEW r \in Run, Execute(r), UNCHANGED setup
    PROVE  IncidentInv'
<1> SUFFICES ASSUME faults' = 0 PROVE Incidents'
  BY DEF IncidentInv, Incidents
<1>0. /\ ~ SinkFails(r) /\ ~ Throw(r) /\ ~ Redeliver(r)
      /\ Send(r) => \E a \in local[r].left : Deliver(r, a, TRUE)
      /\ Incidents
  BY Faultless DEF IncidentInv, Incidents
<1>1. /\ Run' = Run /\ Browser' = Browser /\ Alerts' = Alerts /\ DOMAIN image' = DOMAIN image
  <2>1. DOMAIN image' = DOMAIN image
    <3>1. TypeOK'
      BY ExecuteType
    <3>2. Run' = Run /\ Browser' = Browser
      BY SetupKept
    <3> QED
      BY <3>1, <3>2 DEF TypeOK
  <2> QED
    BY <2>1, SetupKept
<1>2. at \in [Run -> Places] /\ local \in [Run -> Locals]
  BY DEF TypeOK
<1>3. \A q \in Run \ {r} : at'[q] = at[q] /\ local'[q] = local[q]
  BY OthersKept
<1>4. CASE Commit(r)
  BY <1>0, <1>4, IncidentCommit
<1>5. CASE Send(r)
  BY <1>0, <1>5, IncidentDeliver
<1>6. CASE Previous(r)
  <2>1. /\ at[r] = "alerts" /\ at'[r] = "send" /\ UNCHANGED << row, told, verdicts, incident >>
    BY <1>2, <1>6 DEF Previous, Go, Tables, Alerted
  <2>2. local'[r].seen = Len(verdicts) /\ local'[r].left = Alerts
    <3>1. PICK b : local' = [local EXCEPT ![r].changed = b, ![r].seen = Len(verdicts), ![r].left = Alerts]
      BY <1>6 DEF Previous
    <3> QED
      BY <1>2, <3>1 DEF Locals
  <2>3. OneVerdictEach'
    BY <1>1, <1>3, <2>1, <1>0 DEF Incidents, OneVerdictEach, Past
  <2>4. ToldAfterwards'
    <3>1. row[r].finished <= Len(verdicts)
      BY VerdictSeq DEF TypeOK
    <3> QED
      BY <1>0, <1>1, <1>3, <2>1, <2>2, <3>1 DEF Incidents, ToldAfterwards
  <2>5. PagersTold'
    BY <1>0, <1>1, <1>3, <2>1, <2>2 DEF Incidents, PagersTold
  <2>6. IncidentOfNewest'
    BY <1>0, <1>1, <2>1 DEF Incidents, IncidentOfNewest, InTurn, NewestOf
  <2> QED
    BY <2>3, <2>4, <2>5, <2>6 DEF Incidents
<1>7. CASE Return(r)
  <2>1. /\ at[r] = "send" /\ at'[r] = "done" /\ UNCHANGED << row, told, verdicts, incident, local >>
        /\ local[r].left = {}
    BY <1>2, <1>7 DEF Return, Go, Tables, Alerted
  <2>2. OneVerdictEach'
    BY <1>1, <1>3, <2>1, <1>0 DEF Incidents, OneVerdictEach, Past
  <2>3. ToldAfterwards'
    BY <1>0, <1>1, <1>3, <2>1 DEF Incidents, ToldAfterwards
  <2>4. PagersTold'
    BY <1>0, <1>1, <1>3, <2>1 DEF Incidents, PagersTold
  <2>5. IncidentOfNewest'
    BY <1>0, <1>1, <2>1 DEF Incidents, IncidentOfNewest, InTurn, NewestOf
  <2> QED
    BY <2>2, <2>3, <2>4, <2>5 DEF Incidents
<1>8. CASE Begin(r) \/ LaunchFails(r) \/ Look(r) \/ PutActual(r) \/ AdoptObject(r) \/ AdoptRow(r) \/ Download(r) \/ Compare(r) \/ Persist(r)
  <2>1. UNCHANGED << told, verdicts, incident >> /\ ~ Past(r) /\ ~ Past(r)'
    <3>1. CASE Begin(r) \/ LaunchFails(r) \/ Look(r) \/ PutActual(r) \/ AdoptObject(r)
      BY <1>2, <3>1 DEF Begin, LaunchFails, Look, PutActual, AdoptObject, Go, Alerted, Past
    <3>2. CASE AdoptRow(r) \/ Download(r) \/ Compare(r) \/ Persist(r)
      BY <1>2, <3>2 DEF AdoptRow, Download, Compare, Persist, Go, Alerted, Past
    <3> QED
      BY <1>8, <3>1, <3>2
  <2>2. \A q \in Run : row'[q].finished = row[q].finished
    <3>1. CASE Begin(r)
      BY <3>1 DEF Begin, TypeOK
    <3>2. CASE ~ Begin(r)
      <4>1. UNCHANGED row
        BY <1>8, <3>2 DEF LaunchFails, Look, PutActual, AdoptObject, AdoptRow, Download, Compare, Persist, Tables
      <4> QED
        BY <4>1
    <3> QED
      BY <3>1, <3>2
  <2>3. \A q \in Run : /\ row'[q].finished = row[q].finished
                       /\ \/ at'[q] = at[q] /\ local'[q] = local[q]
                          \/ ~ Past(q) /\ ~ Past(q)'
    BY <1>3, <2>1, <2>2
  <2> QED
    BY <1>0, <1>1, <2>1, <2>3, IncidentSame
<1> QED
  BY <1>0, <1>4, <1>5, <1>6, <1>7, <1>8 DEF Execute

LEMMA IncidentStep == BaselineInv /\ AnswerInv /\ IncidentInv /\ [Next]_vars => IncidentInv'
<1> SUFFICES ASSUME BaselineInv, AnswerInv, IncidentInv, [Next]_vars PROVE IncidentInv'
  OBVIOUS
<1>1. ASSUME NEW r \in Run, Execute(r), UNCHANGED setup PROVE IncidentInv'
  BY <1>1, IncidentExecute DEF BaselineInv
<1>2. ASSUME UNCHANGED << row, at, local, incident, told, verdicts, faults >>, Run' = Run, Browser' = Browser,
             Alerts' = Alerts, DOMAIN image' = DOMAIN image
      PROVE  IncidentInv'
  <2> SUFFICES ASSUME faults = 0 PROVE Incidents'
    BY <1>2 DEF IncidentInv, Incidents
  <2>1. Incidents
    BY DEF IncidentInv, Incidents
  <2> QED
    BY <1>2, <2>1, IncidentSame
<1>3. CASE (User \/ Client) /\ UNCHANGED setup
  <2>1. /\ Run' = Run /\ Browser' = Browser /\ Alerts' = Alerts /\ DOMAIN image = {Browser[r] : r \in Run}
    BY <1>3, SetupKept DEF BaselineInv, TypeOK
  <2>2. DOMAIN image' = {Browser[r] : r \in Run}
    BY <1>3, <2>1, OutsideInv DEF BaselineInv, TypeOK
  <2> QED
    BY <1>2, <1>3, <2>1, <2>2, OutsideKeeps
<1>4. CASE UNCHANGED vars
  BY <1>2, <1>4 DEF vars, Run, Browser, Alerts
<1> QED
  BY <1>1, <1>3, <1>4 DEF Next

(* The last position of a run is the one Foretold speaks of. *)
LEMMA PositionIs ==
    ASSUME NEW seen \in Nat, NEW m \in 1 .. seen, NEW r, verdicts[m].run = r,
           \A j \in m + 1 .. seen : verdicts[j].run # r
    PROVE  Position(r, seen) = m
<1>1. \A i \in 1 .. seen : verdicts[i].run = r /\ (\A j \in i + 1 .. seen : verdicts[j].run # r) => i = m
  OBVIOUS
<1> QED
  BY <1>1 DEF Position

(* In a quiet state the newest verdict has been told, and its incident stands. *)
LEMMA IncidentRight ==
    ASSUME TypeOK, AnswerInv, ChangeInv, IncidentInv
    PROVE  IncidentFollows
<1> SUFFICES ASSUME NEW b \in DOMAIN image, faults = 0, Quiet,
                    NEW a \in Alerts, IsPager(a),
                    {i \in DOMAIN verdicts : verdicts[i].browser = b} # {},
                    ~ \E t \in told : Browser[t.run] = b
                        /\ \E i \in {i \in DOMAIN verdicts : verdicts[i].browser = b} :
                              Position(t.run, t.seen) < i /\ i <= t.sent
             PROVE  incident[b] = Bad(LastVerdict(b).status)
  BY DEF IncidentFollows
<1> DEFINE of   == {i \in DOMAIN verdicts : verdicts[i].browser = b}
           last == CHOOSE i \in of : \A j \in of : j <= i
<1>0. /\ Len(verdicts) \in Nat /\ DOMAIN verdicts = 1 .. Len(verdicts)
      /\ \A i \in 1 .. Len(verdicts) : verdicts[i].run \in Run
      /\ Incidents
  BY VerdictSeq DEF Verdicts, IncidentInv, Incidents
<1>1. last \in of /\ \A j \in of : j <= last
  <2>1. of \subseteq 1 .. Len(verdicts) /\ of # {}
    BY <1>0
  <2> HIDE DEF of
  <2>2. \E i \in of : \A j \in of : j <= i
    BY <1>0, <2>1, MaxNat
  <2> QED
    BY <2>2
<1>2. LastVerdict(b) = verdicts[last]
  BY DEF LastVerdict
<1> HIDE DEF last
<1>3. NewestOf(b, last) /\ last \in 1 .. Len(verdicts)
  <2>1. \A i \in last + 1 .. Len(verdicts) : i \in DOMAIN verdicts /\ ~ (i <= last)
    BY <1>0, <1>1
  <2> QED
    BY <1>0, <1>1, <2>1 DEF NewestOf
<1>4. \A i \in 1 .. Len(verdicts) : row[verdicts[i].run].finished = i
  <2> TAKE i \in 1 .. Len(verdicts)
  <2> DEFINE q == verdicts[i].run
  <2>1. q \in Run /\ i <= row[q].finished /\ row[q].finished \in 0 .. Len(verdicts)
    BY <1>0 DEF AnswerInv, RowsFollow, TypeOK
  <2>2. verdicts[row[q].finished].run = q /\ row[q].finished \in 1 .. Len(verdicts)
    BY <1>0, <2>1 DEF AnswerInv, RowsFollow
  <2> QED
    BY <1>0, <2>2 DEF Incidents, OneVerdictEach
<1>5. PICK t \in told : t.run = verdicts[last].run /\ t.alert = a
  <2> DEFINE r == verdicts[last].run
  <2>1. r \in Run /\ row[r].finished = last /\ last # 0
    BY <1>0, <1>3, <1>4
  <2>2. Past(r)
    BY <1>0, <2>1 DEF Incidents, OneVerdictEach
  <2>3. at[r] = "done"
    BY <2>1, <2>2 DEF Quiet, Past
  <2> QED
    BY <1>0, <2>1, <2>3 DEF Incidents, PagersTold, IsPager
<1>6. InTurn(b)
  <2> SUFFICES ASSUME NEW u \in told, Browser[u.run] = b, NEW i \in row[u.run].finished + 1 .. u.sent,
                      verdicts[i].browser = b
               PROVE  FALSE
    BY DEF InTurn
  <2> DEFINE m == row[u.run].finished
  <2>1. /\ u.run \in Run /\ u.seen \in 1 .. Len(verdicts) /\ u.sent \in 0 .. Len(verdicts)
        /\ m \in 1 .. u.seen
    BY <1>0 DEF ChangeInv, Foretold, Incidents, ToldAfterwards
  <2>2. verdicts[m].run = u.run
    BY <2>1 DEF AnswerInv, RowsFollow
  <2>3. \A j \in m + 1 .. u.seen : verdicts[j].run # u.run
    <3> SUFFICES ASSUME NEW j \in m + 1 .. u.seen, verdicts[j].run = u.run PROVE FALSE
      OBVIOUS
    <3>1. j \in 1 .. Len(verdicts) /\ j # m
      BY <1>0, <2>1
    <3> QED
      BY <1>4, <3>1
  <2>4. Position(u.run, u.seen) = m
    <3>1. u.seen \in Nat
      BY <1>0, <2>1
    <3> HIDE DEF m
    <3> QED
      BY <2>1, <2>2, <2>3, <3>1, PositionIs
  <2>5. m < i /\ i <= u.sent /\ i \in DOMAIN verdicts
    BY <1>0, <2>1
  <2> QED
    BY <2>4, <2>5
<1>7. row[t.run].finished = last
  BY <1>3, <1>4, <1>5
<1>8. incident[b] = Bad(verdicts[last].status)
  BY <1>0, <1>3, <1>5, <1>6, <1>7 DEF Incidents, IncidentOfNewest, IsPager
<1> QED
  BY <1>2, <1>8

(* Where nothing failed and nobody told late, PagerDuty's incident is that of the
   browser's newest verdict. *)
THEOREM IncidentsFollow == Spec => []IncidentFollows
<1>1. Spec => []AnswerInv
  BY BaselineSafe, AnswerInit, AnswerStep, PTL DEF Spec
<1>2. Init => IncidentInv
  BY DEF Init, IncidentInv, OneVerdictEach, ToldAfterwards, PagersTold, IncidentOfNewest
<1>3. Spec => []ChangeInv /\ []IncidentInv
  BY BaselineSafe, <1>1, <1>2, ToldInv, IncidentStep, PTL DEF Spec
<1>4. BaselineInv /\ AnswerInv /\ ChangeInv /\ IncidentInv => IncidentFollows
  BY IncidentRight DEF BaselineInv
<1> QED
  BY BaselineSafe, <1>1, <1>3, <1>4, PTL
=============================================================================
