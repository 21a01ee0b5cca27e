--------------------------- MODULE CatalogProofs ---------------------------
(***************************************************************************)
(* Theorems about Catalog, for every workload.                             *)
(***************************************************************************)
EXTENDS Catalog, FiniteSetTheorems, WellFoundedInduction, TLAPS

(* What every state of the database and of the handlers is like. *)
FirstFree == 1 + Cardinality(InitialIds(work))
CatalogKnown ==
    /\ \E w \in Workloads, enforced \in BOOLEAN : work = [enforced |-> enforced] ++ w
    /\ DOMAIN db = Tables /\ \A t \in Tables : Ids(t) \subseteq 1 .. next - 1
    /\ next \in Nat /\ FirstFree <= next
    /\ DOMAIN call = Requests /\ \A r \in Requests : DOMAIN call[r] = DOMAIN NewCall

LEMMA WorkKnown ==
    ASSUME NEW w \in Workloads, NEW enforced \in BOOLEAN, NEW x, x = [enforced |-> enforced] ++ w
    PROVE  /\ x.db = w.db /\ x.requests = w.requests /\ x.faults = w.faults /\ x.enforced = enforced
           /\ InitialIds(x) = InitialIds(w)
<1>1. DOMAIN w = {"db", "requests", "faults"} BY WorkloadsAssumption
<1>2. x.db = w.db /\ x.requests = w.requests /\ x.faults = w.faults /\ x.enforced = enforced
  BY <1>1 DEF ++
<1> QED BY <1>2 DEF InitialIds

LEMMA CardKnown ==
    ASSUME NEW w \in Workloads
    PROVE  /\ Cardinality(InitialIds(w)) \in Nat /\ DOMAIN w.db = Tables
           /\ InitialIds(w) = 1 .. Cardinality(InitialIds(w))
<1>1. IsFiniteSet(InitialIds(w)) BY WorkloadsAssumption
<1>2. Cardinality(InitialIds(w)) \in Nat BY <1>1, FS_CardinalityType
<1> QED BY <1>2, WorkloadsAssumption

LEMMA CatalogKnownInit == Init => CatalogKnown
<1> SUFFICES ASSUME Init PROVE CatalogKnown OBVIOUS
<1>1. PICK w \in Workloads, enforced \in BOOLEAN :
        /\ work = [enforced |-> enforced] ++ w
        /\ db = w.db
        /\ next = 1 + Cardinality(InitialIds(w))
  BY DEF Init
<1>2. work.db = w.db /\ InitialIds(work) = InitialIds(w) BY <1>1, WorkKnown
<1>3. Cardinality(InitialIds(w)) \in Nat /\ DOMAIN w.db = Tables /\ InitialIds(w) = 1 .. Cardinality(InitialIds(w))
  BY CardKnown
<1>4. next \in Nat /\ FirstFree <= next BY <1>1, <1>2, <1>3 DEF FirstFree
<1>5. ASSUME NEW t \in Tables PROVE Ids(t) \subseteq 1 .. next - 1
  <2>1. DOMAIN w.db[t] \subseteq InitialIds(w) BY DEF InitialIds
  <2>2. next - 1 = Cardinality(InitialIds(w)) BY <1>1, <1>3
  <2> QED BY <2>1, <2>2, <1>1, <1>3 DEF Ids
<1>6. call = [r \in Requests |-> NewCall] BY DEF Init
<1> QED BY <1>1, <1>3, <1>4, <1>5, <1>6 DEF CatalogKnown

-----------------------------------------------------------------------------
(* A statement, what it writes on a test, and where its handler goes. *)
NameOnly(r, ids, patch) ==
    Req(r).op = "updateTest" /\ ids = {Req(r).id} /\ patch = [name |-> Req(r).name]
OnOneTest == {"updateSettings", "moveTest", "setData"}
Touches(r, i) ==  \* the columns r may write on test i
    (IF Req(r).op = "updateSettings" /\ Req(r).id = i THEN {"settings"} ELSE {})
    \cup (IF Req(r).op = "moveTest" /\ Req(r).id = i THEN {"folder"} ELSE {})
    \cup (IF Req(r).op = "setData" /\ Req(r).id = i THEN {"data"} ELSE {})
    \cup (IF Req(r).op = "updateTest" /\ call[r].at = "name" /\ Req(r).id = i THEN {"name"} ELSE {})
    \cup (IF Req(r).op = "removeFolder" THEN {"folder"} ELSE {})
    \cup (IF Req(r).op \in {"createTest", "updateTest", "removeTest"} THEN {"current"} ELSE {})

Statement(r) ==
    \/ db' = db /\ next' = next
    \/ \E t \in Tables : \E row : Insert(t, row)
    \/ \E t \in Tables : \E ids : Delete(t, ids)
    \/ \E t \in Tables \ {"test"} : \E ids, patch : Update(t, ids, patch)
    \/ \E ids, patch : Update("test", ids, patch) /\ \A i \in ids : DOMAIN patch \subseteq Touches(r, i)

(* r has changed nothing yet, or no more than the name it came with. *)
Quiet(r) ==
    \/ call[r].at \in {"start", "refused"}
    \/ Req(r).op = "updateTest" /\ call[r].at \in {"name", "validate"}
    \/ Req(r).op = "retry" /\ call[r].at = "version"
StaysQuiet(r) ==
    Quiet(r)' => Quiet(r) /\ (db' = db \/ \E ids, patch : NameOnly(r, ids, patch) /\ Update("test", ids, patch))

(* r has written its columns. *)
Landed(r) ==
    \/ Req(r).op \in OnOneTest /\ call[r].at = "ok"
    \/ Req(r).op = "updateTest" /\ call[r].at \in {"validate", "version", "current", "ok"}
Lands(r) ==
    Landed(r)' => Landed(r) \/ Writes(r) = << >> \/ Update("test", {Req(r).id}, Writes(r))

Moves(r) ==
    /\ call' = [call EXCEPT ![r] = call'[r]] /\ DOMAIN call'[r] = DOMAIN NewCall
    /\ work' = work

Steps(r) == Statement(r) /\ Moves(r) /\ StaysQuiet(r) /\ Lands(r) /\ call'[r].at # "start"

-----------------------------------------------------------------------------
(* Going to the next place. *)
LEMMA GoMoves ==
    ASSUME CatalogKnown, NEW r \in Requests, NEW place, Go(r, place), work' = work
    PROVE  Moves(r) /\ call'[r].at = place
<1>1. r \in DOMAIN call /\ DOMAIN call[r] = DOMAIN NewCall BY DEF CatalogKnown
<1>2. "at" \in DOMAIN NewCall BY DEF NewCall
<1> QED BY <1>1, <1>2 DEF Go, Moves

LEMMA GoWithMoves ==
    ASSUME CatalogKnown, NEW r \in Requests, NEW place, NEW what, GoWith(r, place, what), work' = work,
           DOMAIN what \subseteq {"seen", "runs", "row", "tests", "batch", "ids"}
    PROVE  Moves(r) /\ call'[r].at = place
<1>1. r \in DOMAIN call /\ DOMAIN call[r] = DOMAIN NewCall BY DEF CatalogKnown
<1>2. DOMAIN NewCall = {"at", "seen", "runs", "row", "tests", "batch", "ids"} BY DEF NewCall
<1> DEFINE new == [at |-> place] ++ what ++ call[r]
<1>3. call' = [call EXCEPT ![r] = new] BY DEF GoWith
<1>4. call'[r] = new BY <1>1, <1>3
<1>5. DOMAIN ([at |-> place] ++ what) = {"at"} \cup DOMAIN what BY DEF ++
<1>6. DOMAIN new = ({"at"} \cup DOMAIN what) \cup DOMAIN call[r] BY <1>5 DEF ++
<1>7. DOMAIN new = DOMAIN NewCall BY <1>1, <1>2, <1>6
<1>8. ([at |-> place] ++ what).at = place BY DEF ++
<1>9. new.at = place BY <1>5, <1>8 DEF ++
<1> HIDE DEF new
<1> QED BY <1>3, <1>4, <1>7, <1>9 DEF Moves

LEMMA Plain ==
    ASSUME NEW r, Moves(r), Statement(r), Req(r).op \notin OnOneTest \cup {"updateTest"},
           call'[r].at \notin {"start", "refused"}, Req(r).op = "retry" => call'[r].at # "version"
    PROVE  Steps(r)
<1>1. Req(r)' = Req(r) BY DEF Moves, Req
<1>2. ~ Quiet(r)' BY <1>1 DEF Quiet
<1>3. ~ Landed(r)' BY <1>1 DEF Landed
<1> QED BY <1>2, <1>3 DEF Steps, StaysQuiet, Lands

LEMMA ReadOnly ==
    ASSUME NEW r, Moves(r), call'[r].at # "start", Read, Quiet(r), Req(r).op \notin OnOneTest \cup {"updateTest"}
    PROVE  Steps(r)
<1>1. Req(r)' = Req(r) BY DEF Moves, Req
<1>3. ~ Landed(r)' BY <1>1 DEF Landed
<1>4. db' = db /\ next' = next BY DEF Read
<1> QED BY <1>3, <1>4 DEF Steps, StaysQuiet, Lands, Statement


-----------------------------------------------------------------------------
(* The statements of each handler. *)
LEMMA TableNames ==
    Tables = {"org", "apiKey", "project", "secret", "test", "folder", "alert", "action", "loginFlow",
              "testVersion", "baseline", "schedule", "run", "stepResult", "captureRun", "captureStep"}
BY DEF Tables, References

LEMMA HomesSteps ==
    ASSUME CatalogKnown, NEW r \in Requests, work' = work, Homes(r)
    PROVE  Steps(r)
<1> USE TableNames
<1>1. Req(r).op \in InProject \cup InOrg
  <2>1. FindProject(r) => Req(r).op \in InProject BY DEF FindProject, At
  <2>2. FindOrg(r) => Req(r).op \in InOrg BY DEF FindOrg, At
  <2>3. MakeOrg(r) => Req(r).op \in InProject \cup InOrg BY DEF MakeOrg, At
  <2>4. MakeProject(r) => Req(r).op \in InProject BY DEF MakeProject, At
  <2>5. CreateAtHome(r) => Req(r).op \in InProject \cup InOrg BY DEF CreateAtHome, At
  <2>6. ListFolders(r) => Req(r).op \in InProject BY DEF ListFolders, At, InProject
  <2> QED BY <2>1, <2>2, <2>3, <2>4, <2>5, <2>6 DEF Homes
<1>2. Req(r).op \notin OnOneTest \cup {"updateTest"} /\ Req(r).op # "retry" BY <1>1 DEF InProject, InOrg, OnOneTest
<1>3. ASSUME Read PROVE Statement(r) BY <1>3 DEF Read, Statement
<1>4. ASSUME NEW place, Go(r, place), Statement(r), place \notin {"start", "refused"} PROVE Steps(r)
  BY <1>4, <1>2, GoMoves, Plain
<1>5. ASSUME NEW place, NEW x, GoWith(r, place, [seen |-> x]), Statement(r), place \notin {"start", "refused"}
      PROVE  Steps(r)
  <2>1. Moves(r) /\ call'[r].at = place BY <1>5, GoWithMoves
  <2> QED BY <2>1, <1>5, <1>2, Plain
<1>6. CASE FindProject(r)
  <2>1. CASE Invalid(r)
    <3>1. Go(r, "refused") /\ Read /\ call[r].at = "start" BY <1>6, <2>1 DEF FindProject, At, Refuse
    <3> QED BY <3>1, <1>2, GoMoves, ReadOnly DEF Quiet
  <2>2. CASE ~ Invalid(r)
    <3>1. Read /\ (GoWith(r, "home", [seen |-> {Oldest("project")}]) \/ Go(r, "makeOrg")) BY <1>6, <2>2 DEF FindProject
    <3> QED BY <3>1, <1>3, <1>4, <1>5
  <2> QED BY <2>1, <2>2
<1>7. CASE FindOrg(r)
  <2>1. Read /\ (GoWith(r, "home", [seen |-> {Oldest("org")}]) \/ Go(r, "makeOrg")) BY <1>7 DEF FindOrg
  <2> QED BY <2>1, <1>3, <1>4, <1>5
<1>8. CASE MakeOrg(r)
  <2>1. PICK place \in {"home", "makeProject"} : GoWith(r, place, [seen |-> {next}]) BY <1>8 DEF MakeOrg
  <2>2. Statement(r) BY <1>8 DEF MakeOrg, Statement
  <2> QED BY <2>1, <2>2, <1>5
<1>9. CASE MakeProject(r)
  <2>1. Statement(r) BY <1>9 DEF MakeProject, Statement
  <2> QED BY <2>1, <1>9, <1>5 DEF MakeProject
<1>10. CASE CreateAtHome(r)
  <2>1. Req(r).op \in {"createSecret", "createFolder", "createAction", "createFlow"} BY <1>10 DEF CreateAtHome, At, InProject, InOrg
  <2>2. Statement(r) BY <1>10, <2>1 DEF CreateAtHome, Statement
  <2> QED BY <2>2, <1>10, <1>4 DEF CreateAtHome
<1>11. CASE ListFolders(r) BY <1>11, <1>3, <1>5 DEF ListFolders
<1> QED BY <1>6, <1>7, <1>8, <1>9, <1>10, <1>11 DEF Homes

LEMMA PlainGo ==
    ASSUME CatalogKnown, NEW r \in Requests, work' = work, NEW place,
           \/ Go(r, place)
           \/ \E what : GoWith(r, place, what) /\ DOMAIN what \subseteq {"seen", "runs", "row", "tests", "batch", "ids"},
           Statement(r), Req(r).op \notin OnOneTest \cup {"updateTest"},
           place \notin {"start", "refused", "version"} \/ (place = "version" /\ Req(r).op # "retry")
    PROVE  Steps(r)
<1>1. Moves(r) /\ call'[r].at = place BY GoMoves, GoWithMoves
<1> QED BY <1>1, Plain

LEMMA PatchOf ==
    ASSUME NEW r
    PROVE  /\ Req(r).op = "updateSettings" => Patch(r) = [settings |-> Req(r).settings]
           /\ Req(r).op = "moveTest" => Patch(r) = [folder |-> Req(r).folder]
           /\ Req(r).op = "setData" => \E x : Patch(r) = [data |-> x]
BY DEF Patch

LEMMA PatchRowSteps ==
    ASSUME CatalogKnown, NEW r \in Requests, work' = work, PatchRow(r)
    PROVE  Steps(r)
<1>0. Req(r).op \in DOMAIN Patched /\ call[r].at = "start" BY DEF PatchRow, At
<1>1. Req(r).op \in OnOneTest \cup {"renameFolder", "setCollapsed", "updateAction", "updateFlow"}
  BY <1>0 DEF Patched, OnOneTest
<1>2. Quiet(r) BY <1>0 DEF Quiet
<1>3. ASSUME Read PROVE Statement(r) BY <1>3 DEF Read, Statement
<1>4. CASE Invalid(r)
  <2>1. Go(r, "refused") /\ Read BY <1>4 DEF PatchRow, Refuse
  <2>2. Moves(r) /\ call'[r].at = "refused" BY <2>1, GoMoves
  <2>3. ~ Landed(r)' BY <2>2, <1>1 DEF Moves, Landed, Req, OnOneTest
  <2>4. db' = db BY <2>1 DEF Read
  <2> QED BY <2>1, <2>2, <2>3, <2>4, <1>2, <1>3 DEF Steps, StaysQuiet, Lands
<1>5. CASE ~ Invalid(r)
  <2>1. /\ Go(r, "ok")
        /\ IF Patch(r) # << >> THEN Update(Patched[Req(r).op], {Req(r).id}, Patch(r)) ELSE Read
    BY <1>5 DEF PatchRow
  <2>2. Moves(r) /\ call'[r].at = "ok" BY <2>1, GoMoves
  <2>3. Req(r)' = Req(r) BY <2>2 DEF Moves, Req
  <2>4. ~ Quiet(r)' BY <2>2, <2>3 DEF Quiet
  <2>5. CASE Req(r).op \in OnOneTest
    <3>1. \/ Req(r).op = "updateSettings" /\ Patch(r) = [settings |-> Req(r).settings]
          \/ Req(r).op = "moveTest" /\ Patch(r) = [folder |-> Req(r).folder]
          \/ Req(r).op = "setData" /\ \E x : Patch(r) = [data |-> x]
      BY <2>5, PatchOf DEF OnOneTest
    <3>2. DOMAIN Patch(r) \subseteq Touches(r, Req(r).id) BY <3>1 DEF Touches
    <3>3. DOMAIN Patch(r) # {} BY <3>1
    <3>4. DOMAIN << >> = {} OBVIOUS
    <3>5. Patch(r) # << >> BY <3>3, <3>4
    <3>6. Patched[Req(r).op] = "test" BY <2>5 DEF OnOneTest, Patched
    <3>7. Update("test", {Req(r).id}, Patch(r)) BY <2>1, <3>5, <3>6
    <3>8. Statement(r) BY <3>2, <3>7 DEF Statement
    <3>9. Writes(r) = Patch(r) BY <2>5 DEF Writes, OnOneTest
    <3> QED BY <2>2, <2>4, <3>7, <3>8, <3>9 DEF Steps, StaysQuiet, Lands
  <2>6. CASE Req(r).op \notin OnOneTest
    <3>1. Patched[Req(r).op] \in {"folder", "action", "loginFlow"} BY <2>6, <1>1 DEF OnOneTest, Patched
    <3>2. Patched[Req(r).op] \in Tables \ {"test"} BY <3>1, TableNames
    <3>3. Statement(r) BY <2>1, <3>2, <1>3 DEF Statement
    <3> QED BY <2>2, <3>3, <2>6, <1>1, Plain
  <2> QED BY <2>5, <2>6
<1> QED BY <1>4, <1>5

LEMMA SmallSteps ==
    ASSUME CatalogKnown, NEW r \in Requests, work' = work, Small(r)
    PROVE  Steps(r)
<1> USE TableNames
<1>3. ASSUME Read PROVE Statement(r) BY <1>3 DEF Read, Statement
<1>4. CASE PatchRow(r) BY <1>4, PatchRowSteps
<1>5. CASE DropRow(r)
  <2>1. Req(r).op \in DOMAIN Dropped BY <1>5 DEF DropRow, At
  <2>2. Req(r).op \notin OnOneTest \cup {"updateTest"} /\ Req(r).op # "retry" BY <2>1 DEF Dropped, OnOneTest
  <2>3. Dropped[Req(r).op] \in Tables BY <2>1 DEF Dropped
  <2>4. Statement(r) BY <1>5, <2>3 DEF DropRow, Statement
  <2> QED BY <2>2, <2>4, <1>5, PlainGo DEF DropRow
<1>6. CASE CreateSchedule(r)
  <2>1. Req(r).op = "createSchedule" BY <1>6 DEF CreateSchedule, At
  <2>2. Req(r).op \notin OnOneTest \cup {"updateTest"} BY <2>1 DEF OnOneTest
  <2>3. \/ Insert("schedule", [of |-> Req(r).id]) /\ Go(r, "ok")
        \/ Go(r, "failed") /\ Read BY <1>6 DEF CreateSchedule
  <2>4. Statement(r) BY <2>3, <1>3 DEF Statement
  <2> QED BY <2>2, <2>3, <2>4, PlainGo
<1>7. CASE CreateApiKey(r)
  <2>1. Req(r).op = "createApiKey" BY <1>7 DEF CreateApiKey, At
  <2>2. Req(r).op \notin OnOneTest \cup {"updateTest"} BY <2>1 DEF OnOneTest
  <2>4. Statement(r) /\ Go(r, "ok") BY <1>7 DEF CreateApiKey, Statement
  <2> QED BY <2>2, <2>4, PlainGo
<1>8. CASE FindAlertTest(r)
  <2>1. Req(r).op = "createAlert" BY <1>8 DEF FindAlertTest, At
  <2>2. Req(r).op \notin OnOneTest \cup {"updateTest"} BY <2>1 DEF OnOneTest
  <2>3. (\E x : GoWith(r, "alert", [seen |-> x])) \/ Go(r, "failed") BY <1>8 DEF FindAlertTest
  <2>9. Read BY <1>8 DEF FindAlertTest
  <2>4. Statement(r) BY <2>9, <1>3
  <2>5. CASE Go(r, "failed") BY <2>5, <2>4, <2>2, PlainGo
  <2>6. ASSUME NEW x, GoWith(r, "alert", [seen |-> x]) PROVE Steps(r)
    <3>1. DOMAIN [seen |-> x] \subseteq {"seen", "runs", "row", "tests", "batch", "ids"} OBVIOUS
    <3> QED BY <2>6, <2>4, <2>2, <3>1, PlainGo
  <2> QED BY <2>3, <2>5, <2>6
<1>9. CASE InsertAlert(r)
  <2>1. Req(r).op = "createAlert" BY <1>9 DEF InsertAlert, At
  <2>2. Req(r).op \notin OnOneTest \cup {"updateTest"} BY <2>1 DEF OnOneTest
  <2>4. Statement(r) /\ Go(r, "ok") BY <1>9 DEF InsertAlert, Statement
  <2> QED BY <2>2, <2>4, PlainGo
<1> QED BY <1>4, <1>5, <1>6, <1>7, <1>8, <1>9 DEF Small

LEMMA FoldersSteps ==
    ASSUME CatalogKnown, NEW r \in Requests, work' = work, Folders(r)
    PROVE  Steps(r)
<1> USE TableNames
<1>1. Req(r).op \in {"moveFolder", "removeFolder"}
  BY DEF Folders, CheckMove, PlaceFolder, FindFolder, LiftFolders, LiftTests, DeleteFolder, At
<1>2. Req(r).op \notin OnOneTest \cup {"updateTest"} /\ Req(r).op # "retry" BY <1>1 DEF OnOneTest
<1>3. ASSUME Read PROVE Statement(r) BY <1>3 DEF Read, Statement
<1>4. CASE CheckMove(r)
  <2>1. call[r].at = "start" /\ Read /\ (Go(r, "refused") \/ Go(r, "place")) BY <1>4 DEF CheckMove, At
  <2>2. CASE Go(r, "refused") BY <2>1, <2>2, <1>2, GoMoves, ReadOnly DEF Quiet
  <2>3. CASE Go(r, "place") BY <2>1, <2>3, <1>2, <1>3, PlainGo
  <2> QED BY <2>1, <2>2, <2>3
<1>5. CASE PlaceFolder(r)
  <2>1. Statement(r) /\ Go(r, "ok") BY <1>5 DEF PlaceFolder, Statement
  <2> QED BY <2>1, <1>2, PlainGo
<1>6. CASE FindFolder(r)
  <2>1. (\E x : GoWith(r, "folders", [seen |-> x])) \/ Go(r, "ok") BY <1>6 DEF FindFolder
  <2>9. Read BY <1>6 DEF FindFolder
  <2>2. Statement(r) BY <2>9, <1>3
  <2>5. CASE Go(r, "ok") BY <2>5, <2>2, <1>2, PlainGo
  <2>6. ASSUME NEW x, GoWith(r, "folders", [seen |-> x]) PROVE Steps(r)
    <3>1. DOMAIN [seen |-> x] \subseteq {"seen", "runs", "row", "tests", "batch", "ids"} OBVIOUS
    <3> QED BY <2>6, <2>2, <1>2, <3>1, PlainGo
  <2> QED BY <2>1, <2>5, <2>6
<1>7. CASE LiftFolders(r)
  <2>1. Statement(r) /\ Go(r, "tests") BY <1>7 DEF LiftFolders, Statement
  <2> QED BY <2>1, <1>2, PlainGo
<1>8. CASE LiftTests(r)
  <2>0. Req(r).op = "removeFolder" BY <1>8 DEF LiftTests, At
  <2>1. PICK up, ids : Update("test", ids, [folder |-> up]) BY <1>8 DEF LiftTests
  <2>2. \A i \in ids : DOMAIN [folder |-> up] \subseteq Touches(r, i) BY <2>0 DEF Touches
  <2>3. Statement(r) BY <2>1, <2>2 DEF Statement
  <2> QED BY <2>3, <1>8, <1>2, PlainGo DEF LiftTests
<1>9. CASE DeleteFolder(r)
  <2>1. Statement(r) /\ Go(r, "ok") BY <1>9 DEF DeleteFolder, Statement
  <2> QED BY <2>1, <1>2, PlainGo
<1> QED BY <1>4, <1>5, <1>6, <1>7, <1>8, <1>9 DEF Folders


LEMMA PlainGoWith ==
    ASSUME CatalogKnown, NEW r \in Requests, work' = work, NEW place, NEW what, GoWith(r, place, what),
           DOMAIN what \subseteq {"seen", "runs", "row", "tests", "batch", "ids"},
           Statement(r), Req(r).op \notin OnOneTest \cup {"updateTest"},
           place \notin {"start", "refused", "version"} \/ (place = "version" /\ Req(r).op # "retry")
    PROVE  Steps(r)
BY PlainGo

(* Only updateTest writes a test's name; what follows belongs to its version. *)
LEMMA EditsSteps ==
    ASSUME CatalogKnown, NEW r \in Requests, work' = work, Edits(r)
    PROVE  Steps(r)
<1> USE TableNames
<1>3. ASSUME Read PROVE Statement(r) BY <1>3 DEF Read, Statement
<1>4. CASE InsertTest(r)
  <2>1. Req(r).op = "createTest" BY <1>4 DEF InsertTest, At
  <2>2. Req(r).op \notin OnOneTest \cup {"updateTest"} BY <2>1 DEF OnOneTest
  <2>3. Statement(r) BY <1>4 DEF InsertTest, Statement
  <2>4. GoWith(r, "version", [seen |-> {next}]) BY <1>4 DEF InsertTest
  <2>5. DOMAIN [seen |-> {next}] \subseteq {"seen", "runs", "row", "tests", "batch", "ids"} OBVIOUS
  <2> QED BY <2>1, <2>2, <2>3, <2>4, <2>5, PlainGoWith
<1>5. CASE FindTest(r)
  <2>1. Req(r).op = "updateTest" /\ call[r].at = "start" /\ Read BY <1>5 DEF FindTest, At
  <2>2. db' = db /\ Quiet(r) BY <2>1 DEF Read, Quiet
  <2>3. ASSUME Moves(r), call'[r].at \in {"name", "refused"} PROVE Steps(r)
    <3>1. Req(r)' = Req(r) BY <2>3 DEF Moves, Req
    <3>2. ~ Landed(r)' BY <2>3, <2>1, <3>1 DEF Landed, OnOneTest
    <3> QED BY <2>3, <2>1, <2>2, <3>2, <1>3 DEF Steps, StaysQuiet, Lands
  <2>4. CASE Go(r, "refused") BY <2>3, <2>4, GoMoves
  <2>5. ASSUME NEW x, NEW y, GoWith(r, "name", [seen |-> x, row |-> y]) PROVE Steps(r)
    <3>1. DOMAIN [seen |-> x, row |-> y] \subseteq {"seen", "runs", "row", "tests", "batch", "ids"} OBVIOUS
    <3> QED BY <3>1, <2>3, <2>5, GoWithMoves
  <2>6. Go(r, "refused") \/ \E x, y : GoWith(r, "name", [seen |-> x, row |-> y]) BY <1>5 DEF FindTest
  <2> QED BY <2>4, <2>5, <2>6
<1>6. CASE RenameTest(r)
  <2>1. Req(r).op = "updateTest" /\ call[r].at = "name" BY <1>6 DEF RenameTest, At
  <2>2. Quiet(r) BY <2>1 DEF Quiet
  <2>3. Moves(r) /\ call'[r].at \in {"validate", "ok"}
    <3>1. \E place \in {"validate", "ok"} : Go(r, place) BY <1>6 DEF RenameTest
    <3> QED BY <3>1, GoMoves
  <2>4. CASE "name" \in DOMAIN Req(r)
    <3>1. Update("test", {Req(r).id}, [name |-> Req(r).name]) BY <1>6, <2>4 DEF RenameTest
    <3>2. DOMAIN [name |-> Req(r).name] \subseteq Touches(r, Req(r).id) BY <2>1 DEF Touches
    <3>3. Statement(r) BY <3>1, <3>2 DEF Statement
    <3>4. Writes(r) = [name |-> Req(r).name] BY <2>1, <2>4 DEF Writes
    <3>5. NameOnly(r, {Req(r).id}, [name |-> Req(r).name]) BY <2>1 DEF NameOnly
    <3> QED BY <2>2, <2>3, <3>1, <3>3, <3>4, <3>5 DEF Steps, StaysQuiet, Lands
  <2>5. CASE "name" \notin DOMAIN Req(r)
    <3>1. Read BY <1>6, <2>5 DEF RenameTest
    <3>2. db' = db BY <3>1 DEF Read
    <3>3. Writes(r) = << >> BY <2>1, <2>5 DEF Writes
    <3> QED BY <2>2, <2>3, <3>1, <3>2, <3>3, <1>3 DEF Steps, StaysQuiet, Lands
  <2> QED BY <2>4, <2>5
<1>7. CASE ValidateEdit(r)
  <2>1. Req(r).op = "updateTest" /\ call[r].at = "validate" /\ Read BY <1>7 DEF ValidateEdit, At
  <2>2. Moves(r) /\ call'[r].at \in {"refused", "version"}
    <3>1. \E place \in {"refused", "version"} : Go(r, place) BY <1>7 DEF ValidateEdit
    <3> QED BY <3>1, GoMoves
  <2>3. Quiet(r) /\ Landed(r) /\ db' = db BY <2>1 DEF Quiet, Landed, Read
  <2> QED BY <2>1, <2>2, <2>3, <1>3 DEF Steps, StaysQuiet, Lands
<1>8. CASE InsertVersion(r)
  <2>1. Req(r).op \in {"createTest", "updateTest"} /\ call[r].at = "version" BY <1>8 DEF InsertVersion, At
  <2>3. \/ (\E row : Insert("testVersion", row)) /\ \E x : GoWith(r, "current", [ids |-> x])
        \/ Go(r, "failed") /\ Read BY <1>8 DEF InsertVersion
  <2>4. Statement(r) BY <2>3, <1>3 DEF Statement
  <2>5. Moves(r) /\ call'[r].at \in {"current", "failed"}
    <3>1. ASSUME NEW x, GoWith(r, "current", [ids |-> x]) PROVE Moves(r) /\ call'[r].at = "current"
      <4>1. DOMAIN [ids |-> x] \subseteq {"seen", "runs", "row", "tests", "batch", "ids"} OBVIOUS
      <4> QED BY <3>1, <4>1, GoWithMoves
    <3> QED BY <2>3, <3>1, GoMoves
  <2>6. Req(r)' = Req(r) BY <2>5 DEF Moves, Req
  <2>7. ~ Quiet(r)' BY <2>1, <2>5, <2>6 DEF Quiet
  <2>8. Lands(r)
    <3>1. CASE Req(r).op = "createTest" BY <3>1, <2>6 DEF Lands, Landed, OnOneTest
    <3>2. CASE Req(r).op = "updateTest" BY <3>2, <2>1 DEF Lands, Landed
    <3> QED BY <3>1, <3>2, <2>1
  <2> QED BY <2>4, <2>5, <2>7, <2>8 DEF Steps, StaysQuiet
<1>9. CASE SetCurrent(r)
  <2>1. Req(r).op \in {"createTest", "updateTest"} /\ call[r].at = "current" BY <1>9 DEF SetCurrent, At
  <2>2. PICK ids, v : Update("test", ids, [current |-> v]) BY <1>9 DEF SetCurrent
  <2>3. \A i \in ids : DOMAIN [current |-> v] \subseteq Touches(r, i) BY <2>1 DEF Touches
  <2>4. Statement(r) BY <2>2, <2>3 DEF Statement
  <2>5. Moves(r) /\ call'[r].at = "ok" BY <1>9, GoMoves DEF SetCurrent
  <2>6. Req(r)' = Req(r) BY <2>5 DEF Moves, Req
  <2>7. ~ Quiet(r)' BY <2>1, <2>5, <2>6 DEF Quiet
  <2>8. Lands(r)
    <3>1. CASE Req(r).op = "createTest" BY <3>1, <2>6 DEF Lands, Landed, OnOneTest
    <3>2. CASE Req(r).op = "updateTest" BY <3>2, <2>1 DEF Lands, Landed
    <3> QED BY <3>1, <3>2, <2>1
  <2> QED BY <2>4, <2>5, <2>7, <2>8 DEF Steps, StaysQuiet
<1> QED BY <1>4, <1>5, <1>6, <1>7, <1>8, <1>9 DEF Edits

(* The statements of a removal. *)
LEMMA PartSteps ==
    ASSUME CatalogKnown, NEW r \in Requests, work' = work, NEW parts, RemovePart(r, parts),
           Req(r).op \notin OnOneTest \cup {"updateTest", "retry"},
           \A place \in DOMAIN parts : parts[place][1] \in Tables /\ parts[place][3] \notin {"start", "refused"}
    PROVE  Steps(r)
<1>1. call[r].at \in DOMAIN parts BY DEF RemovePart
<1>2. PICK part : part = parts[call[r].at] OBVIOUS
<1>3. part[1] \in Tables /\ part[3] \notin {"start", "refused"} BY <1>1, <1>2
<1>4. \/ Delete(part[1], part[2]) /\ Go(r, part[3])
      \/ Go(r, "failed") /\ Read BY <1>2 DEF RemovePart
<1>5. Statement(r) BY <1>3, <1>4 DEF Statement, Read
<1> QED BY <1>3, <1>4, <1>5, GoMoves, Plain

LEMMA RemovalsSteps ==
    ASSUME CatalogKnown, NEW r \in Requests, work' = work, RemoveTest(r) \/ RemoveFlow(r) \/ RemoveRun(r)
    PROVE  Steps(r)
<1> USE TableNames
<1>3. ASSUME Read PROVE Statement(r) BY <1>3 DEF Read, Statement
<1>1. Req(r).op \in {"removeTest", "removeFlow", "removeRun"}
  BY DEF RemoveTest, RemoveFlow, RemoveRun, ReadVersions, ReadRuns, ClearCurrent, ReadCaptures, At
<1>2. Req(r).op \notin OnOneTest \cup {"updateTest", "retry"} BY <1>1 DEF OnOneTest
<1>4. ASSUME Read, NEW place, place \notin {"start", "refused", "version"}, NEW x, GoWith(r, place, [seen |-> x]) PROVE Steps(r)
  <2>1. DOMAIN [seen |-> x] \subseteq {"seen", "runs", "row", "tests", "batch", "ids"} OBVIOUS
  <2> QED BY <2>1, <1>2, <1>3, <1>4, PlainGoWith
<1>5. CASE ReadVersions(r)
  <2>1. Read /\ \E place \in {"baselines", "readRuns"} : GoWith(r, place, [seen |-> TestVersions(r)]) BY <1>5 DEF ReadVersions
  <2> QED BY <2>1, <1>4
<1>6. CASE ReadRuns(r)
  <2>1. PICK x : Read /\ GoWith(r, "steps", [runs |-> x]) BY <1>6 DEF ReadRuns
  <2>2. DOMAIN [runs |-> x] \subseteq {"seen", "runs", "row", "tests", "batch", "ids"} OBVIOUS
  <2> QED BY <2>1, <2>2, <1>2, <1>3, PlainGoWith
<1>7. CASE ClearCurrent(r)
  <2>0. Req(r).op = "removeTest" BY <1>7 DEF ClearCurrent, At
  <2>1. Update("test", {Req(r).id}, [current |-> 0]) /\ Go(r, "versions") BY <1>7 DEF ClearCurrent
  <2>2. \A i \in {Req(r).id} : DOMAIN [current |-> 0] \subseteq Touches(r, i) BY <2>0 DEF Touches
  <2>3. Statement(r) BY <2>1, <2>2 DEF Statement
  <2> QED BY <2>3, <2>1, <1>2, PlainGo
<1>8. CASE RemovePart(r, DeleteParts(r))
  <2>1. \A place \in DOMAIN DeleteParts(r) :
          DeleteParts(r)[place][1] \in Tables /\ DeleteParts(r)[place][3] \notin {"start", "refused"}
    BY DEF DeleteParts
  <2> QED BY <2>1, <1>8, <1>2, PartSteps
<1>9. CASE ReadCaptures(r)
  <2>1. Read /\ \E place \in {"flow", "captureSteps"} : \E x : GoWith(r, place, [seen |-> x]) BY <1>9 DEF ReadCaptures
  <2> QED BY <2>1, <1>4
<1>10. CASE RemovePart(r, FlowParts(r))
  <2>1. \A place \in DOMAIN FlowParts(r) :
          FlowParts(r)[place][1] \in Tables /\ FlowParts(r)[place][3] \notin {"start", "refused"}
    BY DEF FlowParts
  <2> QED BY <2>1, <1>10, <1>2, PartSteps
<1>11. CASE RemovePart(r, RunParts(r))
  <2>1. \A place \in DOMAIN RunParts(r) :
          RunParts(r)[place][1] \in Tables /\ RunParts(r)[place][3] \notin {"start", "refused"}
    BY DEF RunParts
  <2> QED BY <2>1, <1>11, <1>2, PartSteps
<1> QED BY <1>5, <1>6, <1>7, <1>8, <1>9, <1>10, <1>11 DEF RemoveTest, RemoveFlow, RemoveRun


(* A handler goes on with something new to hold. *)
Holds(r, place) ==
    \E what : GoWith(r, place, what) /\ DOMAIN what \subseteq {"seen", "runs", "row", "tests", "batch", "ids"}

LEMMA SkipGoes ==
    ASSUME NEW r, NEW rest, Skip(r, rest)
    PROVE  Go(r, "failed") \/ Holds(r, "test")
<1>1. DOMAIN [tests |-> rest] \subseteq {"seen", "runs", "row", "tests", "batch", "ids"} OBVIOUS
<1>2. Go(r, "failed") \/ GoWith(r, "test", [tests |-> rest]) BY DEF Skip
<1> QED BY <1>1, <1>2 DEF Holds

LEMMA HoldsMoves ==
    ASSUME CatalogKnown, NEW r \in Requests, NEW place, Holds(r, place), work' = work
    PROVE  Moves(r) /\ call'[r].at = place
BY GoWithMoves DEF Holds

LEMMA RunsSteps ==
    ASSUME CatalogKnown, NEW r \in Requests, work' = work, Runs(r)
    PROVE  Steps(r)
<1> USE TableNames
<1>3. ASSUME Read PROVE Statement(r) BY <1>3 DEF Read, Statement
<1>1. Req(r).op \in {"createRuns", "createMany", "retry", "listTests", "execute"}
  <2>1. ReadTest(r) => Req(r).op \in Fanning BY DEF ReadTest, At
  <2>2. InsertRun(r) => Req(r).op \in Fanning \cup {"retry"} BY DEF InsertRun, At
  <2>3. AddJob(r) => Req(r).op \in Fanning \cup {"retry"} BY DEF AddJob, At
  <2>4. RetryReads(r) => Req(r).op = "retry" BY DEF RetryReads, At
  <2>5. ListTests(r) => Req(r).op = "listTests" BY DEF ListTests, At
  <2>6. Execute(r) => Req(r).op = "execute" BY DEF Execute, At
  <2> QED BY <2>1, <2>2, <2>3, <2>4, <2>5, <2>6 DEF Runs, Fanning
<1>2. Req(r).op \notin OnOneTest \cup {"updateTest"} BY <1>1 DEF OnOneTest
<1>4. ASSUME NEW place, Go(r, place) \/ Holds(r, place), place \notin {"start", "refused", "version"}, Statement(r)
      PROVE  Steps(r)
  <2>1. Moves(r) /\ call'[r].at = place BY <1>4, GoMoves, HoldsMoves
  <2> QED BY <2>1, <1>4, <1>2, Plain
<1>5. ASSUME NEW what, NEW place, GoWith(r, place, what),
             DOMAIN what \subseteq {"seen", "runs", "row", "tests", "batch", "ids"}
      PROVE  Holds(r, place)
  BY <1>5 DEF Holds
<1>6. CASE ReadTest(r)
  <2> DEFINE left == Left(r)
             test == db.test[Head(left)]
             what == [tests |-> left, seen |-> {}, row |-> Shared(test, Req(r).flow), batch |-> Batch(test)]
  <2>1. Read BY <1>6 DEF ReadTest
  <2>2. Go(r, "ok") \/ Skip(r, Tail(left)) \/ GoWith(r, "insert", what)
    BY <1>6 DEF ReadTest
  <2>3. DOMAIN what \subseteq {"seen", "runs", "row", "tests", "batch", "ids"} OBVIOUS
  <2> HIDE DEF left, what
  <2>4. Statement(r) BY <2>1, <1>3
  <2>5. CASE Go(r, "ok") BY <2>4, <2>5, <1>4
  <2>6. CASE Skip(r, Tail(left)) BY <2>4, <2>6, <1>4, SkipGoes
  <2>7. CASE GoWith(r, "insert", what) BY <2>3, <2>4, <2>7, <1>4, <1>5
  <2> QED BY <2>2, <2>5, <2>6, <2>7
<1>7. CASE InsertRun(r)
  <2> DEFINE done == [tests |-> Tail(call[r].tests), ids |-> call[r].ids \o SetToSeq(call[r].seen)]
             more == [seen |-> call[r].seen \cup {next}]
  <2>1. \/ GoWith(r, "test", done) /\ Read
        \/ (\E row : Insert("run", row)) /\ GoWith(r, "add", more)
        \/ (Go(r, "failed") \/ Skip(r, Tail(call[r].tests))) /\ Read
    BY <1>7 DEF InsertRun
  <2>2. /\ DOMAIN done \subseteq {"seen", "runs", "row", "tests", "batch", "ids"}
        /\ DOMAIN more \subseteq {"seen", "runs", "row", "tests", "batch", "ids"} OBVIOUS
  <2> HIDE DEF done, more
  <2>3. Statement(r) BY <2>1, <1>3 DEF Statement
  <2>4. Holds(r, "test") \/ Holds(r, "add") \/ Go(r, "failed") BY <2>1, <2>2, <1>5, SkipGoes
  <2> QED BY <2>3, <2>4, <1>4
<1>8. CASE AddJob(r)
  <2> DEFINE what == [batch |-> Tail(call[r].batch)]
  <2>1. db' = db /\ next' = next /\ \E place \in {"ok", "insert"} : GoWith(r, place, what) BY <1>8 DEF AddJob
  <2>2. DOMAIN what \subseteq {"seen", "runs", "row", "tests", "batch", "ids"} OBVIOUS
  <2> HIDE DEF what
  <2>3. Statement(r) BY <2>1 DEF Statement
  <2> QED BY <2>1, <2>2, <2>3, <1>4, <1>5
<1>9. CASE RetryReads(r)
  <2>0. Req(r).op = "retry" /\ Read BY <1>9 DEF RetryReads, At
  <2>1. \/ call[r].at = "start" /\ (Go(r, "refused") \/ \E x : GoWith(r, "version", [row |-> x]))
        \/ call[r].at = "version" /\ (Go(r, "refused") \/ \E x : GoWith(r, "test", [tests |-> x]))
        \/ \E x, y : GoWith(r, "insert", [row |-> x, batch |-> y])
    BY <1>9 DEF RetryReads, At
  <2>2. ASSUME call[r].at \in {"start", "version"}, Go(r, "refused") \/ Holds(r, "version") PROVE Steps(r)
    <3>1. Moves(r) /\ call'[r].at \in {"refused", "version"} BY <2>2, GoMoves, HoldsMoves
    <3>2. Quiet(r) BY <2>0, <2>2 DEF Quiet
    <3> QED BY <3>1, <3>2, <2>0, <1>2, ReadOnly
  <2>3. ASSUME NEW x, GoWith(r, "version", [row |-> x]) PROVE Holds(r, "version")
    <3>1. DOMAIN [row |-> x] \subseteq {"seen", "runs", "row", "tests", "batch", "ids"} OBVIOUS
    <3> QED BY <3>1, <2>3, <1>5
  <2>4. ASSUME NEW x, GoWith(r, "test", [tests |-> x]) PROVE Holds(r, "test")
    <3>1. DOMAIN [tests |-> x] \subseteq {"seen", "runs", "row", "tests", "batch", "ids"} OBVIOUS
    <3> QED BY <3>1, <2>4, <1>5
  <2>5. ASSUME NEW x, NEW y, GoWith(r, "insert", [row |-> x, batch |-> y]) PROVE Holds(r, "insert")
    <3>1. DOMAIN [row |-> x, batch |-> y] \subseteq {"seen", "runs", "row", "tests", "batch", "ids"} OBVIOUS
    <3> QED BY <3>1, <2>5, <1>5
  <2>6. Statement(r) BY <2>0, <1>3
  <2> QED BY <2>1, <2>2, <2>3, <2>4, <2>5, <2>6, <1>4
<1>10. CASE ListTests(r)
  <2>0. Req(r).op = "listTests" /\ Read BY <1>10 DEF ListTests, At
  <2>1. \/ \E x : GoWith(r, "versions", [seen |-> x])
        \/ \E place \in {"runs", "ok"} : \E x : GoWith(r, place, [row |-> x])
    BY <1>10 DEF ListTests
  <2>2. ASSUME NEW x, GoWith(r, "versions", [seen |-> x]) PROVE Holds(r, "versions")
    <3>1. DOMAIN [seen |-> x] \subseteq {"seen", "runs", "row", "tests", "batch", "ids"} OBVIOUS
    <3> QED BY <3>1, <2>2, <1>5
  <2>3. ASSUME NEW x, NEW place, GoWith(r, place, [row |-> x]) PROVE Holds(r, place)
    <3>1. DOMAIN [row |-> x] \subseteq {"seen", "runs", "row", "tests", "batch", "ids"} OBVIOUS
    <3> QED BY <3>1, <2>3, <1>5
  <2>6. Statement(r) BY <2>0, <1>3
  <2> QED BY <2>1, <2>2, <2>3, <2>6, <1>4
<1>11. CASE Execute(r)
  <2>1. \E place \in {"check", "step", "finish", "ok", "failed"} : Go(r, place) BY <1>11 DEF Execute
  <2>2. \/ Read
        \/ \E t \in {"baseline", "stepResult"} : \E row : Insert(t, row)
        \/ \E ids, patch : Update("run", ids, patch)
    BY <1>11 DEF Execute
  <2>3. Statement(r) BY <2>2, <1>3 DEF Statement
  <2> QED BY <2>1, <2>3, <1>4
<1> QED BY <1>6, <1>7, <1>8, <1>9, <1>10, <1>11 DEF Runs

(* An error: the handler answers it, or goes on with the next test. *)
LEMMA FailsSteps ==
    ASSUME CatalogKnown, NEW r \in Requests, work' = work, Fails(r)
    PROVE  Steps(r)
<1>1. Read /\ (Skip(r, Tail(Left(r))) \/ Go(r, "failed")) BY DEF Fails
<1>2. Holds(r, "test") \/ Go(r, "failed") BY <1>1, SkipGoes
<1>3. Moves(r) /\ call'[r].at \in {"test", "failed"} BY <1>2, GoMoves, HoldsMoves
<1>4. Req(r)' = Req(r) BY <1>3 DEF Moves, Req
<1>5. ~ Quiet(r)' BY <1>3, <1>4 DEF Quiet
<1>6. ~ Landed(r)' BY <1>3, <1>4 DEF Landed
<1>7. Statement(r) BY <1>1 DEF Read, Statement
<1> QED BY <1>3, <1>5, <1>6, <1>7 DEF Steps, StaysQuiet, Lands

LEMMA HandleSteps ==
    ASSUME CatalogKnown, NEW r \in Requests, Handle(r)
    PROVE  Steps(r)
<1>1. work' = work BY DEF Handle
<1>2. \/ Homes(r) \/ Edits(r) \/ RemoveTest(r) \/ RemoveFlow(r) \/ RemoveRun(r)
      \/ Small(r) \/ Folders(r) \/ Runs(r) \/ Fails(r)
  BY DEF Handle
<1> QED BY <1>1, <1>2, HomesSteps, EditsSteps, RemovalsSteps, SmallSteps, FoldersSteps, RunsSteps, FailsSteps


-----------------------------------------------------------------------------
LEMMA FirstFreePositive ==
    ASSUME CatalogKnown
    PROVE  /\ FirstFree \in Nat /\ 1 <= FirstFree /\ next \in Nat /\ FirstFree <= next /\ 1 <= next
           /\ \A r \in Requests : Req(r).op \notin NamesNoRow => Req(r).id < FirstFree /\ Req(r).id \in Nat
<1>1. PICK w \in Workloads, enforced \in BOOLEAN : work = [enforced |-> enforced] ++ w BY DEF CatalogKnown
<1>2. work.requests = w.requests /\ InitialIds(work) = InitialIds(w) BY <1>1, WorkKnown
<1>3. Cardinality(InitialIds(w)) \in Nat BY CardKnown
<1>4. FirstFree \in Nat /\ 1 <= FirstFree BY <1>2, <1>3 DEF FirstFree
<1>5. next \in Nat /\ FirstFree <= next BY DEF CatalogKnown
<1>6. ASSUME NEW r \in Requests, Req(r).op \notin NamesNoRow PROVE Req(r).id < FirstFree /\ Req(r).id \in Nat
  <2>1. r \in DOMAIN w.requests /\ Req(r) = w.requests[r] BY <1>2 DEF Requests, Req
  <2>2. Req(r).id \in 0 .. Cardinality(InitialIds(w)) BY <2>1, <1>6, WorkloadsAssumption
  <2> QED BY <2>2, <1>2, <1>3 DEF FirstFree
<1> QED BY <1>4, <1>5, <1>6

(* What a statement leaves alone. *)
LEMMA StatementKeeps ==
    ASSUME CatalogKnown, NEW r \in Requests, Statement(r)
    PROVE  /\ DOMAIN db' = Tables /\ next' \in Nat /\ next <= next'
           /\ \A t \in Tables : Ids(t)' \subseteq 1 .. next' - 1
           /\ \A i \in Ids("test")' :
                \/ i = next
                \/ /\ i \in Ids("test")
                   /\ \A col \in DOMAIN db.test[i] \ Touches(r, i) :
                         col \in DOMAIN db'.test[i] /\ db'.test[i][col] = db.test[i][col]
<1>0. DOMAIN db = Tables /\ next \in Nat BY DEF CatalogKnown
<1>1. "test" \in Tables BY TableNames
<1>2. \A t \in Tables : Ids(t) \subseteq 1 .. next - 1 BY DEF CatalogKnown
<1>3. CASE db' = db /\ next' = next BY <1>0, <1>2, <1>3 DEF Ids
<1>4. ASSUME NEW t \in Tables, NEW row, Insert(t, row) PROVE
        /\ DOMAIN db' = Tables /\ next' = next + 1
        /\ \A u \in Tables \ {t} : db'[u] = db[u]
        /\ DOMAIN db'[t] = {next} \cup DOMAIN db[t]
        /\ \A i \in DOMAIN db[t] \ {next} : db'[t][i] = db[t][i]
  <2>1. db' = [db EXCEPT ![t] = Entry(next, row) ++ db[t]] /\ next' = next + 1 BY <1>4 DEF Insert
  <2>2. db'[t] = Entry(next, row) ++ db[t] BY <2>1, <1>0
  <2>3. DOMAIN Entry(next, row) = {next} BY DEF Entry
  <2> QED BY <2>1, <2>2, <2>3, <1>0 DEF ++
<1>5. ASSUME NEW t \in Tables, NEW row, Insert(t, row) PROVE
        \A u \in Tables : Ids(u)' \subseteq 1 .. next' - 1
  <2> SUFFICES ASSUME NEW u \in Tables PROVE Ids(u)' \subseteq 1 .. next' - 1 OBVIOUS
  <2>1. DOMAIN db'[u] \subseteq {next} \cup DOMAIN db[u] BY <1>4, <1>5
  <2>2. next \in 1 .. next
    <3>1. 1 <= next BY <1>0, CatalogKnown, FirstFreePositive DEF CatalogKnown
    <3> QED BY <3>1, <1>0
  <2>3. DOMAIN db[u] \subseteq 1 .. next - 1 BY <1>2 DEF Ids
  <2>4. next' - 1 = next BY <1>0, <1>4, <1>5
  <2> QED BY <2>1, <2>2, <2>3, <2>4, <1>0 DEF Ids
<1>6. CASE \E t \in Tables : \E row : Insert(t, row)
  <2>1. PICK t \in Tables : \E row : Insert(t, row) BY <1>6
  <2>2. PICK row : Insert(t, row) BY <2>1
  <2>3. CASE t = "test" BY <2>2, <2>3, <1>0, <1>1, <1>4, <1>5 DEF Ids
  <2>4. CASE t # "test" BY <2>2, <2>4, <1>0, <1>1, <1>4, <1>5 DEF Ids
  <2> QED BY <2>3, <2>4
<1>7. CASE \E t \in Tables : \E ids : Delete(t, ids)
  <2>1. PICK t \in Tables : \E ids : Delete(t, ids) BY <1>7
  <2>2. PICK ids : Delete(t, ids) BY <2>1
  <2>3. db' = [db EXCEPT ![t] = Restrict(db[t], DOMAIN db[t] \ ids)] /\ next' = next BY <2>2 DEF Delete
  <2>4. DOMAIN db' = Tables /\ \A u \in Tables \ {t} : db'[u] = db[u] BY <2>3, <1>0
  <2>5. DOMAIN db'[t] = DOMAIN db[t] \ ids /\ \A i \in DOMAIN db[t] \ ids : db'[t][i] = db[t][i] BY <2>3, <1>0 DEF Restrict
  <2>6. \A u \in Tables : DOMAIN db'[u] \subseteq DOMAIN db[u] /\ \A i \in DOMAIN db'[u] : db'[u][i] = db[u][i] BY <2>4, <2>5
  <2>7. DOMAIN db'.test \subseteq DOMAIN db.test /\ \A i \in DOMAIN db'.test : db'.test[i] = db.test[i] BY <2>6, <1>1
  <2>8. \A i \in Ids("test")' : i \in Ids("test")
          /\ \A col \in DOMAIN db.test[i] \ Touches(r, i) : col \in DOMAIN db'.test[i] /\ db'.test[i][col] = db.test[i][col]
    BY <2>7 DEF Ids
  <2>9. \A u \in Tables : Ids(u)' \subseteq 1 .. next' - 1 BY <2>3, <2>6, <1>2 DEF Ids
  <2>10. next' \in Nat /\ next <= next' BY <2>3, <1>0
  <2>11. DOMAIN db' = Tables BY <2>4
  <2> HIDE DEF Touches
  <2> QED BY <2>8, <2>9, <2>10, <2>11
<1>8. ASSUME NEW t \in Tables, NEW ids, NEW patch, Update(t, ids, patch) PROVE
        /\ DOMAIN db' = Tables /\ next' = next
        /\ \A u \in Tables \ {t} : db'[u] = db[u]
        /\ DOMAIN db'[t] = DOMAIN db[t]
        /\ \A i \in DOMAIN db[t] : db'[t][i] = IF i \in ids THEN patch ++ db[t][i] ELSE db[t][i]
  BY <1>8, <1>0 DEF Update
<1>9. ASSUME NEW t \in Tables, NEW ids, NEW patch, Update(t, ids, patch) PROVE
        \A u \in Tables : Ids(u)' \subseteq 1 .. next' - 1
  BY <1>8, <1>9, <1>2 DEF Ids
<1>10. CASE \E t \in Tables \ {"test"} : \E ids, patch : Update(t, ids, patch)
  <2>1. PICK t \in Tables \ {"test"} : \E ids, patch : Update(t, ids, patch) BY <1>10
  <2>2. PICK ids, patch : Update(t, ids, patch) BY <2>1
  <2> QED BY <2>2, <1>0, <1>1, <1>8, <1>9 DEF Ids
<1>11. CASE \E ids, patch : Update("test", ids, patch) /\ \A i \in ids : DOMAIN patch \subseteq Touches(r, i)
  <2>1. PICK ids, patch : Update("test", ids, patch) /\ \A i \in ids : DOMAIN patch \subseteq Touches(r, i) BY <1>11
  <2>2. ASSUME NEW i \in DOMAIN db.test, NEW col \in DOMAIN db.test[i] \ Touches(r, i)
        PROVE  col \in DOMAIN db'.test[i] /\ db'.test[i][col] = db.test[i][col]
    <3>1. db'.test[i] = IF i \in ids THEN patch ++ db.test[i] ELSE db.test[i] BY <2>1, <1>1, <1>8
    <3>2. i \in ids => col \notin DOMAIN patch BY <2>1
    <3> QED BY <3>1, <3>2 DEF ++
  <2> QED BY <2>1, <2>2, <1>0, <1>1, <1>8, <1>9 DEF Ids
<1> QED BY <1>3, <1>6, <1>7, <1>10, <1>11 DEF Statement

LEMMA KnownStep == CatalogKnown /\ [Next]_vars => CatalogKnown'
<1> SUFFICES ASSUME CatalogKnown, [Next]_vars PROVE CatalogKnown' OBVIOUS
<1>1. CASE UNCHANGED vars BY <1>1 DEF vars, CatalogKnown, Requests, Ids, FirstFree, InitialIds
<1>2. CASE Next
  <2>1. PICK r \in Requests : Handle(r) BY <1>2 DEF Next
  <2>2. Statement(r) /\ Moves(r) BY <2>1, HandleSteps DEF Steps
  <2>3. work' = work BY <2>2 DEF Moves
  <2>4. Requests' = Requests /\ FirstFree' = FirstFree BY <2>3 DEF Requests, FirstFree, InitialIds
  <2>5. DOMAIN call' = Requests /\ \A s \in Requests : DOMAIN call'[s] = DOMAIN NewCall
    BY <2>2 DEF Moves, CatalogKnown
  <2>6. (DOMAIN NewCall)' = DOMAIN NewCall BY DEF NewCall
  <2>7. FirstFree <= next /\ FirstFree \in Nat /\ next \in Nat BY FirstFreePositive DEF CatalogKnown
  <2>8. next' \in Nat /\ next <= next' BY <2>2, StatementKeeps
  <2>9. FirstFree <= next' BY <2>7, <2>8
  <2>10. DOMAIN db' = Tables /\ \A t \in Tables : Ids(t)' \subseteq 1 .. next' - 1 BY <2>2, StatementKeeps
  <2>11. \E w \in Workloads, enforced \in BOOLEAN : work' = [enforced |-> enforced] ++ w BY <2>3 DEF CatalogKnown
  <2> QED BY <2>4, <2>5, <2>6, <2>8, <2>9, <2>10, <2>11 DEF CatalogKnown
<1> QED BY <1>1, <1>2

-----------------------------------------------------------------------------
(* An edit's columns last: nothing else writes them. *)
Unopposed(r) ==
    \A s \in Requests \ {r} : Req(s).op # "removeFolder" /\ (Req(s).op = Req(r).op => Req(s).id # Req(r).id)
ColumnsLast ==
    \A r \in Requests : Landed(r) /\ Unopposed(r) /\ Req(r).id \in Ids("test") =>
        \A col \in DOMAIN Writes(r) :
            col \in DOMAIN db.test[Req(r).id] /\ db.test[Req(r).id][col] = Writes(r)[col]

(* Until a request has got further than a name, nothing but names has changed. *)
OnlyNames ==
    (\A r \in Requests : Quiet(r)) =>
        /\ [db EXCEPT !.test = << >>] = [work.db EXCEPT !.test = << >>]
        /\ \A t \in DOMAIN work.db.test :
              /\ t \in Ids("test") /\ DOMAIN db.test[t] \subseteq DOMAIN work.db.test[t] \cup {"name"}
              /\ \A col \in DOMAIN db.test[t] \ {"name"} : db.test[t][col] = work.db.test[t][col]

LEMMA WritesOne ==
    ASSUME NEW r
    PROVE  /\ Req(r).op = "updateSettings" => DOMAIN Writes(r) = {"settings"}
           /\ Req(r).op = "moveTest" => DOMAIN Writes(r) = {"folder"}
           /\ Req(r).op = "setData" => DOMAIN Writes(r) = {"data"}
           /\ Req(r).op = "updateTest" => DOMAIN Writes(r) \subseteq {"name"}
<1>1. DOMAIN << >> = {} OBVIOUS
<1>2. Req(r).op \in OnOneTest => Writes(r) = Patch(r) BY DEF Writes, OnOneTest
<1>3. Req(r).op = "updateTest" => Writes(r) = [name |-> Req(r).name] \/ Writes(r) = << >> BY DEF Writes
<1> QED BY <1>1, <1>2, <1>3, PatchOf DEF OnOneTest

LEMMA ColumnsStep ==
    ASSUME CatalogKnown, ColumnsLast, NEW s \in Requests, Handle(s)
    PROVE  ColumnsLast'
<1>1. Steps(s) /\ ~ Answered(s) BY HandleSteps DEF Handle
<1>2. work' = work /\ Moves(s) /\ Lands(s) /\ Statement(s) BY <1>1 DEF Steps, Moves
<1>3. Requests' = Requests /\ \A r : Req(r)' = Req(r) BY <1>2 DEF Requests, Req
<1> SUFFICES ASSUME NEW r \in Requests, Landed(r)', Unopposed(r), Req(r).id \in Ids("test")', NEW col \in DOMAIN Writes(r)
             PROVE  col \in DOMAIN db'.test[Req(r).id] /\ db'.test[Req(r).id][col] = Writes(r)[col]
  <2>1. \A r : Writes(r)' = Writes(r) BY <1>2 DEF Writes, Patch, Req
  <2>2. \A r \in Requests : Unopposed(r)' = Unopposed(r) BY <1>3 DEF Unopposed
  <2> QED BY <1>3, <2>1, <2>2 DEF ColumnsLast
<1>4. Req(r).op \in OnOneTest \cup {"updateTest"} BY <1>3 DEF Landed
<1>5. Req(r).op \notin NamesNoRow BY <1>4 DEF OnOneTest, NamesNoRow
<1>6. Req(r).id < next /\ Req(r).id \in Nat /\ next \in Nat
  BY <1>5, FirstFreePositive
<1>7. /\ Req(r).id \in Ids("test")
      /\ \A c \in DOMAIN db.test[Req(r).id] \ Touches(s, Req(r).id) :
            c \in DOMAIN db'.test[Req(r).id] /\ db'.test[Req(r).id][c] = db.test[Req(r).id][c]
  BY <1>2, <1>6, StatementKeeps
<1>8. /\ Req(r).op = "updateSettings" => col = "settings"
      /\ Req(r).op = "moveTest" => col = "folder"
      /\ Req(r).op = "setData" => col = "data"
      /\ Req(r).op = "updateTest" => col = "name"
  BY WritesOne
<1>9. CASE Landed(r)
  <2>1. col \in DOMAIN db.test[Req(r).id] /\ db.test[Req(r).id][col] = Writes(r)[col] BY <1>7, <1>9 DEF ColumnsLast
  <2>2. col \notin Touches(s, Req(r).id)
    <3>1. CASE s = r
      <4>1. Req(r).op = "updateTest" /\ call[r].at # "name" BY <3>1, <1>1, <1>9 DEF Landed, Answered
      <4> QED BY <3>1, <4>1, <1>8 DEF Touches
    <3>2. CASE s # r
      <4>1. Req(s).op # "removeFolder" /\ (Req(s).op = Req(r).op => Req(s).id # Req(r).id) BY <3>2 DEF Unopposed
      <4> QED BY <4>1, <1>4, <1>8 DEF Touches, OnOneTest
    <3> QED BY <3>1, <3>2
  <2> QED BY <2>1, <2>2, <1>7
<1>10. CASE ~ Landed(r)
  <2>1. s = r
    <3>1. s # r => call'[r] = call[r] BY <1>2 DEF Moves, CatalogKnown
    <3> QED BY <3>1, <1>3, <1>10 DEF Landed
  <2>2. Writes(r) = << >> \/ Update("test", {Req(r).id}, Writes(r)) BY <2>1, <1>2, <1>10 DEF Lands
  <2>3. Writes(r) # << >>
    <3>1. DOMAIN << >> = {} OBVIOUS
    <3> QED BY <3>1
  <2>4. db' = [db EXCEPT !["test"] = [i \in DOMAIN db.test |-> IF i \in {Req(r).id} THEN Writes(r) ++ db.test[i] ELSE db.test[i]]]
    BY <2>2, <2>3 DEF Update
  <2>5. "test" \in DOMAIN db BY TableNames DEF CatalogKnown
  <2>6. db'.test[Req(r).id] = Writes(r) ++ db.test[Req(r).id] BY <2>4, <2>5, <1>7 DEF Ids
  <2> QED BY <2>6 DEF ++
<1> QED BY <1>9, <1>10

LEMMA NamesStep ==
    ASSUME CatalogKnown, OnlyNames, NEW s \in Requests, Handle(s)
    PROVE  OnlyNames'
<1>1. Moves(s) /\ StaysQuiet(s) BY HandleSteps DEF Steps
<1>2. work' = work BY <1>1 DEF Moves
<1>3. Requests' = Requests /\ \A r : Req(r)' = Req(r) BY <1>2 DEF Requests, Req
<1>4. DOMAIN db = Tables /\ "test" \in Tables BY TableNames DEF CatalogKnown
<1> SUFFICES ASSUME \A r \in Requests : Quiet(r)'
             PROVE  /\ [db' EXCEPT !.test = << >>] = [work.db EXCEPT !.test = << >>]
                    /\ \A t \in DOMAIN work.db.test :
                          /\ t \in Ids("test")' /\ DOMAIN db'.test[t] \subseteq DOMAIN work.db.test[t] \cup {"name"}
                          /\ \A col \in DOMAIN db'.test[t] \ {"name"} : db'.test[t][col] = work.db.test[t][col]
  BY <1>2, <1>3 DEF OnlyNames
<1>5. \A r \in Requests : Quiet(r)
  <2>1. \A r \in Requests \ {s} : call'[r] = call[r] BY <1>1 DEF Moves, CatalogKnown
  <2>2. \A r \in Requests \ {s} : Quiet(r) BY <2>1, <1>3 DEF Quiet
  <2> QED BY <2>2, <1>1 DEF StaysQuiet
<1>6. /\ [db EXCEPT !.test = << >>] = [work.db EXCEPT !.test = << >>]
      /\ \A t \in DOMAIN work.db.test :
            /\ t \in Ids("test") /\ DOMAIN db.test[t] \subseteq DOMAIN work.db.test[t] \cup {"name"}
            /\ \A col \in DOMAIN db.test[t] \ {"name"} : db.test[t][col] = work.db.test[t][col]
  BY <1>5 DEF OnlyNames
<1>7. CASE db' = db BY <1>6, <1>7 DEF Ids
<1>8. ASSUME NEW ids, NEW patch, NameOnly(s, ids, patch), Update("test", ids, patch)
      PROVE  /\ [db' EXCEPT !.test = << >>] = [work.db EXCEPT !.test = << >>]
             /\ \A t \in DOMAIN work.db.test :
                   /\ t \in Ids("test")' /\ DOMAIN db'.test[t] \subseteq DOMAIN work.db.test[t] \cup {"name"}
                   /\ \A col \in DOMAIN db'.test[t] \ {"name"} : db'.test[t][col] = work.db.test[t][col]
  <2>1. DOMAIN patch = {"name"} BY <1>8 DEF NameOnly
  <2> DEFINE rows == [i \in DOMAIN db.test |-> IF i \in ids THEN patch ++ db.test[i] ELSE db.test[i]]
  <2>2. db' = [db EXCEPT !["test"] = rows] BY <1>8 DEF Update
  <2>3. db'.test = rows BY <2>2, <1>4
  <2> HIDE DEF rows
  <2>4. [db' EXCEPT !.test = << >>] = [db EXCEPT !.test = << >>] BY <2>2, <1>4
  <2> USE DEF rows
  <2>5. DOMAIN db'.test = DOMAIN db.test BY <2>3
  <2>6. ASSUME NEW t \in DOMAIN db.test PROVE
          /\ DOMAIN db'.test[t] \subseteq DOMAIN db.test[t] \cup {"name"}
          /\ \A col \in DOMAIN db'.test[t] \ {"name"} : col \in DOMAIN db.test[t] /\ db'.test[t][col] = db.test[t][col]
    <3>1. db'.test[t] = patch ++ db.test[t] \/ db'.test[t] = db.test[t] BY <2>3
    <3> QED BY <3>1, <2>1 DEF ++
  <2> HIDE DEF rows
  <2> QED BY <2>4, <2>5, <2>6, <1>6 DEF Ids
<1> QED BY <1>1, <1>7, <1>8 DEF StaysQuiet

(* Everything above, from the first state on. *)
EditsKnown == CatalogKnown /\ ColumnsLast /\ OnlyNames

LEMMA EditsKnownInit == Init => EditsKnown
<1> SUFFICES ASSUME Init PROVE EditsKnown OBVIOUS
<1>1. CatalogKnown BY CatalogKnownInit
<1>2. PICK w \in Workloads, enforced \in BOOLEAN : work = [enforced |-> enforced] ++ w /\ db = w.db BY DEF Init
<1>3. work.db = db BY <1>2, WorkKnown
<1>4. \A r \in Requests : call[r].at = "start" BY DEF Init, NewCall
<1>5. ColumnsLast BY <1>4 DEF ColumnsLast, Landed
<1>6. OnlyNames BY <1>3 DEF OnlyNames, Ids
<1> QED BY <1>1, <1>5, <1>6 DEF EditsKnown

LEMMA EditsKnownStep == EditsKnown /\ [Next]_vars => EditsKnown'
<1> SUFFICES ASSUME EditsKnown, [Next]_vars PROVE EditsKnown' OBVIOUS
<1>1. CatalogKnown' BY KnownStep DEF EditsKnown
<1>2. CASE Next
  <2>1. PICK s \in Requests : Handle(s) BY <1>2 DEF Next
  <2> QED BY <2>1, <1>1, ColumnsStep, NamesStep DEF EditsKnown
<1>3. CASE UNCHANGED vars
  <2>1. work' = work /\ db' = db /\ call' = call BY <1>3 DEF vars
  <2>2. ColumnsLast' = ColumnsLast
    BY <2>1 DEF ColumnsLast, Landed, Unopposed, Writes, Patch, Req, Requests, Ids
  <2>3. OnlyNames' = OnlyNames BY <2>1 DEF OnlyNames, Quiet, Req, Requests, Ids
  <2> QED BY <1>1, <2>2, <2>3 DEF EditsKnown
<1> QED BY <1>2, <1>3

LEMMA EditsKnownKeeps == EditsKnown => UpdatesKept
<1> SUFFICES ASSUME EditsKnown PROVE UpdatesKept OBVIOUS
<1>1. NoLostColumn
  <2> SUFFICES ASSUME NEW r \in Requests, Ok(r), NEW col \in DOMAIN Writes(r), Req(r).id \in Ids("test"), Unopposed(r)
               PROVE  db.test[Req(r).id][col] = Writes(r)[col]
    BY DEF NoLostColumn, Unopposed
  <2>1. DOMAIN << >> = {} OBVIOUS
  <2>2. Req(r).op \in OnOneTest \cup {"updateTest"} BY <2>1 DEF Writes, OnOneTest
  <2>3. Landed(r) BY <2>2 DEF Landed, Ok
  <2> QED BY <2>3 DEF EditsKnown, ColumnsLast
<1>2. RefusedChangesNothing
  <2> SUFFICES ASSUME \A r \in Requests : call[r].at \in {"start", "refused"}
               PROVE  /\ [db EXCEPT !.test = << >>] = [work.db EXCEPT !.test = << >>]
                      /\ \A t \in DOMAIN work.db.test : t \in Ids("test") /\ \A col \in DOMAIN db.test[t] \ {"name"} :
                            db.test[t][col] = work.db.test[t][col]
    BY DEF RefusedChangesNothing
  <2>1. \A r \in Requests : Quiet(r) BY DEF Quiet
  <2> QED BY <2>1 DEF EditsKnown, OnlyNames
<1> QED BY <1>1, <1>2 DEF UpdatesKept

(* Forms that save different columns of a test at the same time do not undo each
   other, and a refused request has changed no more than a name (routers.ts,
   tests.update, updateSettings, setData; folders and the other handlers). *)
THEOREM EditsNotLost == Spec => []UpdatesKept
<1>1. Spec => []EditsKnown BY EditsKnownInit, EditsKnownStep, PTL DEF Spec
<1> QED BY <1>1, EditsKnownKeeps, PTL

-----------------------------------------------------------------------------
(***************************************************************************)
(* The rows hang together (CatalogInv).  The inductive invariant says what *)
(* each handler may rely on at each of its places, about the rows it holds *)
(* and about the rows it has deleted.                                      *)
(***************************************************************************)
Begun(r)  == call[r].at # "start"
Met(r, s) == r # s /\ Begun(r) /\ Begun(s) /\ Overlap(r, s)
Solo(r)   == \A s \in Requests \ {r} : << s, r >> \in before \/ ~ Begun(s) \/ << r, s >> \in before
Removal(r) == Req(r).op \in Removals
Keyed     == {t \in Tables : References[t] # "none"}

(* Who was answered before whom began, and how many faults there were. *)
OrderKnown ==
    /\ before \subseteq Requests \X Requests
    /\ \A r, s \in Requests : << r, s >> \in before => Answered(r) /\ Begun(s)
    /\ faults \in 0 .. work.faults

(* Every row says what it belongs to; projects and organisations last. *)
Housed == {t \in Tables : References[t] \in {"org", "project"}}
RowsKnown ==
    /\ \A t \in Tables : \A i \in Ids(t) : "of" \in DOMAIN db[t][i]
    /\ \A t \in Keyed : \A i \in Ids(t) : db[t][i].of \in 1 .. next - 1
    /\ \A t \in Housed : \A i \in Ids(t) : db[t][i].of \in Ids(References[t])
    /\ \A i \in Ids("test") : "current" \in DOMAIN db.test[i] /\ db.test[i].current \in 0 .. next - 1

(* What a handler holds. *)
Making(r) == \/ Req(r).op = "createTest" /\ call[r].at \in {"version", "current"}
             \/ Req(r).op = "updateTest" /\ call[r].at \in {"name", "validate", "version", "current"}
HeldKnown(r) ==
    LET c == call[r]
        op == Req(r).op
    IN
    /\ c.ids \in Seq(1 .. next - 1)
    /\ op \in InProject /\ c.at = "makeProject" => c.seen \subseteq Ids("org")
    /\ op \in InProject /\ c.at = "home" => c.seen \subseteq Ids("project")
    /\ op \in InOrg /\ c.at = "home" => c.seen \subseteq Ids("org")
    /\ op = "createAlert" /\ c.at = "alert" => c.seen \subseteq Ids("project")
    /\ Making(r) => \E t \in 1 .. next - 1 : c.seen = {t}
    /\ op \in Fanning \cup {"retry"} /\ c.at \in {"insert", "add"} =>
          /\ IsFiniteSet(c.seen) /\ c.seen \subseteq 1 .. next - 1
          /\ c.row.version \in 1 .. next - 1
    /\ op \in Fanning \cup {"retry"} /\ c.at = "add" => \E i \in c.seen : \A j \in c.seen : j <= i
    /\ op = "retry" /\ c.at \in {"start", "version", "test"} => c.seen = {}
    /\ op = "retry" /\ c.at = "insert" => c.batch # << >>
    /\ op = "retry" /\ c.at = "test" => c.row[1] \in 1 .. next - 1

(* Until a removal begins, what a handler holds is there. *)
NothingRemoved == \A r \in Requests : Removal(r) => ~ Begun(r)
HeldThere(r) ==
    LET c == call[r]
        op == Req(r).op
    IN
    /\ Making(r) => c.seen \subseteq Ids("test")
    /\ op \in Fanning \cup {"retry"} /\ c.at \in {"insert", "add"} => c.row.version \in Ids("testVersion")
    /\ op = "retry" /\ c.at = "test" => c.row[1] \in Ids("testVersion")
ThereUntilRemoved ==
    NothingRemoved =>
        /\ \A r \in Requests : HeldThere(r)
        /\ \A t \in {"test", "testVersion", "run"} : DOMAIN work.db[t] \subseteq Ids(t)

(* The current version of a test. *)
OwnVersion(t, v) == v \in Ids("testVersion") /\ db.testVersion[v].of = t
Removing(r, t)   == Req(r).op = "removeTest" /\ Req(r).id = t /\ Begun(r)
Disturbed(t)     == \E r, s \in Requests : Removing(r, t) /\ Met(r, s)
CurrentKnown ==
    /\ \A t \in Ids("test") :
          \/ OwnVersion(t, db.test[t].current)
          \/ db.test[t].current = 0 /\ (t \notin DOMAIN work.db.test \/ \E r \in Requests : Removing(r, t))
          \/ Disturbed(t)
    /\ \A r \in Requests : \A t \in Ids("test") :
          Removing(r, t) /\ call[r].at \in {"versions", "row"} => db.test[t].current = 0 \/ Disturbed(t)
    /\ \A r \in Requests :
          Req(r).op \in {"createTest", "updateTest"} /\ call[r].at = "current" =>
              /\ call[r].ids # << >>
              /\ \A t \in call[r].seen : OwnVersion(t, call[r].ids[1]) \/ Disturbed(t)

(* A removal that nothing overlaps has deleted what refers to what it deletes next. *)
RemovalKnown(r) ==
    LET at == call[r].at
        seen == call[r].seen
        own(t) == Select(t, "of", {Req(r).id})
    IN
    /\ Req(r).op = "removeTest" =>
          /\ at \in {"readRuns", "steps", "runs"} => seen = TestVersions(r)
          /\ at = "steps" => call[r].runs = Select("run", "of", seen)
          /\ at = "runs" => Select("stepResult", "of", Select("run", "of", seen)) = {}
          /\ at \in {"baselines", "schedules", "clear", "versions", "row"} => Select("run", "of", TestVersions(r)) = {}
          /\ at \in {"schedules", "clear", "versions", "row"} => own("baseline") = {}
          /\ at \in {"clear", "versions", "row"} => own("schedule") = {}
          /\ at = "row" => own("testVersion") = {}
    /\ Req(r).op = "removeFlow" =>
          /\ at = "captureSteps" => seen = own("captureRun")
          /\ at = "captureRuns" => Select("captureStep", "of", own("captureRun")) = {}
          /\ at = "flow" => own("captureRun") = {}
    /\ Req(r).op = "removeRun" /\ at = "run" => own("stepResult") = {}
RemovalsKnown ==
    \A r \in Requests : Removal(r) /\ Solo(r) =>
        /\ Begun(r) /\ ~ Answered(r) => RemovalKnown(r)
        /\ Answered(r) /\ faults = 0 => Ok(r)

(* Where keys are enforced, or no removal overlaps or precedes a request, every
   row refers to a row. *)
RemovalsLast == \A r \in Requests : Removal(r) /\ Begun(r) => \A s \in Requests \ {r} : << s, r >> \in before
Backed(t, i)  == db[t][i].of \in Ids(References[t])
KeysKnown    == work.enforced \/ RemovalsLast => \A t \in Keyed : \A i \in Ids(t) : Backed(t, i)

RowsHang ==
    /\ CatalogKnown /\ OrderKnown /\ RowsKnown
    /\ \A r \in Requests : HeldKnown(r)
    /\ \A j \in jobs : j.run \in 1 .. next - 1
    /\ ThereUntilRemoved /\ CurrentKnown /\ RemovalsKnown /\ KeysKnown

-----------------------------------------------------------------------------
(* What a workload starts from. *)
LEMMA WorkFacts ==
    ASSUME CatalogKnown
    PROVE  /\ work.enforced \in BOOLEAN /\ work.faults \in Nat /\ DOMAIN work.db = Tables
           /\ \A t \in Tables : DOMAIN work.db[t] \subseteq 1 .. FirstFree - 1
           /\ \A t \in Tables : \A i \in DOMAIN work.db[t] :
                 /\ "of" \in DOMAIN work.db[t][i]
                 /\ References[t] # "none" => work.db[t][i].of \in DOMAIN work.db[References[t]]
           /\ \A t \in DOMAIN work.db.test :
                 /\ "current" \in DOMAIN work.db.test[t] /\ work.db.test[t].current \in DOMAIN work.db.testVersion
                 /\ work.db.testVersion[work.db.test[t].current].of = t
           /\ \A r \in Requests :
                 /\ Req(r).op = "createSchedule" => Req(r).id \in DOMAIN work.db.test
                 /\ Req(r).op = "execute" => Req(r).id \in DOMAIN work.db.run /\ Req(r).test \in DOMAIN work.db.test
<1>1. PICK w \in Workloads, enforced \in BOOLEAN : work = [enforced |-> enforced] ++ w BY DEF CatalogKnown
<1>2. /\ work.db = w.db /\ work.requests = w.requests /\ work.faults = w.faults /\ work.enforced = enforced
      /\ InitialIds(work) = InitialIds(w)
  BY <1>1, WorkKnown
<1>3. /\ Cardinality(InitialIds(w)) \in Nat /\ DOMAIN w.db = Tables
      /\ InitialIds(w) = 1 .. Cardinality(InitialIds(w))
  BY CardKnown
<1>4. ASSUME NEW t \in Tables PROVE DOMAIN work.db[t] \subseteq 1 .. FirstFree - 1
  <2>1. DOMAIN w.db[t] \subseteq InitialIds(w) BY DEF InitialIds
  <2>2. FirstFree - 1 = Cardinality(InitialIds(w)) BY <1>2, <1>3 DEF FirstFree
  <2> QED BY <2>1, <2>2, <1>2, <1>3
<1>5. w.faults \in Nat BY WorkloadsAssumption
<1>6. \A t \in Tables : \A i \in DOMAIN w.db[t] :
        "of" \in DOMAIN w.db[t][i] /\ (References[t] # "none" => w.db[t][i].of \in DOMAIN w.db[References[t]])
  BY WorkloadsAssumption
<1>7. \A t \in DOMAIN w.db.test :
        /\ "current" \in DOMAIN w.db.test[t] /\ w.db.test[t].current \in DOMAIN w.db.testVersion
        /\ w.db.testVersion[w.db.test[t].current].of = t
  BY WorkloadsAssumption
<1>8. \A r \in DOMAIN w.requests :
        /\ w.requests[r].op = "createSchedule" => w.requests[r].id \in DOMAIN w.db.test
        /\ w.requests[r].op = "execute" => w.requests[r].id \in DOMAIN w.db.run /\ w.requests[r].test \in DOMAIN w.db.test
  BY WorkloadsAssumption
<1> QED BY <1>2, <1>3, <1>4, <1>5, <1>6, <1>7, <1>8 DEF Requests, Req

(* What a statement does to the ids, to what rows belong to and to current versions. *)
Still ==
    /\ next' = next
    /\ \A t \in Tables : \A i \in Ids(t) : "of" \in DOMAIN db'[t][i] /\ db'[t][i].of = db[t][i].of
    /\ \A t \in Tables : Ids(t)' = Ids(t)
StillCurrent ==
    \A i \in Ids("test") : "current" \in DOMAIN db'.test[i] /\ db'.test[i].current = db.test[i].current
Grown(t, row) ==
    /\ next' = next + 1 /\ \A u \in Tables \ {t} : db'[u] = db[u]
    /\ Ids(t)' = Ids(t) \cup {next}
    /\ db'[t][next] = row /\ \A i \in Ids(t) : db'[t][i] = db[t][i]
Shrunk(t, ids) ==
    /\ next' = next /\ \A u \in Tables \ {t} : db'[u] = db[u]
    /\ Ids(t)' = Ids(t) \ ids
    /\ \A i \in Ids(t) \ ids : db'[t][i] = db[t][i]

LEMMA ReadShape ==
    ASSUME CatalogKnown, RowsKnown, db' = db, next' = next
    PROVE  Still /\ StillCurrent
BY DEF Still, StillCurrent, RowsKnown, Ids

LEMMA UpdateShape ==
    ASSUME CatalogKnown, RowsKnown, NEW t \in Tables, NEW ids, NEW patch, Update(t, ids, patch),
           "of" \notin DOMAIN patch
    PROVE  /\ Still
           /\ t # "test" \/ "current" \notin DOMAIN patch => StillCurrent
           /\ t = "test" => \A i \in Ids("test") : db'.test[i] = IF i \in ids THEN patch ++ db.test[i] ELSE db.test[i]
<1>0. DOMAIN db = Tables /\ "test" \in Tables BY TableNames DEF CatalogKnown
<1>1. /\ next' = next /\ \A u \in Tables \ {t} : db'[u] = db[u]
      /\ DOMAIN db'[t] = DOMAIN db[t]
      /\ \A i \in DOMAIN db[t] : db'[t][i] = IF i \in ids THEN patch ++ db[t][i] ELSE db[t][i]
  BY <1>0 DEF Update
<1>2. ASSUME NEW i \in DOMAIN db[t], NEW k \in DOMAIN db[t][i], k \notin DOMAIN patch
      PROVE  k \in DOMAIN db'[t][i] /\ db'[t][i][k] = db[t][i][k]
  BY <1>1, <1>2 DEF ++
<1>3. Still
  <2>1. ASSUME NEW u \in Tables, NEW i \in Ids(u) PROVE "of" \in DOMAIN db'[u][i] /\ db'[u][i].of = db[u][i].of
    <3>1. "of" \in DOMAIN db[u][i] BY DEF RowsKnown
    <3>2. CASE u = t BY <3>1, <3>2, <1>2 DEF Ids
    <3>3. CASE u # t BY <3>1, <3>3, <1>1
    <3> QED BY <3>2, <3>3
  <2>2. \A u \in Tables : Ids(u)' = Ids(u) BY <1>1 DEF Ids
  <2> QED BY <2>1, <2>2, <1>1 DEF Still
<1>4. ASSUME t # "test" \/ "current" \notin DOMAIN patch PROVE StillCurrent
  <2> SUFFICES ASSUME NEW i \in Ids("test") PROVE "current" \in DOMAIN db'.test[i] /\ db'.test[i].current = db.test[i].current
    BY DEF StillCurrent
  <2>1. "current" \in DOMAIN db.test[i] BY DEF RowsKnown
  <2>2. CASE t = "test" BY <2>1, <2>2, <1>2, <1>4 DEF Ids
  <2>3. CASE t # "test" BY <2>1, <2>3, <1>0, <1>1
  <2> QED BY <2>2, <2>3
<1> QED BY <1>1, <1>3, <1>4 DEF Ids

LEMMA InsertShape ==
    ASSUME CatalogKnown, NEW t \in Tables, NEW row, Insert(t, row)
    PROVE  Grown(t, row)
<1>0. DOMAIN db = Tables /\ next \in Nat /\ Ids(t) \subseteq 1 .. next - 1 BY DEF CatalogKnown
<1>1. db' = [db EXCEPT ![t] = Entry(next, row) ++ db[t]] /\ next' = next + 1 BY DEF Insert
<1>2. db'[t] = Entry(next, row) ++ db[t] BY <1>0, <1>1
<1>3. DOMAIN Entry(next, row) = {next} /\ Entry(next, row)[next] = row BY DEF Entry
<1>4. next \notin Ids(t) BY <1>0
<1>5. DOMAIN db'[t] = DOMAIN db[t] \cup {next} /\ db'[t][next] = row /\ \A i \in DOMAIN db[t] : db'[t][i] = db[t][i]
  BY <1>2, <1>3, <1>4 DEF ++, Ids
<1>6. \A u \in Tables \ {t} : db'[u] = db[u] BY <1>0, <1>1
<1> QED BY <1>1, <1>5, <1>6 DEF Grown, Ids

LEMMA DeleteShape ==
    ASSUME CatalogKnown, NEW t \in Tables, NEW ids, Delete(t, ids)
    PROVE  Shrunk(t, ids)
<1>0. DOMAIN db = Tables BY DEF CatalogKnown
<1>1. db' = [db EXCEPT ![t] = Restrict(db[t], DOMAIN db[t] \ ids)] /\ next' = next BY DEF Delete
<1>2. db'[t] = Restrict(db[t], DOMAIN db[t] \ ids) BY <1>0, <1>1
<1>3. DOMAIN db'[t] = DOMAIN db[t] \ ids /\ \A i \in DOMAIN db[t] \ ids : db'[t][i] = db[t][i] BY <1>2 DEF Restrict
<1>4. \A u \in Tables \ {t} : db'[u] = db[u] BY <1>0, <1>1
<1> QED BY <1>1, <1>3, <1>4 DEF Shrunk, Ids

(* What a handler holds after it has gone on. *)
LEMMA Carried ==
    ASSUME CatalogKnown, NEW r \in Requests, NEW place, NEW what, GoWith(r, place, what),
           DOMAIN what \subseteq {"seen", "runs", "row", "tests", "batch", "ids"}
    PROVE  /\ call'[r].at = place /\ \A s \in Requests \ {r} : call'[s] = call[s]
           /\ \A k \in DOMAIN what : call'[r][k] = what[k]
           /\ \A k \in {"seen", "runs", "row", "tests", "batch", "ids"} \ DOMAIN what : call'[r][k] = call[r][k]
<1>1. r \in DOMAIN call /\ DOMAIN call[r] = DOMAIN NewCall /\ DOMAIN call = Requests BY DEF CatalogKnown
<1>2. DOMAIN NewCall = {"at", "seen", "runs", "row", "tests", "batch", "ids"} BY DEF NewCall
<1> DEFINE most == [at |-> place] ++ what
           new == most ++ call[r]
<1>3. call' = [call EXCEPT ![r] = new] BY DEF GoWith
<1>4. DOMAIN most = {"at"} \cup DOMAIN what /\ most.at = place /\ \A k \in DOMAIN what : most[k] = what[k] BY DEF ++
<1> HIDE DEF most
<1>5. /\ new.at = place /\ \A k \in DOMAIN what : new[k] = what[k]
      /\ \A k \in {"seen", "runs", "row", "tests", "batch", "ids"} \ DOMAIN what : new[k] = call[r][k]
  BY <1>1, <1>2, <1>4 DEF ++
<1> HIDE DEF new
<1>6. call'[r] = new /\ \A s \in Requests \ {r} : call'[s] = call[s] BY <1>1, <1>3
<1> QED BY <1>5, <1>6

LEMMA Kept ==
    ASSUME CatalogKnown, NEW r \in Requests, NEW place, Go(r, place)
    PROVE  /\ call'[r].at = place /\ \A s \in Requests \ {r} : call'[s] = call[s]
           /\ \A k \in {"seen", "runs", "row", "tests", "batch", "ids"} : call'[r][k] = call[r][k]
<1>1. r \in DOMAIN call /\ DOMAIN call[r] = DOMAIN NewCall /\ DOMAIN call = Requests BY DEF CatalogKnown
<1>2. DOMAIN NewCall = {"at", "seen", "runs", "row", "tests", "batch", "ids"} BY DEF NewCall
<1> QED BY <1>1, <1>2 DEF Go


-----------------------------------------------------------------------------
(* The effect of a statement of r, as the proof needs it. *)
Leaves == {"action", "schedule", "secret", "apiKey", "alert", "folder"}
Parts  == {"stepResult", "run", "baseline", "schedule", "testVersion", "test", "captureRun", "captureStep", "loginFlow"}

Founded(r, t, row) ==
    /\ ~ Removal(r) /\ "of" \in DOMAIN row
    /\ t \in Keyed => row.of \in 1 .. next - 1
    /\ t \in Housed => row.of \in Ids(References[t])
    /\ t \in Keyed /\ (work.enforced \/ NothingRemoved) => row.of \in Ids(References[t])
    /\ t = "test" => "current" \in DOMAIN row /\ row.current = 0
Freed(r, t, ids) ==
    work.enforced \/ Solo(r) \/ ~ Begun(r) =>
        \A u \in Tables : References[u] = t => Select(u, "of", ids) = {}
OwnPart(r, t, ids) ==
    t = "testVersion" => Req(r).op = "removeTest" /\ call[r].at = "versions" /\ ids = TestVersions(r)
Sets(r) ==
    /\ Req(r).op \in {"createTest", "updateTest"} /\ call[r].at = "current"
    /\ \A i \in Ids("test") : "current" \in DOMAIN db'.test[i]
          /\ db'.test[i].current = IF i \in call[r].seen THEN call[r].ids[1] ELSE db.test[i].current
Clears(r) ==
    /\ Req(r).op = "removeTest" /\ call[r].at = "clear"
    /\ \A i \in Ids("test") : "current" \in DOMAIN db'.test[i]
          /\ db'.test[i].current = IF i = Req(r).id THEN 0 ELSE db.test[i].current

Effect(r) ==
    \/ Still /\ StillCurrent
    \/ \E t \in Tables : \E row : Grown(t, row) /\ Founded(r, t, row)
    \/ ~ Removal(r) /\ \E t \in Leaves : \E ids : Shrunk(t, ids)
    \/ Removal(r) /\ \E t \in Parts : \E ids : Shrunk(t, ids) /\ Freed(r, t, ids) /\ OwnPart(r, t, ids)
    \/ Still /\ Sets(r)
    \/ Still /\ Clears(r)

LEMMA KeyNames ==
    /\ Keyed = Tables \ {"org", "apiKey"}
    /\ Housed = {"project", "secret", "test", "folder", "alert", "action", "loginFlow"}
<1>1. Keyed = Tables \ {"org", "apiKey"} BY TableNames DEF Keyed, References
<1>2. Housed = {"project", "secret", "test", "folder", "alert", "action", "loginFlow"} BY TableNames DEF Housed, References
<1> QED BY <1>1, <1>2

LEMMA ReadEffect ==
    ASSUME RowsHang, NEW r \in Requests, Read
    PROVE  Effect(r)
BY ReadShape DEF Effect, Read, RowsHang

LEMMA UpdateEffect ==
    ASSUME RowsHang, NEW r \in Requests, NEW t \in Tables, NEW ids, NEW patch, Update(t, ids, patch),
           "of" \notin DOMAIN patch, t # "test" \/ "current" \notin DOMAIN patch
    PROVE  Effect(r)
BY UpdateShape DEF Effect, RowsHang

LEMMA InsertEffect ==
    ASSUME RowsHang, NEW r \in Requests, NEW t \in Tables, NEW row, Insert(t, row), Founded(r, t, row)
    PROVE  Effect(r)
BY InsertShape DEF Effect, RowsHang

LEMMA LeafEffect ==
    ASSUME RowsHang, NEW r \in Requests, ~ Removal(r), NEW t \in Leaves, NEW ids, Delete(t, ids)
    PROVE  Effect(r)
<1>1. t \in Tables BY TableNames DEF Leaves
<1> QED BY <1>1, DeleteShape DEF Effect, RowsHang

(* A row of what a handler holds is founded on a project or an organisation. *)
LEMMA HousedFounded ==
    ASSUME RowsHang, NEW r \in Requests, ~ Removal(r), NEW t \in Housed, NEW row, "of" \in DOMAIN row,
           row.of \in Ids(References[t]), t = "test" => "current" \in DOMAIN row /\ row.current = 0
    PROVE  Founded(r, t, row)
<1>1. References[t] \in Tables BY KeyNames, TableNames DEF References
<1>2. row.of \in 1 .. next - 1 BY <1>1 DEF RowsHang, CatalogKnown
<1> QED BY <1>2 DEF Founded

(* Other rows are founded on what a handler holds, or on a key that is checked. *)
LEMMA KeyFounded ==
    ASSUME RowsHang, NEW r \in Requests, ~ Removal(r), NEW t \in Keyed \ Housed, NEW row, "of" \in DOMAIN row,
           Insertable(t, row), row.of \in 1 .. next - 1, NothingRemoved => row.of \in Ids(References[t])
    PROVE  Founded(r, t, row)
<1>1. References[t] # "none" /\ t # "test" BY KeyNames DEF Keyed
<1>2. work.enforced => row.of \in Ids(References[t]) BY <1>1 DEF Insertable
<1> QED BY <1>1, <1>2 DEF Founded

LEMMA MinNat ==
    ASSUME NEW S, S \subseteq Nat, S # {}
    PROVE  \E x \in S : \A y \in S : x <= y
<1> DEFINE R == OpToRel(<, Nat)
<1>1. IsWellFoundedOn(R, Nat) BY NatLessThanWellFounded
<1>2. \A x, y \in Nat : y < x => << y, x >> \in R BY DEF OpToRel
<1> HIDE DEF R
<1>3. PICK x \in S : \A y \in S : ~ (<< y, x >> \in R) BY <1>1, WFMin
<1>4. \A y \in S : ~ (y < x) /\ x \in Nat /\ y \in Nat BY <1>2, <1>3
<1> QED BY <1>3, <1>4

LEMMA OldestThere ==
    ASSUME CatalogKnown, NEW t \in Tables, Ids(t) # {}
    PROVE  Oldest(t) \in Ids(t)
<1>1. Ids(t) \subseteq Nat BY DEF CatalogKnown
<1>2. \E i \in Ids(t) : \A j \in Ids(t) : i <= j BY <1>1, MinNat
<1> QED BY <1>2 DEF Oldest

LEMMA HomesEffect ==
    ASSUME RowsHang, NEW r \in Requests, Homes(r)
    PROVE  Effect(r)
<1> USE TableNames
<1>1. HeldKnown(r) BY DEF RowsHang
<1>2. CASE FindProject(r)
  <2>1. Read BY <1>2 DEF FindProject, Refuse
  <2> QED BY <2>1, ReadEffect
<1>3. CASE FindOrg(r) BY <1>3, ReadEffect DEF FindOrg
<1>4. CASE ListFolders(r) BY <1>4, ReadEffect DEF ListFolders
<1>5. CASE MakeOrg(r)
  <2>1. Req(r).op \in InProject \cup InOrg BY <1>5 DEF MakeOrg, At
  <2>2. ~ Removal(r) BY <2>1 DEF Removal, Removals, InProject, InOrg
  <2>3. Founded(r, "org", [of |-> 0]) BY <2>2, KeyNames DEF Founded
  <2> QED BY <2>3, <1>5, InsertEffect DEF MakeOrg
<1>6. CASE MakeProject(r)
  <2>1. Req(r).op \in InProject /\ call[r].at = "makeProject" BY <1>6 DEF MakeProject, At
  <2>2. ~ Removal(r) BY <2>1 DEF Removal, Removals, InProject
  <2>3. PICK org \in call[r].seen : Insert("project", [of |-> org]) BY <1>6 DEF MakeProject
  <2>4. org \in Ids("org") BY <1>1, <2>1 DEF HeldKnown
  <2>5. References["project"] = "org" BY DEF References
  <2>6. Founded(r, "project", [of |-> org]) BY <2>2, <2>4, <2>5, KeyNames, HousedFounded
  <2> QED BY <2>3, <2>6, InsertEffect
<1>7. CASE CreateAtHome(r)
  <2>1. Req(r).op \in {"createSecret", "createFolder", "createAction", "createFlow"} /\ call[r].at = "home"
    BY <1>7 DEF CreateAtHome, At, InProject, InOrg
  <2>2. ~ Removal(r) BY <2>1 DEF Removal, Removals
  <2>3. PICK home \in call[r].seen :
          CASE Req(r).op = "createFolder" ->
                Insert("folder", [of |-> home, name |-> Req(r).name, parent |-> Req(r).parent, collapsed |-> FALSE])
          [] Req(r).op = "createAction" -> Insert("action", [of |-> home, name |-> Req(r).name, dsl |-> Req(r).dsl])
          [] Req(r).op = "createFlow" ->
                Insert("loginFlow", [of |-> home, name |-> Req(r).name, dsl |-> Req(r).dsl, session |-> FALSE])
          [] Req(r).op = "createSecret" -> Insert("secret", [of |-> home, value |-> Stored(r)])
    BY <1>7 DEF CreateAtHome
  <2>4. Req(r).op = "createSecret" => home \in Ids("org") BY <1>1, <2>1 DEF HeldKnown, InOrg
  <2>5. Req(r).op # "createSecret" => home \in Ids("project") BY <1>1, <2>1 DEF HeldKnown, InProject
  <2>6. CASE Req(r).op = "createSecret"
    <3> DEFINE row == [of |-> home, value |-> Stored(r)]
    <3>1. Insert("secret", row) BY <2>3, <2>6
    <3>2. row.of \in Ids(References["secret"]) BY <2>4, <2>6 DEF References
    <3>3. Founded(r, "secret", row) BY <2>2, <3>2, KeyNames, HousedFounded
    <3> QED BY <3>1, <3>3, InsertEffect
  <2>7. CASE Req(r).op = "createFolder"
    <3> DEFINE row == [of |-> home, name |-> Req(r).name, parent |-> Req(r).parent, collapsed |-> FALSE]
    <3>1. Insert("folder", row) BY <2>3, <2>7
    <3>2. row.of \in Ids(References["folder"]) BY <2>5, <2>7 DEF References
    <3>3. Founded(r, "folder", row) BY <2>2, <3>2, KeyNames, HousedFounded
    <3> QED BY <3>1, <3>3, InsertEffect
  <2>8. CASE Req(r).op = "createAction"
    <3> DEFINE row == [of |-> home, name |-> Req(r).name, dsl |-> Req(r).dsl]
    <3>1. Insert("action", row) BY <2>3, <2>8
    <3>2. row.of \in Ids(References["action"]) BY <2>5, <2>8 DEF References
    <3>3. Founded(r, "action", row) BY <2>2, <3>2, KeyNames, HousedFounded
    <3> QED BY <3>1, <3>3, InsertEffect
  <2>9. CASE Req(r).op = "createFlow"
    <3> DEFINE row == [of |-> home, name |-> Req(r).name, dsl |-> Req(r).dsl, session |-> FALSE]
    <3>1. Insert("loginFlow", row) BY <2>3, <2>9
    <3>2. row.of \in Ids(References["loginFlow"]) BY <2>5, <2>9 DEF References
    <3>3. Founded(r, "loginFlow", row) BY <2>2, <3>2, KeyNames, HousedFounded
    <3> QED BY <3>1, <3>3, InsertEffect
  <2> QED BY <2>1, <2>6, <2>7, <2>8, <2>9
<1> QED BY <1>2, <1>3, <1>4, <1>5, <1>6, <1>7 DEF Homes

LEMMA EditsEffect ==
    ASSUME RowsHang, NEW r \in Requests, Edits(r)
    PROVE  Effect(r)
<1> USE TableNames
<1>0. HeldKnown(r) /\ ThereUntilRemoved /\ CatalogKnown /\ RowsKnown BY DEF RowsHang
<1>1. CASE InsertTest(r)
  <2>1. Req(r).op = "createTest" /\ call[r].at = "home" BY <1>1 DEF InsertTest, At
  <2>2. ~ Removal(r) /\ Req(r).op \in InProject BY <2>1 DEF Removal, Removals, InProject
  <2>3. PICK home \in call[r].seen :
          Insert("test", [of |-> home, name |-> Req(r).name, folder |-> 0, current |-> 0,
                        settings |-> [browsers |-> << >>, flow |-> 0], data |-> << >>])
    BY <1>1 DEF InsertTest
  <2>4. home \in Ids("project") BY <1>0, <2>1, <2>2 DEF HeldKnown
  <2> DEFINE row == [of |-> home, name |-> Req(r).name, folder |-> 0, current |-> 0,
                        settings |-> [browsers |-> << >>, flow |-> 0], data |-> << >>]
  <2>5. "of" \in DOMAIN row /\ "current" \in DOMAIN row /\ row.current = 0 /\ row.of = home OBVIOUS
  <2>6. Insert("test", row) BY <2>3
  <2>7. References["test"] = "project" BY DEF References
  <2> HIDE DEF row
  <2>8. Founded(r, "test", row) BY <2>2, <2>4, <2>5, <2>7, KeyNames, HousedFounded
  <2> QED BY <2>6, <2>8, InsertEffect
<1>2. CASE FindTest(r)
  <2>1. Read BY <1>2 DEF FindTest
  <2> QED BY <2>1, ReadEffect
<1>3. CASE RenameTest(r)
  <2>1. Read \/ Update("test", {Req(r).id}, [name |-> Req(r).name]) BY <1>3 DEF RenameTest
  <2>2. "of" \notin DOMAIN [name |-> Req(r).name] /\ "current" \notin DOMAIN [name |-> Req(r).name] OBVIOUS
  <2> QED BY <2>1, <2>2, ReadEffect, UpdateEffect
<1>4. CASE ValidateEdit(r) BY <1>4, ReadEffect DEF ValidateEdit
<1>5. CASE InsertVersion(r)
  <2>1. Req(r).op \in {"createTest", "updateTest"} /\ call[r].at = "version" BY <1>5 DEF InsertVersion, At
  <2>2. ~ Removal(r) /\ Making(r) BY <2>1 DEF Removal, Removals, Making
  <2>3. PICK t \in call[r].seen :
          LET row == [of |-> t, dsl |-> Req(r).dsl] IN
          Read \/ (Insertable("testVersion", row) /\ Insert("testVersion", row))
    BY <1>5 DEF InsertVersion
  <2> DEFINE row == [of |-> t, dsl |-> Req(r).dsl]
  <2>4. t \in 1 .. next - 1 BY <1>0, <2>2 DEF HeldKnown
  <2>5. NothingRemoved => t \in Ids("test") BY <1>0, <2>2 DEF ThereUntilRemoved, HeldThere
  <2>6. References["testVersion"] = "test" BY DEF References
  <2>7. "of" \in DOMAIN row /\ row.of = t OBVIOUS
  <2>8. Read \/ (Insertable("testVersion", row) /\ Insert("testVersion", row)) BY <2>3
  <2> HIDE DEF row
  <2>9. Insertable("testVersion", row) => Founded(r, "testVersion", row)
    BY <2>2, <2>4, <2>5, <2>6, <2>7, KeyNames, KeyFounded
  <2> QED BY <2>8, <2>9, ReadEffect, InsertEffect
<1>6. CASE SetCurrent(r)
  <2>1. Req(r).op \in {"createTest", "updateTest"} /\ call[r].at = "current" BY <1>6 DEF SetCurrent, At
  <2>2. Update("test", call[r].seen, [current |-> call[r].ids[1]]) BY <1>6 DEF SetCurrent
  <2> DEFINE patch == [current |-> call[r].ids[1]]
  <2>3. "of" \notin DOMAIN patch /\ DOMAIN patch = {"current"} /\ patch.current = call[r].ids[1] OBVIOUS
  <2>4. Update("test", call[r].seen, patch) BY <2>2
  <2> HIDE DEF patch
  <2>5. Still /\ \A i \in Ids("test") : db'.test[i] = IF i \in call[r].seen THEN patch ++ db.test[i] ELSE db.test[i]
    BY <1>0, <2>3, <2>4, UpdateShape
  <2>6. \A i \in Ids("test") : "current" \in DOMAIN db.test[i] BY <1>0 DEF RowsKnown
  <2>7. Sets(r) BY <2>1, <2>3, <2>5, <2>6 DEF Sets, ++
  <2> QED BY <2>5, <2>7 DEF Effect
<1> QED BY <1>1, <1>2, <1>3, <1>4, <1>5, <1>6 DEF Edits


(* Who refers to what a removal deletes. *)
LEMMA Referring ==
    ASSUME NEW u \in Tables
    PROVE  /\ References[u] \notin {"stepResult", "baseline", "schedule", "captureStep"} \cup (Leaves \ {"schedule"})
           /\ References[u] = "run" => u = "stepResult"
           /\ References[u] = "testVersion" => u = "run"
           /\ References[u] = "test" => u \in {"testVersion", "baseline", "schedule"}
           /\ References[u] = "captureRun" => u = "captureStep"
           /\ References[u] = "loginFlow" => u = "captureRun"
BY TableNames DEF References, Leaves

(* Fewer values select fewer rows. *)
LEMMA SelectFewer ==
    ASSUME NEW t, NEW A, NEW B, A \subseteq B, Select(t, "of", B) = {}
    PROVE  Select(t, "of", A) = {}
BY DEF Select

LEMMA PartEffect ==
    ASSUME RowsHang, NEW r \in Requests, Removal(r), NEW t \in Parts, NEW ids, Delete(t, ids), Deletable(t, ids),
           Solo(r) \/ ~ Begun(r) => \A u \in Tables : References[u] = t => Select(u, "of", ids) = {},
           OwnPart(r, t, ids)
    PROVE  Effect(r)
<1>1. t \in Tables BY TableNames DEF Parts
<1>2. Freed(r, t, ids) BY DEF Freed, Deletable
<1>3. Shrunk(t, ids) BY <1>1, DeleteShape DEF RowsHang
<1> QED BY <1>2, <1>3 DEF Effect

(* The next part that a removal deletes: its own, and nothing refers to it. *)
PartsOf(r) == IF Req(r).op = "removeTest" THEN DeleteParts(r)
              ELSE IF Req(r).op = "removeFlow" THEN FlowParts(r) ELSE RunParts(r)
PartOf(r)  == PartsOf(r)[call[r].at]

LEMMA PartFree ==
    ASSUME RowsHang, NEW r \in Requests, Removal(r), call[r].at \in DOMAIN PartsOf(r)
    PROVE  /\ PartOf(r)[1] \in Parts /\ OwnPart(r, PartOf(r)[1], PartOf(r)[2])
           /\ Solo(r) \/ ~ Begun(r) =>
                 \A u \in Tables : References[u] = PartOf(r)[1] => Select(u, "of", PartOf(r)[2]) = {}
<1> USE TableNames
<1> DEFINE part == PartOf(r)
<1>1. ASSUME Solo(r), Begun(r), ~ Answered(r) PROVE RemovalKnown(r) BY <1>1 DEF RowsHang, RemovalsKnown
<1>2. CASE part[1] \in {"stepResult", "baseline", "schedule", "captureStep"}
  <2>1. \A u \in Tables : References[u] # part[1] BY <1>2, Referring
  <2>2. OwnPart(r, part[1], part[2]) /\ part[1] \in Parts BY <1>2 DEF OwnPart, Parts
  <2> QED BY <2>1, <2>2
<1>3. CASE Req(r).op = "removeTest"
  <2>1. call[r].at \in {"steps", "runs", "baselines", "schedules", "versions", "row"} BY <1>3 DEF PartsOf, DeleteParts
  <2>2. Begun(r) /\ ~ Answered(r) BY <2>1 DEF Begun, Answered
  <2>3. part = DeleteParts(r)[call[r].at] BY <1>3 DEF PartsOf, PartOf
  <2>4. CASE call[r].at \in {"steps", "baselines", "schedules"}
    <3>1. DeleteParts(r)[call[r].at][1] \in {"stepResult", "baseline", "schedule"} BY <2>4 DEF DeleteParts
    <3> QED BY <3>1, <2>3, <1>2
  <2>5. CASE call[r].at = "runs"
    <3>1. part[1] = "run" /\ part[2] = Select("run", "of", call[r].seen) BY <2>3, <2>5 DEF DeleteParts
    <3>2. Solo(r) => Select("stepResult", "of", part[2]) = {} BY <2>2, <2>5, <3>1, <1>1, <1>3 DEF RemovalKnown
    <3>3. OwnPart(r, part[1], part[2]) /\ part[1] \in Parts BY <3>1 DEF OwnPart, Parts
    <3> HIDE DEF part
    <3>4. Solo(r) => \A u \in Tables : References[u] = part[1] => Select(u, "of", part[2]) = {} BY <3>1, <3>2, Referring
    <3> QED BY <2>2, <3>3, <3>4 DEF part
  <2>6. CASE call[r].at = "versions"
    <3>1. part[1] = "testVersion" /\ part[2] = TestVersions(r) BY <2>3, <2>6 DEF DeleteParts
    <3>2. Solo(r) => Select("run", "of", part[2]) = {} BY <2>2, <2>6, <3>1, <1>1, <1>3 DEF RemovalKnown
    <3>3. OwnPart(r, part[1], part[2]) /\ part[1] \in Parts BY <2>6, <3>1, <1>3 DEF OwnPart, Parts
    <3> HIDE DEF part
    <3>4. Solo(r) => \A u \in Tables : References[u] = part[1] => Select(u, "of", part[2]) = {} BY <3>1, <3>2, Referring
    <3> QED BY <2>2, <3>3, <3>4 DEF part
  <2>7. CASE call[r].at = "row"
    <3>1. part[1] = "test" /\ part[2] \subseteq {Req(r).id} BY <2>3, <2>7 DEF DeleteParts
    <3>2. Solo(r) => /\ Select("testVersion", "of", {Req(r).id}) = {} /\ Select("baseline", "of", {Req(r).id}) = {}
                     /\ Select("schedule", "of", {Req(r).id}) = {}
      BY <2>2, <2>7, <1>1, <1>3 DEF RemovalKnown
    <3>3. OwnPart(r, part[1], part[2]) /\ part[1] \in Parts BY <3>1 DEF OwnPart, Parts
    <3> HIDE DEF part
    <3>4. Solo(r) => /\ Select("testVersion", "of", part[2]) = {} /\ Select("baseline", "of", part[2]) = {}
                     /\ Select("schedule", "of", part[2]) = {}
      BY <3>1, <3>2, SelectFewer
    <3>5. Solo(r) => \A u \in Tables : References[u] = part[1] => Select(u, "of", part[2]) = {} BY <3>1, <3>4, Referring
    <3> QED BY <2>2, <3>3, <3>5 DEF part
  <2> QED BY <2>1, <2>4, <2>5, <2>6, <2>7
<1>4. CASE Req(r).op = "removeFlow"
  <2>1. call[r].at \in {"captureSteps", "captureRuns", "flow"} BY <1>4 DEF PartsOf, FlowParts
  <2>2. Begun(r) /\ ~ Answered(r) BY <2>1 DEF Begun, Answered
  <2>3. part = FlowParts(r)[call[r].at] BY <1>4 DEF PartsOf, PartOf
  <2>4. CASE call[r].at = "captureSteps" BY <2>3, <2>4, <1>2 DEF FlowParts
  <2>5. CASE call[r].at = "captureRuns"
    <3>1. part[1] = "captureRun" /\ part[2] = Select("captureRun", "of", {Req(r).id}) BY <2>3, <2>5 DEF FlowParts
    <3>2. Solo(r) => Select("captureStep", "of", part[2]) = {} BY <2>2, <2>5, <3>1, <1>1, <1>4 DEF RemovalKnown
    <3>3. OwnPart(r, part[1], part[2]) /\ part[1] \in Parts BY <3>1 DEF OwnPart, Parts
    <3> HIDE DEF part
    <3>4. Solo(r) => \A u \in Tables : References[u] = part[1] => Select(u, "of", part[2]) = {} BY <3>1, <3>2, Referring
    <3> QED BY <2>2, <3>3, <3>4 DEF part
  <2>6. CASE call[r].at = "flow"
    <3>1. part[1] = "loginFlow" /\ part[2] \subseteq {Req(r).id} BY <2>3, <2>6 DEF FlowParts
    <3>2. Solo(r) => Select("captureRun", "of", {Req(r).id}) = {} BY <2>2, <2>6, <1>1, <1>4 DEF RemovalKnown
    <3>3. OwnPart(r, part[1], part[2]) /\ part[1] \in Parts BY <3>1 DEF OwnPart, Parts
    <3> HIDE DEF part
    <3>4. Solo(r) => Select("captureRun", "of", part[2]) = {} BY <3>1, <3>2, SelectFewer
    <3>5. Solo(r) => \A u \in Tables : References[u] = part[1] => Select(u, "of", part[2]) = {} BY <3>1, <3>4, Referring
    <3> QED BY <2>2, <3>3, <3>5 DEF part
  <2> QED BY <2>1, <2>4, <2>5, <2>6
<1>5. CASE Req(r).op = "removeRun"
  <2>1. call[r].at \in {"start", "run"} BY <1>5 DEF PartsOf, RunParts
  <2>3. part = RunParts(r)[call[r].at] BY <1>5 DEF PartsOf, PartOf
  <2>4. CASE call[r].at = "start" BY <2>3, <2>4, <1>2 DEF RunParts
  <2>5. CASE call[r].at = "run"
    <3>0. Begun(r) /\ ~ Answered(r) BY <2>5 DEF Begun, Answered
    <3>1. part[1] = "run" /\ part[2] \subseteq {Req(r).id} BY <2>3, <2>5 DEF RunParts
    <3>2. Solo(r) => Select("stepResult", "of", {Req(r).id}) = {} BY <3>0, <2>5, <1>1, <1>5 DEF RemovalKnown
    <3>3. OwnPart(r, part[1], part[2]) /\ part[1] \in Parts BY <3>1 DEF OwnPart, Parts
    <3> HIDE DEF part
    <3>4. Solo(r) => Select("stepResult", "of", part[2]) = {} BY <3>1, <3>2, SelectFewer
    <3>5. Solo(r) => \A u \in Tables : References[u] = part[1] => Select(u, "of", part[2]) = {} BY <3>1, <3>4, Referring
    <3> QED BY <3>0, <3>3, <3>5 DEF part
  <2> QED BY <2>1, <2>4, <2>5
<1> QED BY <1>3, <1>4, <1>5 DEF Removal, Removals

LEMMA RemovalsEffect ==
    ASSUME RowsHang, NEW r \in Requests, ~ Answered(r), RemoveTest(r) \/ RemoveFlow(r) \/ RemoveRun(r)
    PROVE  Effect(r)
<1> USE TableNames
<1>0. CatalogKnown /\ RowsKnown BY DEF RowsHang
<1>5. Removal(r)
  BY DEF RemoveTest, RemoveFlow, RemoveRun, ReadVersions, ReadRuns, ClearCurrent, ReadCaptures, At, Removal, Removals
<1>1. CASE ClearCurrent(r)
  <2>1. Req(r).op = "removeTest" /\ call[r].at = "clear" BY <1>1 DEF ClearCurrent, At
  <2>2. Update("test", {Req(r).id}, [current |-> 0]) BY <1>1 DEF ClearCurrent
  <2>3. "of" \notin DOMAIN [current |-> 0] OBVIOUS
  <2>4. Still /\ \A i \in Ids("test") : db'.test[i] = IF i \in {Req(r).id} THEN [current |-> 0] ++ db.test[i] ELSE db.test[i]
    BY <1>0, <2>2, <2>3, UpdateShape
  <2>5. \A i \in Ids("test") : "current" \in DOMAIN db.test[i] BY <1>0 DEF RowsKnown
  <2>6. Clears(r) BY <2>1, <2>4, <2>5 DEF Clears, ++
  <2> QED BY <2>4, <2>6 DEF Effect
<1>2. CASE Read BY <1>2, ReadEffect
<1>3. CASE RemovePart(r, PartsOf(r)) /\ ~ Read
  <2>1. call[r].at \in DOMAIN PartsOf(r) BY <1>3 DEF RemovePart
  <2>2. Delete(PartOf(r)[1], PartOf(r)[2]) /\ Deletable(PartOf(r)[1], PartOf(r)[2]) BY <1>3 DEF RemovePart, PartOf
  <2> QED BY <2>1, <2>2, <1>5, PartFree, PartEffect
<1>4. ClearCurrent(r) \/ Read \/ RemovePart(r, PartsOf(r))
  BY DEF RemoveTest, RemoveFlow, RemoveRun, ReadVersions, ReadRuns, ReadCaptures, PartsOf
<1> QED BY <1>1, <1>2, <1>3, <1>4

LEMMA SmallEffect ==
    ASSUME RowsHang, NEW r \in Requests, Small(r)
    PROVE  Effect(r)
<1> USE TableNames
<1>0. HeldKnown(r) /\ ThereUntilRemoved /\ CatalogKnown /\ RowsKnown BY DEF RowsHang
<1>1. CASE PatchRow(r)
  <2>1. Req(r).op \in {"updateSettings", "moveTest", "setData", "renameFolder", "setCollapsed", "updateAction", "updateFlow"}
    BY <1>1 DEF PatchRow, At, Patched
  <2>2. Patched[Req(r).op] \in Tables BY <2>1 DEF Patched
  <2>3. "of" \notin DOMAIN Patch(r) /\ "current" \notin DOMAIN Patch(r)
    <3>1. CASE Req(r).op \in OnOneTest BY <3>1, PatchOf DEF OnOneTest
    <3>2. CASE Req(r).op \in {"renameFolder", "setCollapsed"} BY <3>2 DEF Patch
    <3>3. CASE Req(r).op \in {"updateAction", "updateFlow"}
      <4> DEFINE asked == Restrict(Req(r), DOMAIN Req(r) \cap {"name", "dsl"})
                 rest == IF Req(r).op = "updateFlow" /\ "dsl" \in DOMAIN Req(r) THEN [session |-> FALSE] ELSE << >>
      <4>1. Patch(r) = asked ++ rest BY <3>3 DEF Patch
      <4>2. DOMAIN asked \subseteq {"name", "dsl"} BY DEF Restrict
      <4>3. DOMAIN rest \subseteq {"session"}
        <5>1. DOMAIN << >> = {} /\ DOMAIN [session |-> FALSE] = {"session"} OBVIOUS
        <5> QED BY <5>1
      <4> HIDE DEF asked, rest
      <4>4. DOMAIN Patch(r) = DOMAIN asked \cup DOMAIN rest BY <4>1 DEF ++
      <4> QED BY <4>2, <4>3, <4>4
    <3> QED BY <2>1, <3>1, <3>2, <3>3 DEF OnOneTest
  <2>4. Read \/ Update(Patched[Req(r).op], {Req(r).id}, Patch(r)) BY <1>1 DEF PatchRow, Refuse
  <2> QED BY <2>2, <2>3, <2>4, ReadEffect, UpdateEffect
<1>2. CASE DropRow(r)
  <2>1. Req(r).op \in {"removeAction", "removeSchedule", "removeSecret", "removeApiKey", "removeAlert"} BY <1>2 DEF DropRow, At, Dropped
  <2>2. ~ Removal(r) BY <2>1 DEF Removal, Removals
  <2>3. Dropped[Req(r).op] \in Leaves BY <2>1 DEF Dropped, Leaves
  <2>4. \E ids : Delete(Dropped[Req(r).op], ids) BY <1>2 DEF DropRow
  <2> QED BY <2>2, <2>3, <2>4, LeafEffect
<1>3. CASE CreateSchedule(r)
  <2> DEFINE row == [of |-> Req(r).id]
  <2>1. Req(r).op = "createSchedule" BY <1>3 DEF CreateSchedule, At
  <2>2. ~ Removal(r) BY <2>1 DEF Removal, Removals
  <2>3. Read \/ (Insertable("schedule", row) /\ Insert("schedule", row)) BY <1>3 DEF CreateSchedule
  <2>4. row.of \in DOMAIN work.db.test /\ "of" \in DOMAIN row BY <2>1, <1>0, WorkFacts
  <2> HIDE DEF row
  <2>5. row.of \in 1 .. next - 1
    <3>1. row.of \in 1 .. FirstFree - 1 BY <2>4, <1>0, WorkFacts
    <3> QED BY <3>1, <1>0, FirstFreePositive
  <2>6. NothingRemoved => row.of \in Ids(References["schedule"]) BY <2>4, <1>0 DEF ThereUntilRemoved, References
  <2>7. Insertable("schedule", row) => Founded(r, "schedule", row) BY <2>2, <2>4, <2>5, <2>6, KeyNames, KeyFounded
  <2> QED BY <2>3, <2>7, ReadEffect, InsertEffect
<1>4. CASE CreateApiKey(r)
  <2>1. Req(r).op = "createApiKey" BY <1>4 DEF CreateApiKey, At
  <2>2. ~ Removal(r) BY <2>1 DEF Removal, Removals
  <2>3. Founded(r, "apiKey", [of |-> 0, key |-> next]) BY <2>2, KeyNames DEF Founded
  <2> QED BY <2>3, <1>4, InsertEffect DEF CreateApiKey
<1>5. CASE FindAlertTest(r)
  <2>1. Read BY <1>5 DEF FindAlertTest
  <2> QED BY <2>1, ReadEffect
<1>6. CASE InsertAlert(r)
  <2>1. Req(r).op = "createAlert" /\ call[r].at = "alert" BY <1>6 DEF InsertAlert, At
  <2>2. ~ Removal(r) BY <2>1 DEF Removal, Removals
  <2>3. PICK project \in call[r].seen : Insert("alert", [of |-> project]) BY <1>6 DEF InsertAlert
  <2>4. project \in Ids(References["alert"]) BY <1>0, <2>1 DEF HeldKnown, References
  <2>5. Founded(r, "alert", [of |-> project]) BY <2>2, <2>4, KeyNames, HousedFounded
  <2> QED BY <2>3, <2>5, InsertEffect
<1> QED BY <1>1, <1>2, <1>3, <1>4, <1>5, <1>6 DEF Small

LEMMA FoldersEffect ==
    ASSUME RowsHang, NEW r \in Requests, Folders(r)
    PROVE  Effect(r)
<1> USE TableNames
<1>1. CASE CheckMove(r) BY <1>1, ReadEffect DEF CheckMove
<1>2. CASE PlaceFolder(r)
  <2>1. Update("folder", {Req(r).id}, [parent |-> Req(r).parent]) BY <1>2 DEF PlaceFolder
  <2>2. "of" \notin DOMAIN [parent |-> Req(r).parent] OBVIOUS
  <2> QED BY <2>1, <2>2, UpdateEffect
<1>3. CASE FindFolder(r)
  <2>1. Read BY <1>3 DEF FindFolder
  <2> QED BY <2>1, ReadEffect
<1>4. CASE LiftFolders(r)
  <2>1. PICK up, ids : Update("folder", ids, [parent |-> up]) BY <1>4 DEF LiftFolders
  <2>2. "of" \notin DOMAIN [parent |-> up] OBVIOUS
  <2> QED BY <2>1, <2>2, UpdateEffect
<1>5. CASE LiftTests(r)
  <2>1. PICK up, ids : Update("test", ids, [folder |-> up]) BY <1>5 DEF LiftTests
  <2>2. "of" \notin DOMAIN [folder |-> up] /\ "current" \notin DOMAIN [folder |-> up] OBVIOUS
  <2> QED BY <2>1, <2>2, UpdateEffect
<1>6. CASE DeleteFolder(r)
  <2>1. ~ Removal(r) BY <1>6 DEF DeleteFolder, At, Removal, Removals
  <2>2. "folder" \in Leaves BY DEF Leaves
  <2> QED BY <2>1, <2>2, <1>6, LeafEffect DEF DeleteFolder
<1> QED BY <1>1, <1>2, <1>3, <1>4, <1>5, <1>6 DEF Folders

LEMMA RunsEffect ==
    ASSUME RowsHang, NEW r \in Requests, Runs(r)
    PROVE  Effect(r)
<1> USE TableNames
<1>0. HeldKnown(r) /\ ThereUntilRemoved /\ CatalogKnown /\ RowsKnown BY DEF RowsHang
<1>1. CASE ReadTest(r) BY <1>1, ReadEffect DEF ReadTest
<1>2. CASE RetryReads(r) BY <1>2, ReadEffect DEF RetryReads
<1>3. CASE ListTests(r) BY <1>3, ReadEffect DEF ListTests
<1>4. CASE AddJob(r)
  <2>1. db' = db /\ next' = next BY <1>4 DEF AddJob
  <2> QED BY <2>1, <1>0, ReadShape DEF Effect
<1>5. CASE InsertRun(r)
  <2>1. Req(r).op \in Fanning \cup {"retry"} /\ call[r].at = "insert" BY <1>5 DEF InsertRun, At
  <2>2. ~ Removal(r) BY <2>1 DEF Removal, Removals, Fanning
  <2> DEFINE row == [of |-> call[r].row.version, status |-> "queued", browser |-> Head(call[r].batch).browser]
  <2>3. Read \/ (Insertable("run", row) /\ Insert("run", row)) BY <1>5 DEF InsertRun
  <2>4. "of" \in DOMAIN row /\ row.of = call[r].row.version OBVIOUS
  <2> HIDE DEF row
  <2>5. row.of \in 1 .. next - 1 BY <2>1, <2>4, <1>0 DEF HeldKnown
  <2>6. NothingRemoved => row.of \in Ids(References["run"]) BY <2>1, <2>4, <1>0 DEF ThereUntilRemoved, HeldThere, References
  <2>7. Insertable("run", row) => Founded(r, "run", row) BY <2>2, <2>4, <2>5, <2>6, KeyNames, KeyFounded
  <2> QED BY <2>3, <2>7, ReadEffect, InsertEffect
<1>6. CASE Execute(r)
  <2>1. Req(r).op = "execute" BY <1>6 DEF Execute, At
  <2>2. ~ Removal(r) BY <2>1 DEF Removal, Removals
  <2> DEFINE step == [of |-> Req(r).id]
             base == [of |-> Req(r).test]
  <2>3. \/ Read
        \/ \E status : Update("run", {Req(r).id}, [status |-> status])
        \/ Insertable("stepResult", step) /\ Insert("stepResult", step)
        \/ Insertable("baseline", base) /\ Insert("baseline", base)
    BY <1>6 DEF Execute
  <2>4. Req(r).id \in DOMAIN work.db.run /\ Req(r).test \in DOMAIN work.db.test BY <2>1, <1>0, WorkFacts
  <2>5. Req(r).id \in 1 .. next - 1 /\ Req(r).test \in 1 .. next - 1
    <3>1. Req(r).id \in 1 .. FirstFree - 1 /\ Req(r).test \in 1 .. FirstFree - 1 BY <2>4, <1>0, WorkFacts
    <3> QED BY <3>1, <1>0, FirstFreePositive
  <2>6. NothingRemoved => step.of \in Ids(References["stepResult"]) BY <2>4, <1>0 DEF ThereUntilRemoved, References
  <2>7. NothingRemoved => base.of \in Ids(References["baseline"]) BY <2>4, <1>0 DEF ThereUntilRemoved, References
  <2>8. Insertable("stepResult", step) => Founded(r, "stepResult", step) BY <2>2, <2>5, <2>6, KeyNames, KeyFounded
  <2>9. Insertable("baseline", base) => Founded(r, "baseline", base) BY <2>2, <2>5, <2>7, KeyNames, KeyFounded
  <2>10. ASSUME NEW status, Update("run", {Req(r).id}, [status |-> status]) PROVE Effect(r)
    <3>1. "of" \notin DOMAIN [status |-> status] OBVIOUS
    <3> QED BY <3>1, <2>10, UpdateEffect
  <2> QED BY <2>3, <2>8, <2>9, <2>10, ReadEffect, InsertEffect
<1> QED BY <1>1, <1>2, <1>3, <1>4, <1>5, <1>6 DEF Runs

LEMMA HandleEffect ==
    ASSUME RowsHang, NEW r \in Requests, Handle(r)
    PROVE  Effect(r)
<1>1. ~ Answered(r) BY DEF Handle
<1>2. \/ Homes(r) \/ Edits(r) \/ RemoveTest(r) \/ RemoveFlow(r) \/ RemoveRun(r)
      \/ Small(r) \/ Folders(r) \/ Runs(r) \/ Fails(r)
  BY DEF Handle
<1>3. Fails(r) => Effect(r) BY ReadEffect DEF Fails
<1> QED BY <1>1, <1>2, <1>3, HomesEffect, EditsEffect, RemovalsEffect, SmallEffect, FoldersEffect, RunsEffect


-----------------------------------------------------------------------------
(* What every step leaves as it was, and who met whom. *)
LEMMA Frame ==
    ASSUME RowsHang, NEW r \in Requests, Handle(r)
    PROVE  /\ work' = work /\ Requests' = Requests /\ \A s : Req(s)' = Req(s)
           /\ \A s \in Requests \ {r} : call'[s] = call[s]
           /\ call'[r].at # "start" /\ ~ Answered(r)
           /\ before' = IF call[r].at = "start" THEN before \cup {<< s, r >> : s \in {s \in Requests : Answered(s)}} ELSE before
           /\ faults' \in 0 .. work.faults /\ faults <= faults' /\ faults \in Nat
           /\ call' = [call EXCEPT ![r] = call'[r]] /\ DOMAIN call'[r] = DOMAIN NewCall
<1>1. CatalogKnown /\ OrderKnown BY DEF RowsHang
<1>2. Steps(r) BY <1>1, HandleSteps
<1>3. Moves(r) /\ call'[r].at # "start" BY <1>2 DEF Steps
<1>4. work' = work /\ call' = [call EXCEPT ![r] = call'[r]] /\ DOMAIN call'[r] = DOMAIN NewCall BY <1>3 DEF Moves
<1>5. \A s \in Requests \ {r} : call'[s] = call[s] BY <1>1, <1>4 DEF CatalogKnown
<1>6. Requests' = Requests /\ \A s : Req(s)' = Req(s) BY <1>4 DEF Requests, Req
<1>7. work.faults \in Nat /\ faults \in 0 .. work.faults BY <1>1, WorkFacts DEF OrderKnown
<1>8. faults' = faults \/ (faults < work.faults /\ faults' = faults + 1) BY DEF Handle, Fails
<1>9. faults' \in 0 .. work.faults /\ faults <= faults' /\ faults \in Nat BY <1>7, <1>8
<1>10. ~ Answered(r) /\ before' = IF call[r].at = "start" THEN before \cup {<< s, r >> : s \in {s \in Requests : Answered(s)}} ELSE before
  BY DEF Handle
<1> QED BY <1>3, <1>4, <1>5, <1>6, <1>9, <1>10

LEMMA OrderStep ==
    ASSUME RowsHang, NEW r \in Requests, Handle(r)
    PROVE  /\ OrderKnown'
           /\ \A s \in Requests : /\ Begun(s) => Begun(s)' /\ (Begun(s)' => Begun(s) \/ s = r)
                                  /\ Answered(s) => Answered(s)' /\ s # r
           /\ \A s, u \in Requests : Met(s, u) => Met(s, u)'
           /\ \A s \in Requests : Begun(s) /\ Solo(s)' => Solo(s)
           /\ \A s \in Requests \ {r} : Begun(s) /\ ~ Answered(s) => ~ Solo(s)'
           /\ RemovalsLast' => RemovalsLast
           /\ NothingRemoved' => NothingRemoved
<1>0. OrderKnown BY DEF RowsHang
<1>1. /\ work' = work /\ Requests' = Requests /\ \A s : Req(s)' = Req(s)
      /\ \A s \in Requests \ {r} : call'[s] = call[s]
      /\ call'[r].at # "start" /\ ~ Answered(r)
      /\ faults' \in 0 .. work.faults
  BY Frame
<1>2. before' = IF call[r].at = "start" THEN before \cup {<< s, r >> : s \in {s \in Requests : Answered(s)}} ELSE before
  BY Frame
<1>3. \A s, u : << s, u >> \in before' <=> << s, u >> \in before \/ (call[r].at = "start" /\ u = r /\ s \in Requests /\ Answered(s))
  BY <1>2
<1>4. ASSUME NEW s \in Requests
      PROVE  /\ Begun(s) => Begun(s)' /\ (Begun(s)' => Begun(s) \/ s = r) /\ (s = r => Begun(s)')
             /\ Answered(s) => Answered(s)' /\ s # r
  <2>1. CASE s = r BY <2>1, <1>1 DEF Begun
  <2>2. CASE s # r BY <2>2, <1>1 DEF Begun, Answered
  <2> QED BY <2>1, <2>2
<1>5. \A s, u \in Requests : << s, u >> \in before => Answered(s) /\ Begun(u) BY <1>0 DEF OrderKnown
<1>6. before' \subseteq Requests \X Requests BY <1>0, <1>2 DEF OrderKnown
<1>7. \A s, u \in Requests : << s, u >> \in before' => Answered(s)' /\ Begun(u)'
  <2> SUFFICES ASSUME NEW s \in Requests, NEW u \in Requests, << s, u >> \in before' PROVE Answered(s)' /\ Begun(u)' OBVIOUS
  <2>1. Answered(s) /\ (Begun(u) \/ u = r) BY <1>3, <1>5
  <2>2. Answered(s)' BY <2>1, <1>1 DEF Answered
  <2>3. Begun(u)' BY <2>1, <1>1 DEF Begun
  <2> QED BY <2>2, <2>3
<1>8. OrderKnown' BY <1>1, <1>6, <1>7 DEF OrderKnown
<1>9. ASSUME NEW s \in Requests, NEW u \in Requests, Met(s, u) PROVE Met(s, u)'
  <2>1. s # u /\ Begun(s) /\ Begun(u) /\ << s, u >> \notin before /\ << u, s >> \notin before BY <1>9 DEF Met, Overlap
  <2>2. << s, u >> \notin before' /\ << u, s >> \notin before' BY <2>1, <1>3 DEF Begun
  <2>3. Begun(s)' /\ Begun(u)' BY <2>1, <1>4
  <2> QED BY <2>1, <2>2, <2>3 DEF Met, Overlap
<1>10. ASSUME NEW s \in Requests, Begun(s), Solo(s)' PROVE Solo(s)
  <2> SUFFICES ASSUME NEW u \in Requests \ {s} PROVE << u, s >> \in before \/ ~ Begun(u) \/ << s, u >> \in before
    BY DEF Solo
  <2>1. << u, s >> \in before' \/ ~ Begun(u)' \/ << s, u >> \in before' BY <1>1, <1>10 DEF Solo
  <2>2. << u, s >> \in before' => << u, s >> \in before BY <1>3, <1>10 DEF Begun
  <2>3. << s, u >> \in before' => << s, u >> \in before \/ ~ Begun(u) BY <1>3 DEF Begun
  <2> QED BY <2>1, <2>2, <2>3, <1>4
<1>11. ASSUME NEW s \in Requests \ {r}, Begun(s), ~ Answered(s) PROVE ~ Solo(s)'
  <2>1. Begun(r)' BY <1>1 DEF Begun
  <2>2. << r, s >> \notin before' BY <1>3, <1>5, <1>1
  <2>3. << s, r >> \notin before' BY <1>3, <1>5, <1>11
  <2> QED BY <2>1, <2>2, <2>3, <1>1 DEF Solo
<1>12. ASSUME RemovalsLast' PROVE RemovalsLast
  <2> SUFFICES ASSUME NEW s \in Requests, Removal(s), Begun(s), NEW u \in Requests \ {s} PROVE << u, s >> \in before
    BY DEF RemovalsLast
  <2>1. Removal(s)' /\ Begun(s)' BY <1>1, <1>4 DEF Removal
  <2>2. << u, s >> \in before' BY <1>1, <1>12, <2>1 DEF RemovalsLast
  <2> QED BY <2>2, <1>3 DEF Begun
<1>13. NothingRemoved' => NothingRemoved BY <1>1, <1>4 DEF NothingRemoved, Removal
<1> QED BY <1>4, <1>8, <1>9, <1>10, <1>11, <1>12, <1>13

(* While nothing but the last removals has run, nobody else runs beside them. *)
LEMMA LastRunsAlone ==
    ASSUME RowsHang, NEW r \in Requests, Handle(r), RemovalsLast'
    PROVE  /\ Removal(r) => Solo(r) \/ ~ Begun(r)
           /\ ~ Removal(r) => NothingRemoved
<1>1. RemovalsLast /\ OrderKnown BY OrderStep DEF RowsHang
<1>2. ~ Answered(r) BY DEF Handle
<1>3. ASSUME Removal(r), Begun(r) PROVE Solo(r) BY <1>1, <1>3 DEF RemovalsLast, Solo
<1>4. ASSUME ~ Removal(r), NEW s \in Requests, Removal(s), Begun(s) PROVE FALSE
  <2>1. s # r BY <1>4
  <2>2. << r, s >> \in before BY <1>1, <1>4, <2>1 DEF RemovalsLast
  <2> QED BY <2>2, <1>1, <1>2 DEF OrderKnown
<1> QED BY <1>3, <1>4 DEF NothingRemoved

(* Rows stay, and stay where they belong, unless they are deleted. *)
LEMMA EffectGrows ==
    ASSUME RowsHang, NEW r \in Requests, Effect(r)
    PROVE  /\ next \in Nat /\ next' \in Nat /\ next <= next' /\ 1 .. next - 1 \subseteq 1 .. next' - 1
           /\ \A t \in {"org", "project"} : Ids(t) \subseteq Ids(t)'
           /\ ~ Removal(r) => \A t \in {"org", "project", "test", "testVersion", "run"} : Ids(t) \subseteq Ids(t)'
           /\ \A t \in Tables : \A i \in Ids(t)' : i # next => i \in Ids(t) /\ db'[t][i].of = db[t][i].of
           /\ \A t \in Tables : \A i \in Ids(t)' : i \in Ids(t) => "of" \in DOMAIN db'[t][i]
           /\ \A t \in Tables : next \notin Ids(t)
           /\ ~ Removal(r) \/ \A t \in Tables : next \notin Ids(t)'
<1>0. RowsKnown /\ CatalogKnown BY DEF RowsHang
<1>1. next \in Nat /\ \A t \in Tables : next \notin Ids(t) BY <1>0 DEF CatalogKnown
<1>2. \A t \in Tables : \A i \in Ids(t) : "of" \in DOMAIN db[t][i] BY <1>0 DEF RowsKnown
<1>3. CASE Still BY <1>1, <1>2, <1>3, TableNames DEF Still
<1>4. ASSUME NEW t \in Tables, NEW row, Grown(t, row), Founded(r, t, row)
      PROVE  /\ next' = next + 1 /\ ~ Removal(r)
             /\ \A u \in Tables : Ids(u) \subseteq Ids(u)' /\ \A i \in Ids(u) : db'[u][i] = db[u][i]
             /\ \A u \in Tables : Ids(u)' \subseteq Ids(u) \cup {next}
  BY <1>4 DEF Grown, Founded, Ids
<1>5. CASE \E t \in Tables : \E row : Grown(t, row) /\ Founded(r, t, row)
  <2>1. /\ next' = next + 1 /\ ~ Removal(r)
        /\ \A u \in Tables : Ids(u) \subseteq Ids(u)' /\ \A i \in Ids(u) : db'[u][i] = db[u][i]
        /\ \A u \in Tables : Ids(u)' \subseteq Ids(u) \cup {next}
    BY <1>4, <1>5
  <2> QED BY <2>1, <1>1, <1>2, TableNames
<1>6. ASSUME NEW t \in Tables, NEW ids, Shrunk(t, ids)
      PROVE  /\ next' = next
             /\ \A u \in Tables : Ids(u)' \subseteq Ids(u) /\ \A i \in Ids(u)' : db'[u][i] = db[u][i]
             /\ \A u \in Tables \ {t} : Ids(u)' = Ids(u)
  BY <1>6 DEF Shrunk, Ids
<1>7. CASE ~ Removal(r) /\ \E t \in Leaves : \E ids : Shrunk(t, ids)
  <2>1. PICK t \in Leaves : \E ids : Shrunk(t, ids) BY <1>7
  <2>2. t \in Tables /\ t \notin {"org", "project", "test", "testVersion", "run"} BY TableNames DEF Leaves
  <2>3. /\ next' = next
        /\ \A u \in Tables : Ids(u)' \subseteq Ids(u) /\ \A i \in Ids(u)' : db'[u][i] = db[u][i]
        /\ \A u \in Tables \ {t} : Ids(u)' = Ids(u)
    BY <2>1, <2>2, <1>6
  <2>4. \A u \in {"org", "project", "test", "testVersion", "run"} : Ids(u)' = Ids(u) BY <2>2, <2>3, TableNames
  <2> QED BY <2>3, <2>4, <1>1, <1>2, <1>7
<1>8. CASE Removal(r) /\ \E t \in Parts : \E ids : Shrunk(t, ids) /\ Freed(r, t, ids) /\ OwnPart(r, t, ids)
  <2>1. PICK t \in Parts : \E ids : Shrunk(t, ids) BY <1>8
  <2>2. t \in Tables /\ t \notin {"org", "project"} BY TableNames DEF Parts
  <2>3. /\ next' = next
        /\ \A u \in Tables : Ids(u)' \subseteq Ids(u) /\ \A i \in Ids(u)' : db'[u][i] = db[u][i]
        /\ \A u \in Tables \ {t} : Ids(u)' = Ids(u)
    BY <2>1, <2>2, <1>6
  <2>4. \A u \in {"org", "project"} : Ids(u)' = Ids(u) BY <2>2, <2>3, TableNames
  <2> QED BY <2>3, <2>4, <1>1, <1>2, <1>8
<1> QED BY <1>3, <1>5, <1>7, <1>8 DEF Effect


(* A row that was not there before is founded. *)
LEMMA NewRow ==
    ASSUME RowsHang, NEW r \in Requests, Effect(r), NEW t \in Tables, next \in Ids(t)'
    PROVE  Founded(r, t, db'[t][next]) /\ \A u \in Tables : Ids(u) \subseteq Ids(u)'
<1>1. \A u \in Tables : next \notin Ids(u) BY EffectGrows
<1>2. CASE Still BY <1>1, <1>2 DEF Still
<1>3. ASSUME NEW u \in Tables, NEW row, Grown(u, row), Founded(r, u, row)
      PROVE  Founded(r, t, db'[t][next]) /\ \A v \in Tables : Ids(v) \subseteq Ids(v)'
  <2>1. u # t => Ids(t)' = Ids(t) BY <1>3 DEF Grown, Ids
  <2>2. u = t BY <2>1, <1>1
  <2>3. db'[t][next] = row BY <2>2, <1>3 DEF Grown
  <2>4. \A v \in Tables : Ids(v) \subseteq Ids(v)' BY <1>3 DEF Grown, Ids
  <2> QED BY <2>2, <2>3, <2>4, <1>3
<1>4. ASSUME NEW u \in Tables, NEW ids, Shrunk(u, ids) PROVE FALSE BY <1>1, <1>4 DEF Shrunk, Ids
<1>5. CASE \E u \in Tables : \E row : Grown(u, row) /\ Founded(r, u, row) BY <1>3, <1>5
<1>6. CASE \E u \in Tables : \E ids : Shrunk(u, ids) BY <1>4, <1>6
<1>7. Leaves \subseteq Tables /\ Parts \subseteq Tables BY TableNames DEF Leaves, Parts
<1> QED BY <1>2, <1>5, <1>6, <1>7 DEF Effect

LEMMA FirstOf ==
    ASSUME NEW S, NEW s \in Seq(S), s # << >>
    PROVE  s[1] \in S /\ Head(s) = s[1] /\ Len(s) \in Nat \ {0} /\ Tail(s) \in Seq(S)
OBVIOUS

LEMMA RowsStep ==
    ASSUME RowsHang, NEW r \in Requests, Handle(r)
    PROVE  RowsKnown'
<1>0. RowsKnown /\ CatalogKnown /\ HeldKnown(r) BY DEF RowsHang
<1>1. Effect(r) BY HandleEffect
<1>2. /\ next \in Nat /\ next' \in Nat /\ next <= next' /\ 1 .. next - 1 \subseteq 1 .. next' - 1
      /\ \A t \in {"org", "project"} : Ids(t) \subseteq Ids(t)'
      /\ \A t \in Tables : \A i \in Ids(t)' : i # next => i \in Ids(t) /\ db'[t][i].of = db[t][i].of
      /\ \A t \in Tables : \A i \in Ids(t)' : i \in Ids(t) => "of" \in DOMAIN db'[t][i]
      /\ \A t \in Tables : next \notin Ids(t)
  BY <1>1, EffectGrows
<1>8. 1 <= next /\ 0 \in 0 .. next' - 1 /\ 0 .. next - 1 \subseteq 0 .. next' - 1
  <2>1. 1 <= next BY <1>0, FirstFreePositive
  <2>2. PICK n : n = next' OBVIOUS
  <2>3. n \in Nat /\ next <= n BY <2>2, <1>2
  <2>4. 0 \in 0 .. n - 1 /\ 0 .. next - 1 \subseteq 0 .. n - 1 BY <2>1, <2>3, <1>2
  <2> QED BY <2>1, <2>2, <2>4
<1>3. \A t \in Tables : next \in Ids(t)' => Founded(r, t, db'[t][next]) BY <1>1, NewRow
<1>4. ASSUME NEW t \in Tables, NEW i \in Ids(t)' PROVE "of" \in DOMAIN db'[t][i]
  BY <1>2, <1>3, <1>4 DEF Founded
<1>5. ASSUME NEW t \in Keyed, NEW i \in Ids(t)' PROVE db'[t][i].of \in 1 .. next' - 1
  <2>1. t \in Tables BY DEF Keyed
  <2>2. CASE i = next BY <2>1, <2>2, <1>2, <1>3, <1>5 DEF Founded
  <2>3. CASE i # next BY <2>1, <2>3, <1>0, <1>2, <1>5 DEF RowsKnown
  <2> QED BY <2>2, <2>3
<1>6. ASSUME NEW t \in Housed, NEW i \in Ids(t)' PROVE db'[t][i].of \in Ids(References[t])'
  <2>1. t \in Tables /\ References[t] \in {"org", "project"} BY DEF Housed
  <2>2. db'[t][i].of \in Ids(References[t])
    <3>2. CASE i = next BY <2>1, <3>2, <1>3, <1>6 DEF Founded
    <3>3. CASE i # next BY <2>1, <3>3, <1>0, <1>2, <1>6 DEF RowsKnown
    <3> QED BY <3>2, <3>3
  <2> QED BY <2>1, <2>2, <1>2
<1>7. ASSUME NEW i \in Ids("test")' PROVE "current" \in DOMAIN db'.test[i] /\ db'.test[i].current \in 0 .. next' - 1
  <2>0. "test" \in Tables BY TableNames
  <2>1. CASE i = next
    <3>1. Founded(r, "test", db'.test[next]) BY <2>0, <2>1, <1>3, <1>7
    <3>2. "current" \in DOMAIN db'.test[next] /\ db'.test[next].current = 0 BY <3>1 DEF Founded
    <3> QED BY <2>1, <3>2, <1>8
  <2>2. CASE i # next
    <3>0. i \in Ids("test") BY <2>0, <2>2, <1>2, <1>7
    <3>1. "current" \in DOMAIN db.test[i] /\ db.test[i].current \in 0 .. next - 1 BY <1>0, <3>0 DEF RowsKnown
    <3>2. 0 .. next - 1 \subseteq 0 .. next' - 1 BY <1>8
    <3>3. CASE StillCurrent BY <3>0, <3>1, <3>2, <3>3 DEF StillCurrent
    <3>4. ASSUME NEW t \in Tables, NEW row, Grown(t, row) PROVE db'.test[i] = db.test[i]
      <4>1. CASE t = "test" BY <4>1, <3>0, <3>4 DEF Grown
      <4>2. CASE t # "test" BY <4>2, <2>0, <3>4 DEF Grown
      <4> QED BY <4>1, <4>2
    <3>5. ASSUME NEW t \in Tables, NEW ids, Shrunk(t, ids) PROVE db'.test[i] = db.test[i]
      <4>1. CASE t = "test" BY <4>1, <3>0, <3>5, <1>7 DEF Shrunk
      <4>2. CASE t # "test" BY <4>2, <2>0, <3>5 DEF Shrunk
      <4> QED BY <4>1, <4>2
    <3>6. CASE \E t \in Tables : \E row : Grown(t, row) BY <3>1, <3>2, <3>4, <3>6
    <3>7. CASE \E t \in Tables : \E ids : Shrunk(t, ids) BY <3>1, <3>2, <3>5, <3>7
    <3>8. CASE Sets(r)
      <4>1. "current" \in DOMAIN db'.test[i] /\ db'.test[i].current = IF i \in call[r].seen THEN call[r].ids[1] ELSE db.test[i].current
        BY <3>0, <3>8 DEF Sets
      <4>2. call[r].ids[1] \in 0 .. next - 1
        <5>1. call[r].ids \in Seq(1 .. next - 1) BY <1>0 DEF HeldKnown
        <5>2. call[r].ids # << >> BY <3>8 DEF Sets, RowsHang, CurrentKnown
        <5>3. call[r].ids[1] \in 1 .. next - 1 BY <5>1, <5>2, FirstOf
        <5> QED BY <5>3, <1>2
      <4> QED BY <4>1, <4>2, <3>1, <3>2
    <3>9. CASE Clears(r)
      <4>1. "current" \in DOMAIN db'.test[i] /\ db'.test[i].current = IF i = Req(r).id THEN 0 ELSE db.test[i].current
        BY <3>0, <3>9 DEF Clears
      <4>2. 0 \in 0 .. next' - 1 BY <1>8
      <4> QED BY <4>1, <4>2, <3>1, <3>2
    <3>10. Leaves \subseteq Tables /\ Parts \subseteq Tables BY TableNames DEF Leaves, Parts
    <3> QED BY <1>1, <3>3, <3>6, <3>7, <3>8, <3>9, <3>10 DEF Effect
  <2> QED BY <2>1, <2>2
<1> QED BY <1>4, <1>5, <1>6, <1>7 DEF RowsKnown

LEMMA KeysStep ==
    ASSUME RowsHang, NEW r \in Requests, Handle(r)
    PROVE  KeysKnown'
<1>0. RowsKnown /\ CatalogKnown /\ KeysKnown BY DEF RowsHang
<1>1. Effect(r) BY HandleEffect
<1>2. work' = work BY Frame
<1> SUFFICES ASSUME work.enforced \/ RemovalsLast', NEW t \in Keyed, NEW i \in Ids(t)'
             PROVE  db'[t][i].of \in Ids(References[t])'
  BY <1>2 DEF KeysKnown, Backed
<1>3. work.enforced \/ RemovalsLast BY OrderStep
<1>4. t \in Tables /\ References[t] \in Tables BY KeyNames, TableNames DEF Keyed, References
<1>5. /\ \A j \in Ids(t)' : j # next => j \in Ids(t) /\ db'[t][j].of = db[t][j].of
      /\ next \notin Ids(t)
  BY <1>1, <1>4, EffectGrows
<1>6. CASE i = next
  <2>1. Founded(r, t, db'[t][next]) /\ Ids(References[t]) \subseteq Ids(References[t])' BY <1>1, <1>4, <1>6, NewRow
  <2>2. ~ Removal(r) BY <2>1 DEF Founded
  <2>3. work.enforced \/ NothingRemoved BY <2>2, LastRunsAlone
  <2> QED BY <2>1, <2>3, <1>6 DEF Founded
<1>7. CASE i # next
  <2>1. i \in Ids(t) /\ db'[t][i].of = db[t][i].of BY <1>5, <1>7
  <2>2. db[t][i].of \in Ids(References[t]) BY <1>0, <1>3, <2>1 DEF KeysKnown, Backed
  <2>3. CASE Ids(References[t]) \subseteq Ids(References[t])' BY <2>1, <2>2, <2>3
  <2>4. CASE Still BY <2>3, <2>4, <1>4 DEF Still
  <2>5. CASE \E u \in Tables : \E row : Grown(u, row) BY <2>3, <2>5, <1>4 DEF Grown, Ids
  <2>6. ASSUME NEW u \in Leaves, NEW ids, Shrunk(u, ids) PROVE Ids(References[t]) \subseteq Ids(References[t])'
    <3>1. References[t] # u BY <1>4, Referring DEF Leaves
    <3> QED BY <3>1, <1>4, <2>6 DEF Shrunk, Ids
  <2>7. ASSUME NEW u \in Parts, NEW ids, Removal(r), Shrunk(u, ids), Freed(r, u, ids)
        PROVE  db'[t][i].of \in Ids(References[t])'
    <3>1. CASE References[t] # u
      <4>1. Ids(References[t])' = Ids(References[t]) BY <3>1, <1>4, <2>7 DEF Shrunk, Ids
      <4> QED BY <4>1, <2>1, <2>2
    <3>2. CASE References[t] = u
      <4>1. work.enforced \/ Solo(r) \/ ~ Begun(r) BY <2>7, LastRunsAlone
      <4>2. Select(t, "of", ids) = {} BY <4>1, <3>2, <2>7, <1>4 DEF Freed
      <4>3. db[t][i].of \notin ids BY <4>2, <2>1 DEF Select
      <4> QED BY <4>3, <3>2, <2>1, <2>2, <2>7 DEF Shrunk
    <3> QED BY <3>1, <3>2
  <2> QED BY <1>1, <2>3, <2>4, <2>5, <2>6, <2>7 DEF Effect
<1> QED BY <1>6, <1>7


(* Which handler takes the step. *)
LEMMA HandlerOf ==
    ASSUME NEW r \in Requests, Handle(r)
    PROVE  \/ Homes(r) /\ Req(r).op \in InProject \cup InOrg
           \/ Edits(r) /\ Req(r).op \in {"createTest", "updateTest"}
           \/ RemoveTest(r) /\ Req(r).op = "removeTest"
           \/ RemoveFlow(r) /\ Req(r).op = "removeFlow"
           \/ RemoveRun(r) /\ Req(r).op = "removeRun"
           \/ Small(r) /\ Req(r).op \in DOMAIN Patched \cup DOMAIN Dropped \cup {"createSchedule", "createApiKey", "createAlert"}
           \/ Folders(r) /\ Req(r).op \in {"moveFolder", "removeFolder"}
           \/ Runs(r) /\ Req(r).op \in Fanning \cup {"retry", "listTests", "execute"}
           \/ Fails(r)
<1>1. Homes(r) => Req(r).op \in InProject \cup InOrg
  <2>1. FindProject(r) => Req(r).op \in InProject BY DEF FindProject, At
  <2>2. FindOrg(r) => Req(r).op \in InOrg BY DEF FindOrg, At
  <2>3. MakeOrg(r) => Req(r).op \in InProject \cup InOrg BY DEF MakeOrg, At
  <2>4. MakeProject(r) => Req(r).op \in InProject BY DEF MakeProject, At
  <2>5. CreateAtHome(r) => Req(r).op \in InProject \cup InOrg BY DEF CreateAtHome, At
  <2>6. ListFolders(r) => Req(r).op \in InProject BY DEF ListFolders, At, InProject
  <2> QED BY <2>1, <2>2, <2>3, <2>4, <2>5, <2>6 DEF Homes
<1>2. Edits(r) => Req(r).op \in {"createTest", "updateTest"}
  BY DEF Edits, InsertTest, FindTest, RenameTest, ValidateEdit, InsertVersion, SetCurrent, At
<1>3. RemoveTest(r) => Req(r).op = "removeTest" BY DEF RemoveTest, ReadVersions, ReadRuns, ClearCurrent, At
<1>4. RemoveFlow(r) => Req(r).op = "removeFlow" BY DEF RemoveFlow, ReadCaptures, At
<1>5. RemoveRun(r) => Req(r).op = "removeRun" BY DEF RemoveRun
<1>6. Small(r) => Req(r).op \in DOMAIN Patched \cup DOMAIN Dropped \cup {"createSchedule", "createApiKey", "createAlert"}
  <2>1. PatchRow(r) => Req(r).op \in DOMAIN Patched BY DEF PatchRow, At
  <2>2. DropRow(r) => Req(r).op \in DOMAIN Dropped BY DEF DropRow, At
  <2>3. CreateSchedule(r) \/ CreateApiKey(r) \/ FindAlertTest(r) \/ InsertAlert(r) =>
          Req(r).op \in {"createSchedule", "createApiKey", "createAlert"}
    BY DEF CreateSchedule, CreateApiKey, FindAlertTest, InsertAlert, At
  <2> QED BY <2>1, <2>2, <2>3 DEF Small
<1>7. Folders(r) => Req(r).op \in {"moveFolder", "removeFolder"}
  BY DEF Folders, CheckMove, PlaceFolder, FindFolder, LiftFolders, LiftTests, DeleteFolder, At
<1>8. Runs(r) => Req(r).op \in Fanning \cup {"retry", "listTests", "execute"}
  <2>1. ReadTest(r) => Req(r).op \in Fanning BY DEF ReadTest, At
  <2>2. InsertRun(r) => Req(r).op \in Fanning \cup {"retry"} BY DEF InsertRun, At
  <2>3. AddJob(r) => Req(r).op \in Fanning \cup {"retry"} BY DEF AddJob, At
  <2>4. RetryReads(r) => Req(r).op = "retry" BY DEF RetryReads, At
  <2>5. ListTests(r) => Req(r).op = "listTests" BY DEF ListTests, At
  <2>6. Execute(r) => Req(r).op = "execute" BY DEF Execute, At
  <2> QED BY <2>1, <2>2, <2>3, <2>4, <2>5, <2>6 DEF Runs
<1> QED BY <1>1, <1>2, <1>3, <1>4, <1>5, <1>6, <1>7, <1>8 DEF Handle

(* A failing handler answers, or goes on with the next test. *)
LEMMA FailsGoes ==
    ASSUME CatalogKnown, NEW r \in Requests, Fails(r)
    PROVE  /\ Read /\ faults' = faults + 1
           /\ \/ Go(r, "failed")
              \/ Req(r).op \in Fanning /\ GoWith(r, "test", [tests |-> Tail(Left(r))])
BY DEF Fails, Skip

(* The steps of tests.remove. *)
LEMMA TestRemovalGoes ==
    ASSUME RowsHang, NEW r \in Requests, Handle(r), Req(r).op = "removeTest"
    PROVE  /\ call'[r].at = "versions" => Clears(r) /\ Still
           /\ call'[r].at = "row" => call[r].at = "versions" /\ \E ids : Delete("testVersion", ids)
           /\ call'[r].at \notin {"current", "version"}
<1>0. CatalogKnown /\ RowsKnown BY DEF RowsHang
<1>1. RemoveTest(r) \/ Fails(r)
  BY HandlerOf DEF InProject, InOrg, Patched, Dropped, Fanning
<1>2. CASE Fails(r)
  <2>1. Go(r, "failed") BY <1>0, <1>2, FailsGoes DEF Fanning
  <2> QED BY <2>1, <1>0, Kept
<1>3. CASE ReadVersions(r)
  <2>1. \E place \in {"baselines", "readRuns"} : \E x : GoWith(r, place, [seen |-> x]) BY <1>3 DEF ReadVersions
  <2>2. PICK place \in {"baselines", "readRuns"} : \E x : GoWith(r, place, [seen |-> x]) BY <2>1
  <2>3. PICK x : GoWith(r, place, [seen |-> x]) BY <2>2
  <2>4. DOMAIN [seen |-> x] \subseteq {"seen", "runs", "row", "tests", "batch", "ids"} OBVIOUS
  <2>5. call'[r].at = place BY <2>3, <2>4, <1>0, Carried
  <2> QED BY <2>5
<1>4. CASE ReadRuns(r)
  <2>3. PICK x : GoWith(r, "steps", [runs |-> x]) BY <1>4 DEF ReadRuns
  <2>4. DOMAIN [runs |-> x] \subseteq {"seen", "runs", "row", "tests", "batch", "ids"} OBVIOUS
  <2>5. call'[r].at = "steps" BY <2>3, <2>4, <1>0, Carried
  <2> QED BY <2>5
<1>5. CASE ClearCurrent(r)
  <2>1. call[r].at = "clear" /\ Go(r, "versions") BY <1>5 DEF ClearCurrent, At
  <2>2. Update("test", {Req(r).id}, [current |-> 0]) BY <1>5 DEF ClearCurrent
  <2>3. "of" \notin DOMAIN [current |-> 0] OBVIOUS
  <2>6. "test" \in Tables BY TableNames
  <2>4. Still /\ \A i \in Ids("test") : db'.test[i] = IF i \in {Req(r).id} THEN [current |-> 0] ++ db.test[i] ELSE db.test[i]
    BY <1>0, <2>2, <2>3, <2>6, UpdateShape
  <2>5. \A i \in Ids("test") : "current" \in DOMAIN db.test[i] BY <1>0 DEF RowsKnown
  <2>7. Clears(r) BY <2>1, <2>4, <2>5 DEF Clears, ++
  <2>8. call'[r].at = "versions" BY <2>1, <1>0, Kept
  <2> QED BY <2>4, <2>7, <2>8
<1>6. CASE RemovePart(r, DeleteParts(r))
  <2> DEFINE part == DeleteParts(r)[call[r].at]
  <2>1. call[r].at \in {"steps", "runs", "baselines", "schedules", "versions", "row"} BY <1>6 DEF RemovePart, DeleteParts
  <2>2. Go(r, "failed") \/ (Go(r, part[3]) /\ Delete(part[1], part[2])) BY <1>6 DEF RemovePart
  <2>3. part[3] # "versions" /\ part[3] \notin {"current", "version"} BY <2>1 DEF DeleteParts
  <2>4. part[3] = "row" => call[r].at = "versions" /\ part[1] = "testVersion" BY <2>1 DEF DeleteParts
  <2> HIDE DEF part
  <2>5. call'[r].at = "failed" \/ (call'[r].at = part[3] /\ Delete(part[1], part[2])) BY <2>2, <1>0, Kept
  <2> QED BY <2>3, <2>4, <2>5
<1> QED BY <1>1, <1>2, <1>3, <1>4, <1>5, <1>6 DEF RemoveTest

(* The steps of a version that is inserted and made current. *)
LEMMA EditGoes ==
    ASSUME RowsHang, NEW r \in Requests, Handle(r), call'[r].at = "current",
           Req(r).op \in {"createTest", "updateTest"}
    PROVE  \E t : /\ call'[r].seen = {t} /\ call'[r].ids = << next >>
                  /\ next \in Ids("testVersion")' /\ db'.testVersion[next].of = t
<1>0. CatalogKnown /\ HeldKnown(r) BY DEF RowsHang
<1>1. Homes(r) \/ Edits(r) \/ Fails(r)
  BY HandlerOf DEF InProject, InOrg, Patched, Dropped, Fanning
<1>2. ~ Fails(r)
  <2>1. Fails(r) => Go(r, "failed") BY <1>0, FailsGoes DEF Fanning
  <2> QED BY <2>1, <1>0, Kept
<1>3. ASSUME NEW place, Go(r, place), place # "current" PROVE FALSE BY <1>0, <1>3, Kept
<1>4. ASSUME NEW place, place # "current", NEW x, GoWith(r, place, [seen |-> x]) PROVE FALSE
  <2>1. DOMAIN [seen |-> x] \subseteq {"seen", "runs", "row", "tests", "batch", "ids"} OBVIOUS
  <2> QED BY <2>1, <1>0, <1>4, Carried
<1>5. ~ Homes(r)
  <2>1. ~ FindProject(r)
    <3>1. FindProject(r) => Go(r, "refused") \/ Go(r, "makeOrg") \/ GoWith(r, "home", [seen |-> {Oldest("project")}])
      BY DEF FindProject, Refuse
    <3> QED BY <3>1, <1>3, <1>4
  <2>2. ~ FindOrg(r)
    <3>1. FindOrg(r) => Go(r, "makeOrg") \/ GoWith(r, "home", [seen |-> {Oldest("org")}]) BY DEF FindOrg
    <3> QED BY <3>1, <1>3, <1>4
  <2>3. ~ MakeOrg(r)
    <3>1. MakeOrg(r) => GoWith(r, "home", [seen |-> {next}]) \/ GoWith(r, "makeProject", [seen |-> {next}]) BY DEF MakeOrg
    <3> QED BY <3>1, <1>4
  <2>4. ~ MakeProject(r) BY <1>4 DEF MakeProject
  <2>5. ~ CreateAtHome(r) BY <1>3 DEF CreateAtHome
  <2>6. ~ ListFolders(r) BY <1>4 DEF ListFolders
  <2> QED BY <2>1, <2>2, <2>3, <2>4, <2>5, <2>6 DEF Homes
<1>6. InsertVersion(r)
  <2>1. ~ InsertTest(r) BY <1>4 DEF InsertTest
  <2>2. ~ FindTest(r)
    <3>1. ASSUME NEW x, NEW y, GoWith(r, "name", [seen |-> x, row |-> y]) PROVE FALSE
      <4>1. DOMAIN [seen |-> x, row |-> y] \subseteq {"seen", "runs", "row", "tests", "batch", "ids"} OBVIOUS
      <4> QED BY <4>1, <1>0, <3>1, Carried
    <3>2. FindTest(r) => Go(r, "refused") \/ \E x, y : GoWith(r, "name", [seen |-> x, row |-> y]) BY DEF FindTest
    <3> QED BY <3>1, <3>2, <1>3
  <2>3. ~ RenameTest(r)
    <3>1. RenameTest(r) => Go(r, "validate") \/ Go(r, "ok") BY DEF RenameTest
    <3> QED BY <3>1, <1>3
  <2>4. ~ ValidateEdit(r)
    <3>1. ValidateEdit(r) => Go(r, "refused") \/ Go(r, "version") BY DEF ValidateEdit
    <3> QED BY <3>1, <1>3
  <2>5. ~ SetCurrent(r) BY <1>3 DEF SetCurrent
  <2> QED BY <2>1, <2>2, <2>3, <2>4, <2>5, <1>1, <1>2, <1>5 DEF Edits
<1>7. PICK t \in call[r].seen :
        LET row == [of |-> t, dsl |-> Req(r).dsl] IN
        (Insert("testVersion", row) /\ GoWith(r, "current", [ids |-> << next >>])) \/ Go(r, "failed")
  BY <1>6 DEF InsertVersion
<1> DEFINE row == [of |-> t, dsl |-> Req(r).dsl]
<1>8. Insert("testVersion", row) /\ GoWith(r, "current", [ids |-> << next >>]) BY <1>3, <1>7
<1>9. row.of = t OBVIOUS
<1> HIDE DEF row
<1>10. "testVersion" \in Tables BY TableNames
<1>11. Grown("testVersion", row) BY <1>8, <1>0, <1>10, InsertShape
<1>12. next \in Ids("testVersion")' /\ db'.testVersion[next].of = t BY <1>9, <1>11 DEF Grown
<1>13. Making(r) BY <1>6 DEF InsertVersion, At, Making
<1>14. call[r].seen = {t} BY <1>0, <1>7, <1>13 DEF HeldKnown
<1>15. call'[r].ids = << next >> /\ call'[r].seen = {t}
  <2> DEFINE what == [ids |-> << next >>]
  <2>1. DOMAIN what = {"ids"} /\ what.ids = << next >> OBVIOUS
  <2>2. GoWith(r, "current", what) BY <1>8
  <2> HIDE DEF what
  <2> QED BY <2>1, <2>2, <1>0, <1>14, Carried
<1> QED BY <1>12, <1>15

(* A version that is its test's own stays so, until the test's removal gets to it. *)
LEMMA VersionStays ==
    ASSUME RowsHang, NEW r \in Requests, Effect(r), NEW t, NEW v, OwnVersion(t, v)
    PROVE  \/ OwnVersion(t, v)'
           \/ Req(r).op = "removeTest" /\ Req(r).id = t /\ call[r].at = "versions"
<1>0. "testVersion" \in Tables BY TableNames
<1>1. v \in Ids("testVersion") /\ db.testVersion[v].of = t BY DEF OwnVersion
<1>2. CASE Still BY <1>0, <1>1, <1>2 DEF Still, OwnVersion
<1>3. ASSUME NEW u \in Tables, NEW row, Grown(u, row) PROVE OwnVersion(t, v)'
  <2>1. CASE u = "testVersion" BY <2>1, <1>1, <1>3 DEF Grown, OwnVersion
  <2>2. CASE u # "testVersion" BY <2>2, <1>0, <1>1, <1>3 DEF Grown, OwnVersion, Ids
  <2> QED BY <2>1, <2>2
<1>4. ASSUME NEW u \in Tables \ {"testVersion"}, NEW ids, Shrunk(u, ids) PROVE OwnVersion(t, v)'
  BY <1>0, <1>1, <1>4 DEF Shrunk, OwnVersion, Ids
<1>5. ASSUME NEW ids, Shrunk("testVersion", ids), v \notin ids PROVE OwnVersion(t, v)'
  BY <1>1, <1>5 DEF Shrunk, OwnVersion
<1>6. ASSUME NEW ids, v \in ids, OwnPart(r, "testVersion", ids)
      PROVE  Req(r).op = "removeTest" /\ Req(r).id = t /\ call[r].at = "versions"
  <2>1. Req(r).op = "removeTest" /\ call[r].at = "versions" /\ v \in TestVersions(r) BY <1>6 DEF OwnPart
  <2> QED BY <2>1, <1>1 DEF TestVersions, Select
<1>7. Leaves \subseteq Tables \ {"testVersion"} /\ Parts \subseteq Tables BY TableNames DEF Leaves, Parts
<1>8. ASSUME NEW u \in Parts, NEW ids, Shrunk(u, ids), OwnPart(r, u, ids)
      PROVE  OwnVersion(t, v)' \/ (Req(r).op = "removeTest" /\ Req(r).id = t /\ call[r].at = "versions")
  <2>1. CASE u # "testVersion" BY <2>1, <1>4, <1>7, <1>8
  <2>2. CASE u = "testVersion" BY <2>2, <1>5, <1>6, <1>8
  <2> QED BY <2>1, <2>2
<1>9. CASE \E u \in Tables : \E row : Grown(u, row) BY <1>9, <1>3
<1>10. CASE \E u \in Leaves : \E ids : Shrunk(u, ids) BY <1>10, <1>4, <1>7
<1>11. CASE \E u \in Parts : \E ids : Shrunk(u, ids) /\ OwnPart(r, u, ids) BY <1>11, <1>8
<1> QED BY <1>2, <1>9, <1>10, <1>11 DEF Effect

(* How the current version of a test changes. *)
LEMMA CurrentMoves ==
    ASSUME RowsHang, NEW r \in Requests, Effect(r), NEW t \in Ids("test"), t \in Ids("test")'
    PROVE  \/ db'.test[t].current = db.test[t].current
           \/ Sets(r) /\ t \in call[r].seen /\ db'.test[t].current = call[r].ids[1]
           \/ Clears(r) /\ t = Req(r).id /\ db'.test[t].current = 0
<1>0. "test" \in Tables BY TableNames
<1>1. CASE StillCurrent BY <1>1 DEF StillCurrent
<1>2. ASSUME NEW u \in Tables, NEW row, Grown(u, row) PROVE db'.test[t] = db.test[t]
  <2>1. CASE u = "test" BY <2>1, <1>2 DEF Grown
  <2>2. CASE u # "test" BY <2>2, <1>0, <1>2 DEF Grown
  <2> QED BY <2>1, <2>2
<1>3. ASSUME NEW u \in Tables, NEW ids, Shrunk(u, ids) PROVE db'.test[t] = db.test[t]
  <2>1. CASE u = "test" BY <2>1, <1>3 DEF Shrunk
  <2>2. CASE u # "test" BY <2>2, <1>0, <1>3 DEF Shrunk
  <2> QED BY <2>1, <2>2
<1>4. Leaves \subseteq Tables /\ Parts \subseteq Tables BY TableNames DEF Leaves, Parts
<1>5. CASE \E u \in Tables : \E row : Grown(u, row) BY <1>5, <1>2
<1>6. CASE \E u \in Tables : \E ids : Shrunk(u, ids) BY <1>6, <1>3
<1>7. CASE Sets(r) BY <1>7 DEF Sets
<1>8. CASE Clears(r) BY <1>8 DEF Clears
<1> QED BY <1>1, <1>4, <1>5, <1>6, <1>7, <1>8 DEF Effect

LEMMA MetNow ==
    ASSUME RowsHang, NEW r \in Requests, NEW s \in Requests, r # s, Begun(r), Begun(s), ~ Answered(r), ~ Answered(s)
    PROVE  Met(r, s) /\ Met(s, r)
<1>1. << r, s >> \notin before /\ << s, r >> \notin before BY DEF RowsHang, OrderKnown
<1> QED BY <1>1 DEF Met, Overlap

LEMMA CurrentStep ==
    ASSUME RowsHang, NEW r \in Requests, Handle(r)
    PROVE  CurrentKnown'
<1>0. CatalogKnown /\ CurrentKnown /\ RowsKnown BY DEF RowsHang
<1>1. Effect(r) BY HandleEffect
<1>2. Requests' = Requests /\ (\A s : Req(s)' = Req(s)) /\ work' = work
      /\ (\A s \in Requests \ {r} : call'[s] = call[s]) /\ ~ Answered(r)
  BY Frame
<1>3. ASSUME NEW t, Disturbed(t) PROVE Disturbed(t)'
  <2>1. PICK a, b \in Requests : Removing(a, t) /\ Met(a, b) BY <1>3 DEF Disturbed
  <2>2. Removing(a, t)'
    <3>1. Begun(a)' BY <2>1, OrderStep DEF Removing
    <3> QED BY <2>1, <3>1, <1>2 DEF Removing
  <2>3. Met(a, b)' BY <2>1, OrderStep
  <2> QED BY <2>2, <2>3, <1>2 DEF Disturbed
<1>4. ASSUME NEW a \in Requests, NEW t, Removing(a, t) PROVE Removing(a, t)'
  <2>1. Begun(a)' BY <1>4, OrderStep DEF Removing
  <2> QED BY <2>1, <1>4, <1>2 DEF Removing
<1>5. \A t \in Ids("test")' : t # next => t \in Ids("test")
  <2>1. "test" \in Tables BY TableNames
  <2> QED BY <1>1, <2>1, EffectGrows
<1>6. ASSUME NEW t \in Ids("test")'
      PROVE  \/ OwnVersion(t, db.test[t].current)'
             \/ db'.test[t].current = 0 /\ (t \notin DOMAIN work.db.test \/ \E s \in Requests : Removing(s, t)')
             \/ Disturbed(t)'
  <2>1. CASE t = next
    <3>0. "test" \in Tables BY TableNames
    <3>1. Founded(r, "test", db'.test[next]) BY <1>1, <1>6, <2>1, <3>0, NewRow
    <3>2. db'.test[next].current = 0 BY <3>0, <3>1 DEF Founded
    <3>3. DOMAIN work.db.test \subseteq 1 .. FirstFree - 1 BY <1>0, <3>0, WorkFacts
    <3>4. next \notin DOMAIN work.db.test BY <1>0, <3>3, FirstFreePositive
    <3> QED BY <2>1, <3>2, <3>4
  <2>2. CASE t # next
    <3>1. t \in Ids("test") BY <1>5, <1>6, <2>2
    <3>0. PICK v : v = db.test[t].current OBVIOUS
    <3>2. CASE db'.test[t].current = v
      <4>1. CASE OwnVersion(t, v)
        <5>1. CASE OwnVersion(t, v)' BY <3>2, <5>1 DEF OwnVersion
        <5>2. CASE Req(r).op = "removeTest" /\ Req(r).id = t /\ call[r].at = "versions"
          <6>1. Removing(r, t) BY <5>2 DEF Removing, Begun
          <6>2. v = 0 \/ Disturbed(t) BY <6>1, <5>2, <3>0, <3>1, <1>0 DEF CurrentKnown
          <6> QED BY <6>1, <6>2, <3>2, <1>3, <1>4
        <5> QED BY <4>1, <5>1, <5>2, <1>1, VersionStays
      <4>2. CASE v = 0 /\ (t \notin DOMAIN work.db.test \/ \E s \in Requests : Removing(s, t))
        BY <3>2, <4>2, <1>4
      <4>3. CASE Disturbed(t) BY <4>3, <1>3
      <4> QED BY <3>0, <3>1, <4>1, <4>2, <4>3, <1>0 DEF CurrentKnown
    <3>3. CASE Sets(r) /\ t \in call[r].seen /\ db'.test[t].current = call[r].ids[1]
      <4>1. Req(r).op \in {"createTest", "updateTest"} /\ call[r].at = "current" BY <3>3 DEF Sets
      <4>2. OwnVersion(t, call[r].ids[1]) \/ Disturbed(t) BY <3>3, <4>1, <1>0 DEF CurrentKnown
      <4>3. CASE OwnVersion(t, call[r].ids[1])
        <5>1. OwnVersion(t, call[r].ids[1])
              /\ ~ (Req(r).op = "removeTest" /\ Req(r).id = t /\ call[r].at = "versions")
          BY <4>1, <4>3
        <5>2. PICK m : m = call[r].ids[1] OBVIOUS
        <5>3. OwnVersion(t, m)' BY <1>1, <5>1, <5>2, VersionStays
        <5> QED BY <3>3, <5>2, <5>3 DEF OwnVersion
      <4> QED BY <4>2, <4>3, <1>3
    <3>4. CASE Clears(r) /\ t = Req(r).id /\ db'.test[t].current = 0
      <4>1. Removing(r, t) BY <3>4 DEF Clears, Removing, Begun
      <4> QED BY <4>1, <3>4, <1>4
    <3> QED BY <3>0, <3>1, <3>2, <3>3, <3>4, <1>1, <1>6, CurrentMoves
  <2> QED BY <2>1, <2>2
<1>7. ASSUME NEW s \in Requests, NEW t \in Ids("test")', Removing(s, t)', call'[s].at \in {"versions", "row"}
      PROVE  db'.test[t].current = 0 \/ Disturbed(t)'
  <2>1. Req(s).op = "removeTest" /\ Req(s).id = t BY <1>2, <1>7 DEF Removing
  <2>2. t # next
    <3>1. Req(s).id < FirstFree /\ Req(s).id \in Nat BY <1>0, <2>1, FirstFreePositive DEF NamesNoRow
    <3> QED BY <3>1, <2>1, <1>0, FirstFreePositive
  <2>3. t \in Ids("test") BY <1>5, <1>7, <2>2
  <2>4. CASE s = r
    <3>1. CASE call'[r].at = "versions"
      <4>1. Clears(r) BY <2>1, <2>4, <3>1, TestRemovalGoes
      <4> QED BY <4>1, <2>1, <2>3, <2>4 DEF Clears
    <3>2. CASE call'[r].at = "row"
      <4>1. call[r].at = "versions" /\ \E ids : Delete("testVersion", ids) BY <2>1, <2>4, <3>2, TestRemovalGoes
      <4>2. Removing(r, t) BY <4>1, <2>1, <2>4 DEF Removing, Begun
      <4>3. db.test[t].current = 0 \/ Disturbed(t) BY <4>1, <4>2, <2>3, <1>0 DEF CurrentKnown
      <4>4. "test" \in Tables /\ "testVersion" \in Tables BY TableNames
      <4>5. \E ids : Shrunk("testVersion", ids) BY <4>1, <4>4, <1>0, DeleteShape
      <4>6. db'.test = db.test BY <4>4, <4>5 DEF Shrunk
      <4> QED BY <4>3, <4>6, <1>3
    <3> QED BY <2>4, <3>1, <3>2, <1>7
  <2>5. CASE s # r
    <3>1. call'[s] = call[s] BY <1>2, <2>5
    <3>2. Removing(s, t) /\ call[s].at \in {"versions", "row"} BY <3>1, <2>1, <1>7 DEF Removing, Begun
    <3>3. db.test[t].current = 0 \/ Disturbed(t) BY <3>2, <2>3, <1>0 DEF CurrentKnown
    <3>4. ASSUME Sets(r) PROVE Disturbed(t)
      <4>1. Begun(r) /\ Begun(s) /\ ~ Answered(s) BY <3>2, <3>4 DEF Sets, Begun, Answered
      <4>2. Met(s, r) BY <4>1, <2>5, <1>2, MetNow
      <4> QED BY <4>2, <3>2 DEF Disturbed
    <3>5. \/ db'.test[t].current = db.test[t].current
          \/ Sets(r)
          \/ db'.test[t].current = 0
      BY <2>3, <1>1, <1>7, CurrentMoves
    <3> QED BY <3>3, <3>4, <3>5, <1>3
  <2> QED BY <2>4, <2>5
<1>8. ASSUME NEW s \in Requests, Req(s).op \in {"createTest", "updateTest"}, call'[s].at = "current"
      PROVE  call'[s].ids # << >> /\ \A t \in call'[s].seen : (\E v : v = call'[s].ids[1] /\ OwnVersion(t, v)') \/ Disturbed(t)'
  <2>1. CASE s = r
    <3>1. PICK t : /\ call'[r].seen = {t} /\ call'[r].ids = << next >>
                   /\ next \in Ids("testVersion")' /\ db'.testVersion[next].of = t
      BY <2>1, <1>8, EditGoes
    <3>2. call'[r].ids # << >> /\ call'[r].ids[1] = next BY <3>1
    <3>3. PICK v : v = next OBVIOUS
    <3>4. OwnVersion(t, v)' BY <3>1, <3>3 DEF OwnVersion
    <3> QED BY <2>1, <3>1, <3>2, <3>3, <3>4
  <2>2. CASE s # r
    <3>1. call'[s] = call[s] BY <1>2, <2>2
    <3>2. call[s].at = "current" BY <3>1, <1>8
    <3>3. call[s].ids # << >> /\ \A t \in call[s].seen : OwnVersion(t, call[s].ids[1]) \/ Disturbed(t)
      BY <3>2, <1>8, <1>0 DEF CurrentKnown
    <3>4. ASSUME NEW t \in call[s].seen PROVE (\E v : v = call[s].ids[1] /\ OwnVersion(t, v)') \/ Disturbed(t)'
      <4>1. PICK v : v = call[s].ids[1] OBVIOUS
      <4>2. OwnVersion(t, v) \/ Disturbed(t) BY <4>1, <3>3, <3>4
      <4>3. CASE OwnVersion(t, v) /\ ~ OwnVersion(t, v)'
        <5>1. Req(r).op = "removeTest" /\ Req(r).id = t /\ call[r].at = "versions" BY <4>3, <1>1, VersionStays
        <5>2. Removing(r, t) /\ Begun(r) BY <5>1 DEF Removing, Begun
        <5>3. Begun(s) /\ ~ Answered(s) BY <3>2 DEF Begun, Answered
        <5>4. Met(r, s) BY <5>2, <5>3, <2>2, <1>2, MetNow
        <5>5. Disturbed(t) BY <5>2, <5>4 DEF Disturbed
        <5> QED BY <5>5, <1>3
      <4> QED BY <4>1, <4>2, <4>3, <1>3
    <3> QED BY <3>1, <3>3, <3>4
  <2> QED BY <2>1, <2>2
<1>9. ASSUME NEW t, NEW v, NEW w, v = w, OwnVersion(t, v)' PROVE w \in Ids("testVersion")' /\ db'.testVersion[w].of = t
  BY <1>9 DEF OwnVersion
<1>10. \A s \in Requests : Req(s).op \in {"createTest", "updateTest"} /\ call'[s].at = "current" =>
          /\ call'[s].ids # << >>
          /\ \A t \in call'[s].seen : (call'[s].ids[1] \in Ids("testVersion")' /\ db'.testVersion[call'[s].ids[1]].of = t) \/ Disturbed(t)'
  BY <1>8, <1>9
<1> QED BY <1>2, <1>6, <1>7, <1>10 DEF CurrentKnown, OwnVersion

-----------------------------------------------------------------------------
(* What a handler holds. *)
LEMMA SeqOfSet ==
    ASSUME NEW S, IsFiniteSet(S)
    PROVE  SetToSeq(S) \in Seq(S)
<1>1. Cardinality(S) \in Nat /\ ExistsBijection(1 .. Cardinality(S), S) BY FS_CardinalityType
<1>2. \E f \in [1 .. Cardinality(S) -> S] : IsInjective(f)
  BY <1>1 DEF ExistsBijection, Bijection, Injection
<1>3. SetToSeq(S) \in [1 .. Cardinality(S) -> S] BY <1>2 DEF SetToSeq
<1>4. ASSUME NEW n \in Nat, NEW s \in [1 .. n -> S] PROVE s \in Seq(S) OBVIOUS
<1> QED BY <1>1, <1>3, <1>4

LEMMA SeqWider ==
    ASSUME NEW S, NEW T, S \subseteq T, NEW s \in Seq(S)
    PROVE  s \in Seq(T)
<1>1. Len(s) \in Nat /\ s \in [1 .. Len(s) -> S] OBVIOUS
<1>2. s \in [1 .. Len(s) -> T] BY <1>1
<1>3. ASSUME NEW n \in Nat, NEW q \in [1 .. n -> T] PROVE q \in Seq(T) OBVIOUS
<1> QED BY <1>1, <1>2, <1>3

LEMMA HeldOthers ==
    ASSUME RowsHang, NEW r \in Requests, Handle(r), NEW s \in Requests \ {r}
    PROVE  HeldKnown(s)'
<1>1. HeldKnown(s) BY DEF RowsHang
<1>2. call'[s] = call[s] /\ Req(s)' = Req(s) BY Frame
<1>3. Effect(r) BY HandleEffect
<1>4. 1 .. next - 1 \subseteq 1 .. next' - 1 /\ Ids("org") \subseteq Ids("org")' /\ Ids("project") \subseteq Ids("project")'
  BY <1>3, EffectGrows
<1>5. PICK n : n = next' OBVIOUS
<1>6. 1 .. next - 1 \subseteq 1 .. n - 1 BY <1>4, <1>5
<1>7. call[s].ids \in Seq(1 .. next - 1) BY <1>1 DEF HeldKnown
<1>8. call[s].ids \in Seq(1 .. n - 1)
  <2>1. PICK q : q = call[s].ids OBVIOUS
  <2>2. q \in Seq(1 .. next - 1) BY <2>1, <1>7
  <2>3. q \in Seq(1 .. n - 1) BY <2>2, <1>6, SeqWider
  <2> QED BY <2>1, <2>3
<1> QED BY <1>1, <1>2, <1>4, <1>5, <1>6, <1>8 DEF HeldKnown, Making

(* Where something is said of what a handler holds. *)
Holding(op, at) ==
    \/ op \in InProject /\ at \in {"makeProject", "home"}
    \/ op \in InOrg /\ at = "home"
    \/ op = "createAlert" /\ at = "alert"
    \/ op = "createTest" /\ at \in {"version", "current"}
    \/ op = "updateTest" /\ at \in {"name", "validate", "version", "current"}
    \/ op \in Fanning \cup {"retry"} /\ at \in {"insert", "add"}
    \/ op = "retry" /\ at \in {"start", "version", "test"}
Held(r) == HeldKnown(r) /\ (NothingRemoved => HeldThere(r))

LEMMA IdsStay ==
    ASSUME RowsHang, NEW r \in Requests, Handle(r), call'[r].ids = call[r].ids
    PROVE  call'[r].ids \in Seq(1 .. next' - 1)
<1>1. HeldKnown(r) BY DEF RowsHang
<1>2. 1 .. next - 1 \subseteq 1 .. next' - 1 BY HandleEffect, EffectGrows
<1>3. PICK n : n = next' OBVIOUS
<1>4. 1 .. next - 1 \subseteq 1 .. n - 1 /\ call[r].ids \in Seq(1 .. next - 1) BY <1>1, <1>2, <1>3 DEF HeldKnown
<1>5. call[r].ids \in Seq(1 .. n - 1) BY <1>4, SeqWider
<1> QED BY <1>3, <1>5

LEMMA Loose ==
    ASSUME RowsHang, NEW r \in Requests, Handle(r), ~ Holding(Req(r).op, call'[r].at),
           call'[r].ids \in Seq(1 .. next' - 1)
    PROVE  Held(r)'
<1>1. Req(r)' = Req(r) BY Frame
<1>2. HeldKnown(r)' BY <1>1 DEF HeldKnown, Holding, Making
<1>3. HeldThere(r)' BY <1>1 DEF HeldThere, Holding, Making
<1> QED BY <1>2, <1>3 DEF Held

LEMMA GoesLoose ==
    ASSUME RowsHang, NEW r \in Requests, Handle(r), NEW place, Go(r, place), ~ Holding(Req(r).op, place)
    PROVE  Held(r)'
<1>1. CatalogKnown BY DEF RowsHang
<1>2. call'[r].at = place /\ call'[r].ids = call[r].ids BY <1>1, Kept
<1> QED BY <1>2, IdsStay, Loose

LEMMA GoesLooseWith ==
    ASSUME RowsHang, NEW r \in Requests, Handle(r), NEW place, NEW what, GoWith(r, place, what),
           DOMAIN what \subseteq {"seen", "runs", "row", "tests", "batch"}, ~ Holding(Req(r).op, place)
    PROVE  Held(r)'
<1>1. CatalogKnown BY DEF RowsHang
<1>2. call'[r].at = place /\ call'[r].ids = call[r].ids BY <1>1, Carried
<1> QED BY <1>2, IdsStay, Loose

(* An organisation or a project that has been found or made. *)
LEMMA HousingHeld ==
    ASSUME RowsHang, NEW r \in Requests, Handle(r), Req(r).op \in InProject \cup InOrg,
           NEW place \in {"home", "makeProject"}, NEW S, GoWith(r, place, [seen |-> S]),
           S \subseteq (IF Req(r).op \in InProject /\ place = "home" THEN Ids("project")' ELSE Ids("org")')
    PROVE  Held(r)'
<1>1. CatalogKnown BY DEF RowsHang
<1>2. Req(r)' = Req(r) BY Frame
<1> DEFINE what == [seen |-> S]
<1>3. DOMAIN what = {"seen"} /\ what.seen = S OBVIOUS
<1>4. GoWith(r, place, what) OBVIOUS
<1> HIDE DEF what
<1>5. call'[r].at = place /\ call'[r].ids = call[r].ids /\ call'[r].seen = S BY <1>1, <1>3, <1>4, Carried
<1>6. call'[r].ids \in Seq(1 .. next' - 1) BY <1>5, IdsStay
<1>7. Req(r).op \notin {"createAlert", "retry"} \cup Fanning /\ (Req(r).op \in InProject => Req(r).op \notin InOrg)
  BY DEF InProject, InOrg, Fanning
<1>8. ~ Making(r)' BY <1>2, <1>5 DEF Making, InProject, InOrg
<1>9. HeldKnown(r)' BY <1>2, <1>5, <1>6, <1>7, <1>8 DEF HeldKnown
<1>10. HeldThere(r)' BY <1>2, <1>7, <1>8 DEF HeldThere
<1> QED BY <1>9, <1>10 DEF Held

LEMMA HomesHeld ==
    ASSUME RowsHang, NEW r \in Requests, Handle(r), Homes(r), Req(r).op \in InProject \cup InOrg
    PROVE  Held(r)'
<1>0. CatalogKnown BY DEF RowsHang
<1>1. Req(r).op \in {"createTest", "createFolder", "createAction", "createFlow", "listFolders", "createSecret"}
  BY DEF InProject, InOrg
<1>2. ASSUME NEW place \in {"refused", "ok", "makeOrg"} PROVE ~ Holding(Req(r).op, place)
  BY <1>1 DEF Holding, InProject, InOrg, Fanning
<1>3. ASSUME NEW place \in {"refused", "ok", "makeOrg"}, Go(r, place) PROVE Held(r)' BY <1>2, <1>3, GoesLoose
<1>4. "org" \in Tables /\ "project" \in Tables BY TableNames
<1>5. ASSUME Read PROVE Ids("org")' = Ids("org") /\ Ids("project")' = Ids("project") BY <1>5 DEF Read, Ids
<1>6. CASE FindProject(r)
  <2>1. Req(r).op \in InProject BY <1>6 DEF FindProject, At
  <2>2. Read BY <1>6 DEF FindProject, Refuse
  <2>3. Go(r, "refused") \/ Go(r, "makeOrg") \/ (Ids("project") # {} /\ GoWith(r, "home", [seen |-> {Oldest("project")}]))
    BY <1>6 DEF FindProject, Refuse
  <2>4. CASE Ids("project") # {} /\ GoWith(r, "home", [seen |-> {Oldest("project")}])
    <3>1. Oldest("project") \in Ids("project") BY <2>4, <1>0, <1>4, OldestThere
    <3>2. PICK S : S = {Oldest("project")} OBVIOUS
    <3>3. S \subseteq Ids("project")' /\ GoWith(r, "home", [seen |-> S]) BY <3>1, <3>2, <2>2, <2>4, <1>5
    <3> QED BY <3>3, <2>1, HousingHeld
  <2> QED BY <2>3, <2>4, <1>3
<1>7. CASE FindOrg(r)
  <2>1. Req(r).op \in InOrg /\ Req(r).op \notin InProject BY <1>7 DEF FindOrg, At, InOrg, InProject
  <2>2. Read BY <1>7 DEF FindOrg
  <2>3. Go(r, "makeOrg") \/ (Ids("org") # {} /\ GoWith(r, "home", [seen |-> {Oldest("org")}])) BY <1>7 DEF FindOrg
  <2>4. CASE Ids("org") # {} /\ GoWith(r, "home", [seen |-> {Oldest("org")}])
    <3>1. Oldest("org") \in Ids("org") BY <2>4, <1>0, <1>4, OldestThere
    <3>2. PICK S : S = {Oldest("org")} OBVIOUS
    <3>3. S \subseteq Ids("org")' /\ GoWith(r, "home", [seen |-> S]) BY <3>1, <3>2, <2>2, <2>4, <1>5
    <3> QED BY <3>3, <2>1, HousingHeld
  <2> QED BY <2>3, <2>4, <1>3
<1>8. CASE MakeOrg(r)
  <2> DEFINE row == [of |-> 0]
  <2>1. Insert("org", row) BY <1>8 DEF MakeOrg
  <2> HIDE DEF row
  <2>2. Grown("org", row) BY <2>1, <1>0, <1>4, InsertShape
  <2>3. {next} \subseteq Ids("org")' BY <2>2 DEF Grown
  <2>4. PICK place \in {"home", "makeProject"} :
          GoWith(r, place, [seen |-> {next}]) /\ place = IF Req(r).op \in InOrg THEN "home" ELSE "makeProject"
    BY <1>8 DEF MakeOrg
  <2>5. ~ (Req(r).op \in InProject /\ place = "home") BY <2>4 DEF InProject, InOrg
  <2>6. PICK S : S = {next} OBVIOUS
  <2>7. S \subseteq Ids("org")' /\ GoWith(r, place, [seen |-> S]) BY <2>3, <2>4, <2>6
  <2> QED BY <2>5, <2>7, HousingHeld
<1>9. CASE MakeProject(r)
  <2>1. Req(r).op \in InProject BY <1>9 DEF MakeProject, At
  <2>2. PICK org : Insert("project", [of |-> org]) BY <1>9 DEF MakeProject
  <2> DEFINE row == [of |-> org]
  <2>3. Insert("project", row) BY <2>2
  <2> HIDE DEF row
  <2>4. Grown("project", row) BY <2>3, <1>0, <1>4, InsertShape
  <2>5. {next} \subseteq Ids("project")' BY <2>4 DEF Grown
  <2>6. PICK S : S = {next} OBVIOUS
  <2>7. S \subseteq Ids("project")' /\ GoWith(r, "home", [seen |-> S]) BY <2>5, <2>6, <1>9 DEF MakeProject
  <2> QED BY <2>1, <2>7, HousingHeld
<1>10. CASE CreateAtHome(r) BY <1>10, <1>3 DEF CreateAtHome
<1>11. CASE ListFolders(r)
  <2>1. PICK S : GoWith(r, "ok", [seen |-> S]) BY <1>11 DEF ListFolders
  <2>2. DOMAIN [seen |-> S] \subseteq {"seen", "runs", "row", "tests", "batch"} OBVIOUS
  <2> QED BY <2>1, <2>2, <1>2, GoesLooseWith
<1> QED BY <1>6, <1>7, <1>8, <1>9, <1>10, <1>11 DEF Homes

(* The test that is made or edited. *)
LEMMA MakingHeld ==
    ASSUME RowsHang, NEW r \in Requests, Handle(r), Req(r).op \in {"createTest", "updateTest"},
           call'[r].at \in {"name", "validate", "version", "current"},
           call'[r].ids \in Seq(1 .. next' - 1),
           NEW t, call'[r].seen = {t}, t \in 1 .. next' - 1, NothingRemoved' => t \in Ids("test")'
    PROVE  Held(r)'
<1>1. Req(r)' = Req(r) BY Frame
<1>2. HeldKnown(r)' BY <1>1 DEF HeldKnown, InProject, InOrg, Fanning
<1>3. NothingRemoved' => HeldThere(r)' BY <1>1 DEF HeldThere, Fanning
<1> QED BY <1>2, <1>3 DEF Held

LEMMA EditsHeld ==
    ASSUME RowsHang, NEW r \in Requests, Handle(r), Edits(r), Req(r).op \in {"createTest", "updateTest"}
    PROVE  Held(r)'
<1>0. CatalogKnown /\ HeldKnown(r) /\ (NothingRemoved' => NothingRemoved) BY OrderStep DEF RowsHang
<1>1. ASSUME NEW place \in {"refused", "ok", "failed"} PROVE ~ Holding(Req(r).op, place)
  BY DEF Holding, InProject, InOrg, Fanning
<1>2. ASSUME NEW place \in {"refused", "ok", "failed"}, Go(r, place) PROVE Held(r)' BY <1>1, <1>2, GoesLoose
<1>3. "test" \in Tables /\ "testVersion" \in Tables BY TableNames
<1>4. Effect(r) /\ ~ Removal(r) BY HandleEffect DEF Removal, Removals
<1>5. 1 .. next - 1 \subseteq 1 .. next' - 1 /\ Ids("test") \subseteq Ids("test")' BY <1>4, EffectGrows
<1>6. ASSUME Making(r), NEW place \in {"validate", "version", "current"}, Go(r, place) PROVE Held(r)'
  <2>1. PICK t \in 1 .. next - 1 : call[r].seen = {t} BY <1>0, <1>6 DEF HeldKnown
  <2>2. NothingRemoved' => t \in Ids("test") BY <2>1, <1>0, <1>6 DEF RowsHang, ThereUntilRemoved, HeldThere
  <2>3. call'[r].at = place /\ call'[r].seen = {t} /\ call'[r].ids = call[r].ids BY <2>1, <1>0, <1>6, Kept
  <2>4. call'[r].ids \in Seq(1 .. next' - 1) BY <2>3, IdsStay
  <2> QED BY <2>1, <2>2, <2>3, <2>4, <1>5, MakingHeld
<1>7. CASE InsertTest(r)
  <2> DEFINE what == [seen |-> {next}]
  <2>1. DOMAIN what = {"seen"} /\ what.seen = {next} OBVIOUS
  <2>2. GoWith(r, "version", what) BY <1>7 DEF InsertTest
  <2> HIDE DEF what
  <2>3. PICK row : Insert("test", row) BY <1>7 DEF InsertTest
  <2>4. Grown("test", row) BY <2>3, <1>0, <1>3, InsertShape
  <2>5. next \in Ids("test")' BY <2>4 DEF Grown
  <2>6. next \in 1 .. next' - 1 BY <2>4, <1>0, FirstFreePositive DEF Grown
  <2>7. call'[r].at = "version" /\ call'[r].seen = {next} /\ call'[r].ids = call[r].ids BY <2>1, <2>2, <1>0, Carried
  <2>8. call'[r].ids \in Seq(1 .. next' - 1) BY <2>7, IdsStay
  <2>9. PICK t : t = next OBVIOUS
  <2>10. t \in 1 .. next' - 1 /\ t \in Ids("test")' /\ call'[r].seen = {t} BY <2>5, <2>6, <2>7, <2>9
  <2> QED BY <2>7, <2>8, <2>10, MakingHeld
<1>8. CASE FindTest(r)
  <2>1. CASE Req(r).id \in Ids("test")
    <3> DEFINE what == [seen |-> {Req(r).id}, row |-> db.test[Req(r).id]]
    <3>1. DOMAIN what = {"seen", "row"} /\ what.seen = {Req(r).id} OBVIOUS
    <3>2. GoWith(r, "name", what) BY <1>8, <2>1 DEF FindTest
    <3> HIDE DEF what
    <3>3. call'[r].at = "name" /\ call'[r].seen = {Req(r).id} /\ call'[r].ids = call[r].ids BY <3>1, <3>2, <1>0, Carried
    <3>4. call'[r].ids \in Seq(1 .. next' - 1) BY <3>3, IdsStay
    <3>5. Ids("test") \subseteq 1 .. next - 1 BY <1>0, <1>3 DEF CatalogKnown
    <3>6. PICK t : t = Req(r).id OBVIOUS
    <3>7. t \in 1 .. next' - 1 /\ t \in Ids("test")' /\ call'[r].seen = {t} BY <2>1, <3>3, <3>5, <3>6, <1>5
    <3> QED BY <3>3, <3>4, <3>7, MakingHeld
  <2>2. CASE Req(r).id \notin Ids("test") BY <1>8, <2>2, <1>2 DEF FindTest
  <2> QED BY <2>1, <2>2
<1>9. CASE RenameTest(r)
  <2>1. Making(r) BY <1>9 DEF RenameTest, At, Making
  <2>2. Go(r, "validate") \/ Go(r, "ok") BY <1>9 DEF RenameTest
  <2> QED BY <2>1, <2>2, <1>2, <1>6
<1>10. CASE ValidateEdit(r)
  <2>1. Making(r) BY <1>10 DEF ValidateEdit, At, Making
  <2>2. Go(r, "refused") \/ Go(r, "version") BY <1>10 DEF ValidateEdit
  <2> QED BY <2>1, <2>2, <1>2, <1>6
<1>11. CASE InsertVersion(r)
  <2>1. Making(r) BY <1>11 DEF InsertVersion, At, Making
  <2>2. PICK t \in 1 .. next - 1 : call[r].seen = {t} BY <1>0, <2>1 DEF HeldKnown
  <2> DEFINE row == [of |-> t, dsl |-> Req(r).dsl]
  <2>3. (Insert("testVersion", row) /\ GoWith(r, "current", [ids |-> << next >>])) \/ Go(r, "failed")
    BY <2>2, <1>11 DEF InsertVersion
  <2> HIDE DEF row
  <2>4. CASE Insert("testVersion", row) /\ GoWith(r, "current", [ids |-> << next >>])
    <3> DEFINE what == [ids |-> << next >>]
    <3>1. DOMAIN what = {"ids"} /\ what.ids = << next >> OBVIOUS
    <3>2. GoWith(r, "current", what) BY <2>4
    <3> HIDE DEF what
    <3>3. call'[r].at = "current" /\ call'[r].seen = {t} /\ call'[r].ids = << next >> BY <2>2, <3>1, <3>2, <1>0, Carried
    <3>4. Grown("testVersion", row) BY <2>4, <1>0, <1>3, InsertShape
    <3>5. next \in 1 .. next' - 1 BY <3>4, <1>0, FirstFreePositive DEF Grown
    <3>6. PICK n : n = next' OBVIOUS
    <3>7. << next >> \in Seq(1 .. n - 1) BY <3>5, <3>6
    <3>8. call'[r].ids \in Seq(1 .. next' - 1) BY <3>3, <3>6, <3>7
    <3>9. NothingRemoved' => t \in Ids("test") BY <2>1, <2>2, <1>0 DEF RowsHang, ThereUntilRemoved, HeldThere
    <3> QED BY <2>2, <3>3, <3>8, <3>9, <1>5, MakingHeld
  <2> QED BY <2>3, <2>4, <1>2
<1>12. CASE SetCurrent(r) BY <1>12, <1>2 DEF SetCurrent
<1> QED BY <1>7, <1>8, <1>9, <1>10, <1>11, <1>12 DEF Edits

(* The handlers of which nothing is said. *)
LEMMA OthersHeld ==
    ASSUME RowsHang, NEW r \in Requests, Handle(r),
           \/ RemoveTest(r) /\ Req(r).op = "removeTest"
           \/ RemoveFlow(r) /\ Req(r).op = "removeFlow"
           \/ RemoveRun(r) /\ Req(r).op = "removeRun"
           \/ Folders(r) /\ Req(r).op \in {"moveFolder", "removeFolder"}
    PROVE  Held(r)'
<1>1. \A place : ~ Holding(Req(r).op, place) BY DEF Holding, InProject, InOrg, Fanning
<1>2. ASSUME NEW place, Go(r, place) PROVE Held(r)' BY <1>1, <1>2, GoesLoose
<1>3. ASSUME NEW place, NEW x, GoWith(r, place, [seen |-> x]) PROVE Held(r)'
  <2>1. DOMAIN [seen |-> x] \subseteq {"seen", "runs", "row", "tests", "batch"} OBVIOUS
  <2> QED BY <2>1, <1>1, <1>3, GoesLooseWith
<1>4. ASSUME NEW place, NEW x, GoWith(r, place, [runs |-> x]) PROVE Held(r)'
  <2>1. DOMAIN [runs |-> x] \subseteq {"seen", "runs", "row", "tests", "batch"} OBVIOUS
  <2> QED BY <2>1, <1>1, <1>4, GoesLooseWith
<1>5. ASSUME NEW parts, RemovePart(r, parts) PROVE Held(r)'
  <2>1. \E place : Go(r, place) BY <1>5 DEF RemovePart
  <2> QED BY <2>1, <1>2
<1>6. CASE RemoveTest(r)
  <2>1. CASE ReadVersions(r) BY <2>1, <1>3 DEF ReadVersions
  <2>2. CASE ReadRuns(r) BY <2>2, <1>4 DEF ReadRuns
  <2>3. CASE ClearCurrent(r) BY <2>3, <1>2 DEF ClearCurrent
  <2> QED BY <1>6, <2>1, <2>2, <2>3, <1>5 DEF RemoveTest
<1>7. CASE RemoveFlow(r)
  <2>1. CASE ReadCaptures(r) BY <2>1, <1>3 DEF ReadCaptures
  <2> QED BY <1>7, <2>1, <1>5 DEF RemoveFlow
<1>8. CASE RemoveRun(r) BY <1>8, <1>5 DEF RemoveRun
<1>9. CASE Folders(r)
  <2>1. CASE FindFolder(r) BY <2>1, <1>2, <1>3 DEF FindFolder
  <2>2. CASE ~ FindFolder(r)
    <3>1. \E place : Go(r, place) BY <1>9, <2>2 DEF Folders, CheckMove, PlaceFolder, LiftFolders, LiftTests, DeleteFolder
    <3> QED BY <3>1, <1>2
  <2> QED BY <2>1, <2>2
<1> QED BY <1>6, <1>7, <1>8, <1>9

LEMMA SmallHeld ==
    ASSUME RowsHang, NEW r \in Requests, Handle(r), Small(r),
           Req(r).op \in DOMAIN Patched \cup DOMAIN Dropped \cup {"createSchedule", "createApiKey", "createAlert"}
    PROVE  Held(r)'
<1>0. CatalogKnown /\ RowsKnown BY DEF RowsHang
<1>1. \A place : place # "alert" => ~ Holding(Req(r).op, place)
  BY DEF Holding, InProject, InOrg, Fanning, Patched, Dropped
<1>2. ASSUME NEW place, place # "alert", Go(r, place) PROVE Held(r)' BY <1>1, <1>2, GoesLoose
<1>3. CASE FindAlertTest(r) /\ Req(r).id \in Ids("test")
  <2>1. Req(r).op = "createAlert" /\ Read BY <1>3 DEF FindAlertTest, At
  <2> DEFINE what == [seen |-> {db.test[Req(r).id].of}]
  <2>2. DOMAIN what = {"seen"} /\ what.seen = {db.test[Req(r).id].of} OBVIOUS
  <2>3. GoWith(r, "alert", what) BY <1>3 DEF FindAlertTest
  <2> HIDE DEF what
  <2>4. call'[r].at = "alert" /\ call'[r].seen = {db.test[Req(r).id].of} /\ call'[r].ids = call[r].ids
    BY <2>2, <2>3, <1>0, Carried
  <2>5. call'[r].ids \in Seq(1 .. next' - 1) BY <2>4, IdsStay
  <2>6. "test" \in Housed /\ References["test"] = "project" BY KeyNames DEF References
  <2>7. db.test[Req(r).id].of \in Ids("project") BY <2>6, <1>0, <1>3 DEF RowsKnown
  <2>8. call'[r].seen \subseteq Ids("project")' BY <2>1, <2>4, <2>7 DEF Read, Ids
  <2>9. Req(r)' = Req(r) BY Frame
  <2>10. HeldKnown(r)' BY <2>1, <2>4, <2>5, <2>8, <2>9 DEF HeldKnown, Making, InProject, InOrg, Fanning
  <2>11. HeldThere(r)' BY <2>1, <2>9 DEF HeldThere, Making, Fanning
  <2> QED BY <2>10, <2>11 DEF Held
<1>4. CASE ~ (FindAlertTest(r) /\ Req(r).id \in Ids("test"))
  <2>1. \E place : place # "alert" /\ Go(r, place)
    BY <1>4 DEF Small, PatchRow, Refuse, DropRow, CreateSchedule, CreateApiKey, FindAlertTest, InsertAlert
  <2> QED BY <2>1, <1>2
<1> QED BY <1>3, <1>4

(* The runs that are queued, and the version they are of. *)
LEMMA FanHeld ==
    ASSUME RowsHang, NEW r \in Requests, Handle(r), Req(r).op \in Fanning \cup {"retry"},
           call'[r].at \in {"insert", "add"}, call'[r].ids \in Seq(1 .. next' - 1),
           IsFiniteSet(call'[r].seen), call'[r].seen \subseteq 1 .. next' - 1,
           call'[r].row.version \in 1 .. next' - 1,
           call'[r].at = "add" => \E i \in call'[r].seen : \A j \in call'[r].seen : j <= i,
           Req(r).op = "retry" /\ call'[r].at = "insert" => call'[r].batch # << >>,
           NothingRemoved' => call'[r].row.version \in Ids("testVersion")'
    PROVE  Held(r)'
<1>1. Req(r)' = Req(r) BY Frame
<1>2. HeldKnown(r)' BY <1>1 DEF HeldKnown, Making, InProject, InOrg, Fanning
<1>3. NothingRemoved' => HeldThere(r)' BY <1>1 DEF HeldThere, Making, Fanning
<1> QED BY <1>2, <1>3 DEF Held

LEMMA FansLoose ==
    ASSUME NEW r \in Requests, Req(r).op \in Fanning \cup {"retry"}, NEW place,
           place \in {"ok", "failed", "refused"} \/ (place = "test" /\ Req(r).op \in Fanning)
    PROVE  ~ Holding(Req(r).op, place)
BY DEF Holding, InProject, InOrg, Fanning

LEMMA SkipHeld ==
    ASSUME RowsHang, NEW r \in Requests, Handle(r), Req(r).op \in Fanning, NEW rest, Skip(r, rest)
    PROVE  Held(r)'
<1>1. Go(r, "failed") \/ GoWith(r, "test", [tests |-> rest]) BY DEF Skip
<1>2. DOMAIN [tests |-> rest] \subseteq {"seen", "runs", "row", "tests", "batch"} OBVIOUS
<1> QED BY <1>1, <1>2, FansLoose, GoesLoose, GoesLooseWith

LEMMA ReadTestHeld ==
    ASSUME RowsHang, NEW r \in Requests, Handle(r), ReadTest(r)
    PROVE  Held(r)'
<1>0. CatalogKnown /\ RowsKnown /\ CurrentKnown /\ (NothingRemoved' => NothingRemoved) BY OrderStep DEF RowsHang
<1>1. Req(r).op \in Fanning BY DEF ReadTest, At
<1>2. Read BY DEF ReadTest
<1> DEFINE left == Left(r)
           test == db.test[Head(left)]
           what == [tests |-> left, seen |-> {}, row |-> Shared(test, Req(r).flow), batch |-> Batch(test)]
<1>3. \/ Go(r, "ok")
      \/ \E rest : Skip(r, rest)
      \/ Head(left) \in Ids("test") /\ test.current # 0 /\ GoWith(r, "insert", what)
  BY DEF ReadTest
<1>4. CASE Go(r, "ok") BY <1>1, <1>4, FansLoose, GoesLoose
<1>5. CASE \E rest : Skip(r, rest) BY <1>1, <1>5, SkipHeld
<1>6. CASE Head(left) \in Ids("test") /\ test.current # 0 /\ GoWith(r, "insert", what)
  <2>1. DOMAIN what = {"tests", "seen", "row", "batch"} /\ what.seen = {} /\ what.row.version = test.current
    BY DEF Shared
  <2>2. PICK t : t = Head(left) OBVIOUS
  <2>3. t \in Ids("test") /\ test = db.test[t] /\ test.current # 0 BY <1>6, <2>2
  <2> HIDE DEF left, what
  <2>4. call'[r].at = "insert" /\ call'[r].ids = call[r].ids /\ call'[r].seen = {} /\ call'[r].row.version = test.current
    BY <1>6, <2>1, <1>0, Carried
  <2>5. test.current \in 0 .. next - 1 BY <2>3, <1>0 DEF RowsKnown
  <2>6. test.current \in 1 .. next - 1 BY <2>3, <2>5
  <2>7. next' = next /\ db' = db BY <1>2 DEF Read
  <2>8. NothingRemoved => test.current \in Ids("testVersion")
    <3>1. NothingRemoved => \A s \in Requests : ~ Removing(s, t) BY DEF NothingRemoved, Removing, Removal, Removals
    <3>2. NothingRemoved => ~ Disturbed(t) BY <3>1 DEF Disturbed
    <3>3. OwnVersion(t, test.current) => test.current \in Ids("testVersion") BY DEF OwnVersion
    <3>4. \/ OwnVersion(t, test.current) \/ test.current = 0 \/ Disturbed(t) BY <2>3, <1>0 DEF CurrentKnown
    <3> QED BY <3>2, <3>3, <3>4, <2>3
  <2>9. call'[r].ids \in Seq(1 .. next' - 1) BY <2>4, IdsStay
  <2>10. IsFiniteSet({}) BY FS_EmptySet
  <2>11. NothingRemoved' => call'[r].row.version \in Ids("testVersion")' BY <2>4, <2>7, <2>8, <1>0 DEF Ids
  <2>12. call'[r].row.version \in 1 .. next' - 1 BY <2>4, <2>6, <2>7
  <2>13. Req(r).op # "retry" BY <1>1 DEF Fanning
  <2>14. IsFiniteSet(call'[r].seen) /\ call'[r].seen \subseteq 1 .. next' - 1 BY <2>4, <2>10
  <2> QED BY <1>1, <2>4, <2>9, <2>11, <2>12, <2>13, <2>14, FanHeld
<1> QED BY <1>3, <1>4, <1>5, <1>6

LEMMA InsertRunHeld ==
    ASSUME RowsHang, NEW r \in Requests, Handle(r), InsertRun(r)
    PROVE  Held(r)'
<1>0. CatalogKnown /\ HeldKnown(r) /\ (NothingRemoved' => NothingRemoved) BY OrderStep DEF RowsHang
<1>1. Req(r).op \in Fanning \cup {"retry"} /\ call[r].at = "insert" BY DEF InsertRun, At
<1>2. IsFiniteSet(call[r].seen) /\ call[r].seen \subseteq 1 .. next - 1 /\ call[r].row.version \in 1 .. next - 1
      /\ (Req(r).op = "retry" => call[r].batch # << >>) /\ call[r].ids \in Seq(1 .. next - 1)
  BY <1>0, <1>1 DEF HeldKnown
<1>3. next \in Nat /\ 1 <= next BY <1>0, FirstFreePositive
<1>4. CASE call[r].batch = << >>
  <2> DEFINE what == [tests |-> Tail(call[r].tests), ids |-> call[r].ids \o SetToSeq(call[r].seen)]
  <2>1. what.ids = call[r].ids \o SetToSeq(call[r].seen) OBVIOUS
  <2>10. DOMAIN what = {"tests", "ids"} OBVIOUS
  <2>2. GoWith(r, "test", what) /\ Read BY <1>4 DEF InsertRun
  <2> HIDE DEF what
  <2>9. call'[r].at = "test" /\ call'[r].ids = what.ids
    <3>1. DOMAIN what \subseteq {"seen", "runs", "row", "tests", "batch", "ids"} /\ "ids" \in DOMAIN what BY <2>10
    <3> QED BY <3>1, <2>2, <1>0, Carried
  <2>3. call'[r].at = "test" /\ call'[r].ids = call[r].ids \o SetToSeq(call[r].seen) BY <2>1, <2>9
  <2>4. SetToSeq(call[r].seen) \in Seq(1 .. next - 1)
    <3>1. PICK q : q = SetToSeq(call[r].seen) OBVIOUS
    <3>2. q \in Seq(call[r].seen) BY <3>1, <1>2, SeqOfSet
    <3>3. q \in Seq(1 .. next - 1) BY <3>2, <1>2, SeqWider
    <3> QED BY <3>1, <3>3
  <2>5. call[r].ids \o SetToSeq(call[r].seen) \in Seq(1 .. next - 1) BY <2>4, <1>2
  <2>6. next' = next BY <2>2 DEF Read
  <2>7. call'[r].ids \in Seq(1 .. next' - 1) BY <2>3, <2>5, <2>6
  <2>8. ~ Holding(Req(r).op, "test") BY <1>1, <1>2, <1>4, FansLoose
  <2> QED BY <2>3, <2>7, <2>8, Loose
<1>5. CASE call[r].batch # << >>
  <2> DEFINE row == [of |-> call[r].row.version, status |-> "queued", browser |-> Head(call[r].batch).browser]
             what == [seen |-> call[r].seen \cup {next}]
  <2>1. \/ Insert("run", row) /\ GoWith(r, "add", what)
        \/ IF Req(r).op = "retry" THEN Go(r, "failed") ELSE Skip(r, Tail(call[r].tests))
    BY <1>5 DEF InsertRun
  <2>2. DOMAIN what = {"seen"} /\ what.seen = call[r].seen \cup {next} OBVIOUS
  <2> HIDE DEF row, what
  <2>3. CASE Insert("run", row) /\ GoWith(r, "add", what)
    <3>1. "run" \in Tables /\ "testVersion" \in Tables BY TableNames
    <3>2. Grown("run", row) BY <2>3, <3>1, <1>0, InsertShape
    <3>3. next' = next + 1 /\ db'.testVersion = db.testVersion BY <3>1, <3>2 DEF Grown
    <3>4. call'[r].at = "add" /\ call'[r].ids = call[r].ids /\ call'[r].seen = call[r].seen \cup {next}
          /\ call'[r].row = call[r].row
      BY <2>2, <2>3, <1>0, Carried
    <3>5. call'[r].ids \in Seq(1 .. next' - 1) BY <3>4, IdsStay
    <3>6. IsFiniteSet(call[r].seen \cup {next}) BY <1>2, FS_AddElement
    <3>7. call[r].seen \cup {next} \subseteq 1 .. (next + 1) - 1 BY <1>2, <1>3
    <3>8. \A j \in call[r].seen \cup {next} : j <= next BY <1>2, <1>3
    <3>9. IsFiniteSet(call'[r].seen) /\ call'[r].seen \subseteq 1 .. next' - 1
          /\ \E i \in call'[r].seen : \A j \in call'[r].seen : j <= i
      BY <3>3, <3>4, <3>6, <3>7, <3>8
    <3>10. call[r].row.version \in 1 .. (next + 1) - 1 BY <1>2, <1>3
    <3>11. call'[r].row.version \in 1 .. next' - 1 BY <3>3, <3>4, <3>10
    <3>12. NothingRemoved' => call[r].row.version \in Ids("testVersion")
      BY <1>0, <1>1 DEF RowsHang, ThereUntilRemoved, HeldThere
    <3>13. NothingRemoved' => call'[r].row.version \in Ids("testVersion")' BY <3>3, <3>4, <3>12 DEF Ids
    <3>14. call'[r].at # "insert" BY <3>4
    <3> QED BY <1>1, <3>4, <3>5, <3>9, <3>11, <3>13, <3>14, FanHeld
  <2>4. CASE IF Req(r).op = "retry" THEN Go(r, "failed") ELSE Skip(r, Tail(call[r].tests))
    <3>1. CASE Req(r).op = "retry" BY <2>4, <3>1, <1>1, FansLoose, GoesLoose
    <3>2. CASE Req(r).op # "retry" BY <2>4, <3>2, <1>1, SkipHeld
    <3> QED BY <3>1, <3>2
  <2> QED BY <2>1, <2>3, <2>4
<1> QED BY <1>4, <1>5

(* A job is added for the run that was inserted last. *)
LEMMA AddJobHeld ==
    ASSUME RowsHang, NEW r \in Requests, Handle(r), AddJob(r)
    PROVE  /\ Held(r)'
           /\ \A j \in jobs' : j \in jobs \/ j.run \in 1 .. next - 1
<1>0. CatalogKnown /\ HeldKnown(r) /\ (NothingRemoved' => NothingRemoved) BY OrderStep DEF RowsHang
<1>1. Req(r).op \in Fanning \cup {"retry"} /\ call[r].at = "add" BY DEF AddJob, At
<1>2. IsFiniteSet(call[r].seen) /\ call[r].seen \subseteq 1 .. next - 1 /\ call[r].row.version \in 1 .. next - 1
      /\ \E i \in call[r].seen : \A j \in call[r].seen : j <= i
  BY <1>0, <1>1 DEF HeldKnown
<1>3. next' = next /\ db' = db BY DEF AddJob
<1> DEFINE what == [batch |-> Tail(call[r].batch)]
           job == [run |-> Newest(call[r].seen)] ++ call[r].row ++ Head(call[r].batch)
<1>4. DOMAIN what = {"batch"} OBVIOUS
<1>5. GoWith(r, IF Req(r).op = "retry" THEN "ok" ELSE "insert", what) BY DEF AddJob
<1>6. jobs' = jobs \cup {job} BY DEF AddJob
<1>7. job.run = Newest(call[r].seen) BY DEF ++
<1> HIDE DEF what, job
<1>8. Newest(call[r].seen) \in call[r].seen BY <1>2 DEF Newest
<1>9. \A j \in jobs' : j \in jobs \/ j.run \in 1 .. next - 1 BY <1>2, <1>6, <1>7, <1>8
<1>10. CASE Req(r).op = "retry" BY <1>1, <1>4, <1>5, <1>9, <1>10, FansLoose, GoesLooseWith
<1>11. CASE Req(r).op # "retry"
  <2>1. call'[r].at = "insert" /\ call'[r].ids = call[r].ids /\ call'[r].seen = call[r].seen /\ call'[r].row = call[r].row
    BY <1>0, <1>4, <1>5, <1>11, Carried
  <2>2. call'[r].ids \in Seq(1 .. next' - 1) BY <2>1, IdsStay
  <2>3. NothingRemoved' => call[r].row.version \in Ids("testVersion")
    BY <1>0, <1>1 DEF RowsHang, ThereUntilRemoved, HeldThere
  <2>4. NothingRemoved' => call'[r].row.version \in Ids("testVersion")' BY <2>1, <2>3, <1>3 DEF Ids
  <2>5. call'[r].seen \subseteq 1 .. next' - 1 /\ call'[r].row.version \in 1 .. next' - 1 BY <2>1, <1>2, <1>3
  <2>6. IsFiniteSet(call'[r].seen) BY <2>1, <1>2
  <2>7. call'[r].at # "add" BY <2>1
  <2> QED BY <2>1, <2>2, <2>4, <2>5, <2>6, <2>7, <1>1, <1>9, <1>11, FanHeld
<1> QED BY <1>10, <1>11

LEMMA RetryHeld ==
    ASSUME RowsHang, NEW r \in Requests, Handle(r), RetryReads(r)
    PROVE  Held(r)'
<1>0. CatalogKnown /\ RowsKnown /\ HeldKnown(r) /\ (NothingRemoved' => NothingRemoved) BY OrderStep DEF RowsHang
<1>1. Req(r).op = "retry" /\ Read BY DEF RetryReads, At
<1>2. db' = db /\ next' = next /\ Req(r)' = Req(r) BY <1>1, Frame DEF Read
<1>3. call[r].at \in {"start", "version", "test"} BY DEF RetryReads, At
<1>4. call[r].seen = {} BY <1>0, <1>1, <1>3 DEF HeldKnown
<1>5. "testVersion" \in Tables /\ "run" \in Tables BY TableNames
<1>6. CASE Go(r, "refused") BY <1>1, <1>6, FansLoose, GoesLoose
<1>7. ASSUME call[r].at = "start", Req(r).id \in Ids("run"),
             GoWith(r, "version", [row |-> << db.run[Req(r).id].of, db.run[Req(r).id].browser >>])
      PROVE  Held(r)'
  <2> DEFINE what == [row |-> << db.run[Req(r).id].of, db.run[Req(r).id].browser >>]
  <2>1. DOMAIN what = {"row"} OBVIOUS
  <2>2. GoWith(r, "version", what) BY <1>7
  <2> HIDE DEF what
  <2>3. call'[r].at = "version" /\ call'[r].ids = call[r].ids /\ call'[r].seen = {} BY <2>1, <2>2, <1>0, <1>4, Carried
  <2>4. call'[r].ids \in Seq(1 .. next' - 1) BY <2>3, IdsStay
  <2>5. HeldKnown(r)' BY <1>1, <1>2, <2>3, <2>4 DEF HeldKnown, Making, InProject, InOrg, Fanning
  <2>6. HeldThere(r)' BY <1>1, <1>2, <2>3 DEF HeldThere, Making, Fanning
  <2> QED BY <2>5, <2>6 DEF Held
<1>8. ASSUME NEW x, call[r].row[1] \in Ids("testVersion"), GoWith(r, "test", [tests |-> x])
      PROVE  Held(r)'
  <2> DEFINE what == [tests |-> x]
  <2>1. DOMAIN what = {"tests"} OBVIOUS
  <2>2. GoWith(r, "test", what) BY <1>8
  <2> HIDE DEF what
  <2>3. call'[r].at = "test" /\ call'[r].ids = call[r].ids /\ call'[r].seen = {} /\ call'[r].row = call[r].row
    BY <2>1, <2>2, <1>0, <1>4, Carried
  <2>4. call'[r].ids \in Seq(1 .. next' - 1) BY <2>3, IdsStay
  <2>5. call[r].row[1] \in 1 .. next - 1 BY <1>0, <1>5, <1>8 DEF CatalogKnown
  <2>6. call'[r].row[1] \in 1 .. next' - 1 /\ call'[r].row[1] \in Ids("testVersion")' BY <2>3, <2>5, <1>2, <1>8 DEF Ids
  <2>7. HeldKnown(r)' BY <1>1, <1>2, <2>3, <2>4, <2>6 DEF HeldKnown, Making, InProject, InOrg, Fanning
  <2>8. HeldThere(r)' BY <1>1, <1>2, <2>3, <2>6 DEF HeldThere, Making, Fanning
  <2> QED BY <2>7, <2>8 DEF Held
<1>9. ASSUME NEW flow, NEW browser, call[r].at = "test",
             GoWith(r, "insert", [row |-> [version |-> call[r].row[1], flow |-> flow],
                                  batch |-> << [row |-> << >>, browser |-> browser] >>])
      PROVE  Held(r)'
  <2> DEFINE what == [row |-> [version |-> call[r].row[1], flow |-> flow],
                      batch |-> << [row |-> << >>, browser |-> browser] >>]
  <2>1. DOMAIN what = {"row", "batch"} /\ what.row.version = call[r].row[1] OBVIOUS
  <2>10. what.batch # << >> OBVIOUS
  <2>2. GoWith(r, "insert", what) BY <1>9
  <2> HIDE DEF what
  <2>11. DOMAIN what \subseteq {"seen", "runs", "row", "tests", "batch", "ids"} /\ "row" \in DOMAIN what
         /\ "batch" \in DOMAIN what /\ "seen" \notin DOMAIN what /\ "ids" \notin DOMAIN what
    BY <2>1
  <2>12. call'[r].at = "insert" /\ call'[r].ids = call[r].ids /\ call'[r].seen = call[r].seen
         /\ call'[r].row = what.row /\ call'[r].batch = what.batch
    BY <2>2, <2>11, <1>0, Carried
  <2>3. call'[r].at = "insert" /\ call'[r].ids = call[r].ids /\ call'[r].seen = {}
        /\ call'[r].row.version = call[r].row[1] /\ call'[r].batch # << >>
    BY <2>1, <2>10, <2>12, <1>4
  <2>4. call'[r].ids \in Seq(1 .. next' - 1) BY <2>3, IdsStay
  <2>5. call[r].row[1] \in 1 .. next - 1 BY <1>0, <1>1, <1>9 DEF HeldKnown
  <2>6. NothingRemoved' => call[r].row[1] \in Ids("testVersion")
    BY <1>0, <1>1, <1>9 DEF RowsHang, ThereUntilRemoved, HeldThere
  <2>7. NothingRemoved' => call'[r].row.version \in Ids("testVersion")' BY <2>3, <2>6, <1>2 DEF Ids
  <2>8. call'[r].row.version \in 1 .. next' - 1 /\ call'[r].seen \subseteq 1 .. next' - 1 BY <2>3, <2>5, <1>2
  <2>9. IsFiniteSet(call'[r].seen) BY <2>3, FS_EmptySet
  <2>13. call'[r].at # "add" BY <2>3
  <2> QED BY <2>3, <2>4, <2>7, <2>8, <2>9, <2>13, <1>1, FanHeld
<1> DEFINE run == db.run[Req(r).id]
           flow == IF call[r].tests[1] \in Ids("test") THEN db.test[call[r].tests[1]].settings.flow ELSE 0
           old == call[r].row[2]
<1>10. \/ Go(r, "refused")
       \/ call[r].at = "start" /\ Req(r).id \in Ids("run") /\ GoWith(r, "version", [row |-> << run.of, run.browser >>])
       \/ call[r].row[1] \in Ids("testVersion") /\ GoWith(r, "test", [tests |-> << db.testVersion[call[r].row[1]].of >>])
       \/ call[r].at = "test"
          /\ GoWith(r, "insert", [row |-> [version |-> call[r].row[1], flow |-> flow],
                                  batch |-> << [row |-> << >>, browser |-> IF old \in Disabled THEN "chromium" ELSE old] >>])
  BY DEF RetryReads, At
<1>11. CASE call[r].at = "start" /\ Req(r).id \in Ids("run") /\ GoWith(r, "version", [row |-> << run.of, run.browser >>])
  BY <1>11, <1>7
<1>12. CASE call[r].row[1] \in Ids("testVersion") /\ GoWith(r, "test", [tests |-> << db.testVersion[call[r].row[1]].of >>])
  BY <1>12, <1>8
<1>13. CASE call[r].at = "test"
            /\ GoWith(r, "insert", [row |-> [version |-> call[r].row[1], flow |-> flow],
                                  batch |-> << [row |-> << >>, browser |-> IF old \in Disabled THEN "chromium" ELSE old] >>])
  BY <1>13, <1>9
<1> HIDE DEF run, flow, old
<1> QED BY <1>6, <1>10, <1>11, <1>12, <1>13

LEMMA OtherRunsHeld ==
    ASSUME RowsHang, NEW r \in Requests, Handle(r), ListTests(r) \/ Execute(r)
    PROVE  Held(r)'
<1>1. Req(r).op \in {"listTests", "execute"} BY DEF ListTests, Execute, At
<1>2. \A place : ~ Holding(Req(r).op, place) BY <1>1 DEF Holding, InProject, InOrg, Fanning
<1>3. CASE Execute(r)
  <2>1. \E place : Go(r, place) BY <1>3 DEF Execute
  <2> QED BY <2>1, <1>2, GoesLoose
<1>4. CASE ListTests(r)
  <2>1. (\E x : GoWith(r, "versions", [seen |-> x])) \/ (\E x : GoWith(r, "runs", [row |-> x]))
        \/ (\E x : GoWith(r, "ok", [row |-> x]))
    BY <1>4 DEF ListTests
  <2>2. \A x : DOMAIN [seen |-> x] \subseteq {"seen", "runs", "row", "tests", "batch"} OBVIOUS
  <2>3. \A x : DOMAIN [row |-> x] \subseteq {"seen", "runs", "row", "tests", "batch"} OBVIOUS
  <2>4. CASE \E x : GoWith(r, "versions", [seen |-> x]) BY <2>2, <2>4, <1>2, GoesLooseWith
  <2>5. CASE \E x : GoWith(r, "runs", [row |-> x]) BY <2>3, <2>5, <1>2, GoesLooseWith
  <2>6. CASE \E x : GoWith(r, "ok", [row |-> x]) BY <2>3, <2>6, <1>2, GoesLooseWith
  <2> QED BY <2>1, <2>4, <2>5, <2>6
<1> QED BY <1>3, <1>4

LEMMA FailsHeld ==
    ASSUME RowsHang, NEW r \in Requests, Handle(r), Fails(r)
    PROVE  Held(r)'
<1>0. CatalogKnown BY DEF RowsHang
<1>1. Go(r, "failed") \/ (Req(r).op \in Fanning /\ GoWith(r, "test", [tests |-> Tail(Left(r))]))
  BY <1>0, FailsGoes
<1>2. ~ Holding(Req(r).op, "failed") BY DEF Holding
<1>3. CASE Req(r).op \in Fanning /\ GoWith(r, "test", [tests |-> Tail(Left(r))])
  <2>1. DOMAIN [tests |-> Tail(Left(r))] \subseteq {"seen", "runs", "row", "tests", "batch"} OBVIOUS
  <2> QED BY <2>1, <1>3, FansLoose, GoesLooseWith
<1> QED BY <1>1, <1>2, <1>3, GoesLoose

LEMMA HeldStep ==
    ASSUME RowsHang, NEW r \in Requests, Handle(r)
    PROVE  Held(r)'
<1>1. CASE Runs(r) BY <1>1, ReadTestHeld, InsertRunHeld, AddJobHeld, RetryHeld, OtherRunsHeld DEF Runs
<1> QED BY <1>1, HandlerOf, HomesHeld, EditsHeld, OthersHeld, SmallHeld, FailsHeld

(* Only AddJob adds a job. *)
LEMMA JobsGo ==
    ASSUME NEW r \in Requests, Handle(r)
    PROVE  AddJob(r) \/ jobs' = jobs
<1>0. CreateAtHome(r) => jobs' = jobs
  <2>1. CreateAtHome(r) => Req(r).op \in {"createSecret", "createFolder", "createAction", "createFlow"}
    BY DEF CreateAtHome, At, InProject, InOrg
  <2>2. CreateAtHome(r) => \E home \in call[r].seen :
        CASE Req(r).op = "createFolder" ->
              Insert("folder", [of |-> home, name |-> Req(r).name, parent |-> Req(r).parent, collapsed |-> FALSE])
        [] Req(r).op = "createAction" -> Insert("action", [of |-> home, name |-> Req(r).name, dsl |-> Req(r).dsl])
        [] Req(r).op = "createFlow" ->
              Insert("loginFlow", [of |-> home, name |-> Req(r).name, dsl |-> Req(r).dsl, session |-> FALSE])
        [] Req(r).op = "createSecret" -> Insert("secret", [of |-> home, value |-> Stored(r)])
    BY DEF CreateAtHome
  <2> QED BY <2>1, <2>2 DEF Insert
<1>1. Homes(r) => jobs' = jobs
  BY <1>0 DEF Homes, FindProject, FindOrg, MakeOrg, MakeProject, ListFolders, Refuse, Read, Insert
<1>2. Edits(r) => jobs' = jobs
  BY DEF Edits, InsertTest, FindTest, RenameTest, ValidateEdit, InsertVersion, SetCurrent, Read, Insert, Update
<1>3. RemoveTest(r) \/ RemoveFlow(r) \/ RemoveRun(r) => jobs' = jobs
  BY DEF RemoveTest, ReadVersions, ReadRuns, ClearCurrent, RemovePart, RemoveFlow, ReadCaptures, RemoveRun, Read, Delete, Update
<1>4. Small(r) => jobs' = jobs
  BY DEF Small, PatchRow, Refuse, DropRow, CreateSchedule, CreateApiKey, FindAlertTest, InsertAlert, Read, Insert, Delete, Update
<1>5. Folders(r) => jobs' = jobs
  BY DEF Folders, CheckMove, PlaceFolder, FindFolder, LiftFolders, LiftTests, DeleteFolder, Read, Delete, Update
<1>6. Runs(r) => AddJob(r) \/ jobs' = jobs
  BY DEF Runs, ReadTest, InsertRun, RetryReads, ListTests, Execute, Read, Insert, Update
<1>7. Fails(r) => jobs' = jobs BY DEF Fails, Read
<1> QED BY <1>1, <1>2, <1>3, <1>4, <1>5, <1>6, <1>7 DEF Handle

(* A job is for a run that was inserted. *)
LEMMA JobsStep ==
    ASSUME RowsHang, NEW r \in Requests, Handle(r)
    PROVE  \A j \in jobs' : j.run \in 1 .. next' - 1
<1>1. 1 .. next - 1 \subseteq 1 .. next' - 1 BY HandleEffect, EffectGrows
<1>2. \A j \in jobs : j.run \in 1 .. next - 1 BY DEF RowsHang
<1>3. CASE AddJob(r)
  <2>1. \A j \in jobs' : j \in jobs \/ j.run \in 1 .. next - 1 BY <1>3, AddJobHeld
  <2> QED BY <2>1, <1>1, <1>2
<1>4. CASE jobs' = jobs BY <1>1, <1>2, <1>4
<1>5. AddJob(r) \/ jobs' = jobs BY JobsGo
<1> QED BY <1>3, <1>4, <1>5

(* Until a removal begins, nothing goes. *)
LEMMA ThereStep ==
    ASSUME RowsHang, NEW r \in Requests, Handle(r)
    PROVE  ThereUntilRemoved'
<1> SUFFICES ASSUME NothingRemoved'
             PROVE  /\ \A s \in Requests : HeldThere(s)'
                    /\ \A t \in {"test", "testVersion", "run"} : DOMAIN work.db[t] \subseteq Ids(t)'
  BY Frame DEF ThereUntilRemoved
<1>0. NothingRemoved BY OrderStep
<1>1. (\A s \in Requests : HeldThere(s)) /\ \A t \in {"test", "testVersion", "run"} : DOMAIN work.db[t] \subseteq Ids(t)
  BY <1>0 DEF RowsHang, ThereUntilRemoved
<1>2. ~ Removal(r)
  <2>1. Begun(r)' /\ Requests' = Requests /\ Req(r)' = Req(r) BY Frame DEF Begun
  <2> QED BY <2>1 DEF NothingRemoved, Removal
<1>3. \A t \in {"test", "testVersion", "run"} : Ids(t) \subseteq Ids(t)' BY <1>2, HandleEffect, EffectGrows
<1>4. HeldThere(r)' BY HeldStep DEF Held
<1>5. ASSUME NEW s \in Requests \ {r} PROVE HeldThere(s)'
  <2>1. call'[s] = call[s] /\ Req(s)' = Req(s) BY Frame
  <2>2. HeldThere(s) BY <1>1
  <2> QED BY <2>1, <2>2, <1>3 DEF HeldThere, Making
<1> QED BY <1>1, <1>3, <1>4, <1>5

-----------------------------------------------------------------------------
(* The rows that belong to given ones, after a statement. *)
Of(rows, A) == {i \in DOMAIN rows : rows[i].of \in A}

LEMMA OfShrunk ==
    ASSUME NEW t, NEW A, Shrunk(t, Select(t, "of", A))
    PROVE  Of(db'[t], A) = {}
BY DEF Shrunk, Select, Of, Ids

LEMMA OfFewer ==
    ASSUME NEW rows, NEW A, NEW B, A \subseteq B, Of(rows, B) = {}
    PROVE  Of(rows, A) = {}
BY DEF Of

(* What a removal has read and deleted, where it has got to. *)
LEMMA RemovalGetsTo ==
    ASSUME RowsHang, NEW r \in Requests, Handle(r), Removal(r),
           LET at == call'[r].at
               seen == call'[r].seen
               own(t) == Of(db'[t], {Req(r).id})
           IN
           /\ Req(r).op = "removeTest" =>
                 /\ at \in {"readRuns", "steps", "runs"} => seen = own("testVersion")
                 /\ at = "steps" => call'[r].runs = Of(db'.run, seen)
                 /\ at = "runs" => Of(db'.stepResult, Of(db'.run, seen)) = {}
                 /\ at \in {"baselines", "schedules", "clear", "versions", "row"} => Of(db'.run, own("testVersion")) = {}
                 /\ at \in {"schedules", "clear", "versions", "row"} => own("baseline") = {}
                 /\ at \in {"clear", "versions", "row"} => own("schedule") = {}
                 /\ at = "row" => own("testVersion") = {}
           /\ Req(r).op = "removeFlow" =>
                 /\ at = "captureSteps" => seen = own("captureRun")
                 /\ at = "captureRuns" => Of(db'.captureStep, own("captureRun")) = {}
                 /\ at = "flow" => own("captureRun") = {}
           /\ Req(r).op = "removeRun" /\ at = "run" => own("stepResult") = {}
    PROVE  RemovalKnown(r)'
<1>1. Req(r)' = Req(r) BY Frame
<1> QED BY <1>1 DEF RemovalKnown, TestVersions, Select, Ids, Of

LEMMA RemovalSees ==
    ASSUME RowsHang, NEW r \in Requests, Removal(r), Solo(r), Begun(r), ~ Answered(r)
    PROVE  LET at == call[r].at
               seen == call[r].seen
               own(t) == Of(db[t], {Req(r).id})
           IN
           /\ Req(r).op = "removeTest" =>
                 /\ at \in {"readRuns", "steps", "runs"} => seen = own("testVersion")
                 /\ at = "steps" => call[r].runs = Of(db.run, seen)
                 /\ at = "runs" => Of(db.stepResult, Of(db.run, seen)) = {}
                 /\ at \in {"baselines", "schedules", "clear", "versions", "row"} => Of(db.run, own("testVersion")) = {}
                 /\ at \in {"schedules", "clear", "versions", "row"} => own("baseline") = {}
                 /\ at \in {"clear", "versions", "row"} => own("schedule") = {}
                 /\ at = "row" => own("testVersion") = {}
           /\ Req(r).op = "removeFlow" =>
                 /\ at = "captureSteps" => seen = own("captureRun")
                 /\ at = "captureRuns" => Of(db.captureStep, own("captureRun")) = {}
                 /\ at = "flow" => own("captureRun") = {}
           /\ Req(r).op = "removeRun" /\ at = "run" => own("stepResult") = {}
<1>1. RemovalKnown(r) BY DEF RowsHang, RemovalsKnown
<1> QED BY <1>1 DEF RemovalKnown, TestVersions, Select, Ids, Of

(* A removal that nothing overlaps goes through its parts, unless there is a fault. *)
LEMMA RemovalGoes ==
    ASSUME RowsHang, NEW r \in Requests, Handle(r), Removal(r), Solo(r) \/ ~ Begun(r)
    PROVE  \/ ReadVersions(r) \/ ReadRuns(r) \/ ClearCurrent(r) \/ ReadCaptures(r)
           \/ /\ call[r].at \in DOMAIN PartsOf(r) /\ call'[r].at = PartOf(r)[3]
              /\ call'[r].seen = call[r].seen /\ call'[r].runs = call[r].runs
              /\ Shrunk(PartOf(r)[1], PartOf(r)[2])
           \/ call'[r].at = "failed" /\ faults' # 0
<1>0. CatalogKnown BY DEF RowsHang
<1>1. Req(r).op \in Removals BY DEF Removal
<1>2. RemoveTest(r) \/ RemoveFlow(r) \/ RemoveRun(r) \/ Fails(r)
  BY <1>1, HandlerOf DEF Removals, InProject, InOrg, Patched, Dropped, Fanning
<1>3. CASE Fails(r)
  <2>1. Go(r, "failed") /\ faults' = faults + 1 BY <1>0, <1>1, <1>3, FailsGoes DEF Removals, Fanning
  <2>2. faults \in Nat BY Frame
  <2>3. call'[r].at = "failed" BY <2>1, <1>0, Kept
  <2> QED BY <2>1, <2>2, <2>3
<1>4. CASE RemovePart(r, PartsOf(r))
  <2>1. call[r].at \in DOMAIN PartsOf(r) BY <1>4 DEF RemovePart
  <2>2. PartOf(r)[1] \in Parts /\ \A u \in Tables : References[u] = PartOf(r)[1] => Select(u, "of", PartOf(r)[2]) = {}
    BY <2>1, PartFree
  <2>3. Deletable(PartOf(r)[1], PartOf(r)[2]) BY <2>2 DEF Deletable
  <2>4. Delete(PartOf(r)[1], PartOf(r)[2]) /\ Go(r, PartOf(r)[3]) BY <2>3, <1>4 DEF RemovePart, PartOf
  <2>5. PartOf(r)[1] \in Tables BY <2>2, TableNames DEF Parts
  <2>6. Shrunk(PartOf(r)[1], PartOf(r)[2]) BY <2>4, <2>5, <1>0, DeleteShape
  <2>7. call'[r].at = PartOf(r)[3] /\ call'[r].seen = call[r].seen /\ call'[r].runs = call[r].runs BY <2>4, <1>0, Kept
  <2> QED BY <2>1, <2>6, <2>7
<1>5. RemoveTest(r) => ReadVersions(r) \/ ReadRuns(r) \/ ClearCurrent(r) \/ RemovePart(r, PartsOf(r)) BY DEF RemoveTest, PartsOf
<1>6. RemoveFlow(r) => ReadCaptures(r) \/ RemovePart(r, PartsOf(r)) BY DEF RemoveFlow, PartsOf
<1>7. RemoveRun(r) => RemovePart(r, PartsOf(r)) BY DEF RemoveRun, PartsOf
<1> QED BY <1>2, <1>3, <1>4, <1>5, <1>6, <1>7

LEMMA TestRemovalOwn ==
    ASSUME RowsHang, NEW r \in Requests, Handle(r), Solo(r) \/ ~ Begun(r), Req(r).op = "removeTest"
    PROVE  \/ call'[r].at = "ok" \/ (call'[r].at = "failed" /\ faults' # 0)
           \/ RemovalKnown(r)' /\ call'[r].at \notin {"ok", "refused", "failed"}
<1> DEFINE id == Req(r).id
<1>0. CatalogKnown /\ RowsKnown /\ Removal(r) /\ ~ Answered(r) BY Frame DEF RowsHang, Removal, Removals
<1>1. Tables = DOMAIN db /\ {"test", "run", "testVersion", "stepResult", "baseline", "schedule"} \subseteq Tables
  BY <1>0, TableNames DEF CatalogKnown
<1>2. CASE ReadVersions(r)
  <2>1. Read /\ \E x : x = TestVersions(r) /\ GoWith(r, IF x = {} THEN "baselines" ELSE "readRuns", [seen |-> x])
    BY <1>2 DEF ReadVersions
  <2>2. PICK x : x = TestVersions(r) /\ GoWith(r, IF x = {} THEN "baselines" ELSE "readRuns", [seen |-> x]) BY <2>1
  <2> DEFINE what == [seen |-> x]
  <2>3. DOMAIN what = {"seen"} /\ what.seen = x OBVIOUS
  <2>4. GoWith(r, IF x = {} THEN "baselines" ELSE "readRuns", what) BY <2>2
  <2> HIDE DEF what
  <2>5. call'[r].at = (IF x = {} THEN "baselines" ELSE "readRuns") /\ call'[r].seen = x BY <2>3, <2>4, <1>0, Carried
  <2>6. db' = db /\ x = Of(db.testVersion, {id}) BY <2>1, <2>2 DEF Read, TestVersions, Select, Ids, Of
  <2>7. x = {} => Of(db'.run, x) = {} BY DEF Of
  <2> QED BY <1>0, <2>5, <2>6, <2>7, RemovalGetsTo
<1>3. CASE ReadRuns(r)
  <2>1. call[r].at = "readRuns" BY <1>3 DEF ReadRuns, At
  <2>2. call[r].seen = Of(db.testVersion, {id}) BY <2>1, <1>0, RemovalSees DEF Begun
  <2>3. PICK x : x = Select("run", "of", call[r].seen) OBVIOUS
  <2>4. Read /\ GoWith(r, "steps", [runs |-> x]) BY <2>3, <1>3 DEF ReadRuns
  <2> DEFINE what == [runs |-> x]
  <2>5. DOMAIN what = {"runs"} /\ what.runs = x OBVIOUS
  <2>6. GoWith(r, "steps", what) BY <2>4
  <2> HIDE DEF what
  <2>7. call'[r].at = "steps" /\ call'[r].runs = x /\ call'[r].seen = call[r].seen BY <2>5, <2>6, <1>0, Carried
  <2>8. db' = db /\ x = Of(db.run, call[r].seen) BY <2>3, <2>4 DEF Read, Select, Ids, Of
  <2> QED BY <1>0, <2>2, <2>7, <2>8, RemovalGetsTo
<1>4. CASE ClearCurrent(r)
  <2>1. call[r].at = "clear" /\ Go(r, "versions") BY <1>4 DEF ClearCurrent, At
  <2>2. Update("test", {id}, [current |-> 0]) BY <1>4 DEF ClearCurrent
  <2>3. \A u \in Tables \ {"test"} : db'[u] = db[u] BY <2>2, <1>1 DEF Update
  <2>4. db'.run = db.run /\ db'.testVersion = db.testVersion /\ db'.baseline = db.baseline /\ db'.schedule = db.schedule
    BY <2>3, <1>1
  <2>5. /\ Of(db.run, Of(db.testVersion, {id})) = {} /\ Of(db.baseline, {id}) = {} /\ Of(db.schedule, {id}) = {}
    BY <2>1, <1>0, RemovalSees DEF Begun
  <2>6. call'[r].at = "versions" BY <2>1, <1>0, Kept
  <2> QED BY <1>0, <2>4, <2>5, <2>6, RemovalGetsTo
<1>5. ASSUME call[r].at \in DOMAIN PartsOf(r), call'[r].at = PartOf(r)[3],
             call'[r].seen = call[r].seen, call'[r].runs = call[r].runs, Shrunk(PartOf(r)[1], PartOf(r)[2])
      PROVE  call'[r].at = "ok" \/ (RemovalKnown(r)' /\ call'[r].at \notin {"ok", "refused", "failed"})
  <2>1. call[r].at \in {"steps", "runs", "baselines", "schedules", "versions", "row"} BY <1>5 DEF PartsOf, DeleteParts
  <2>2. PartOf(r) = DeleteParts(r)[call[r].at] BY DEF PartsOf, PartOf
  <2>3. Solo(r) /\ Begun(r) BY <2>1 DEF Begun
  <2>4. ASSUME NEW t, NEW ids, Shrunk(t, ids) PROVE \A u \in Tables \ {t} : db'[u] = db[u] BY <2>4 DEF Shrunk
  <2>5. CASE call[r].at = "steps"
    <3>1. Shrunk("stepResult", Select("stepResult", "of", call[r].runs)) /\ call'[r].at = "runs"
      BY <2>2, <2>5, <1>5 DEF DeleteParts
    <3>2. Of(db'.stepResult, call[r].runs) = {} BY <3>1, OfShrunk
    <3>3. db'.run = db.run /\ db'.testVersion = db.testVersion BY <3>1, <2>4, <1>1
    <3>4. call[r].seen = Of(db.testVersion, {id}) /\ call[r].runs = Of(db.run, call[r].seen) BY <2>3, <2>5, <1>0, RemovalSees
    <3> QED BY <3>1, <3>2, <3>3, <3>4, <1>0, <1>5, RemovalGetsTo
  <2>6. CASE call[r].at = "runs"
    <3>1. Shrunk("run", Select("run", "of", call[r].seen)) /\ call'[r].at = "baselines"
      BY <2>2, <2>6, <1>5 DEF DeleteParts
    <3>2. Of(db'.run, call[r].seen) = {} BY <3>1, OfShrunk
    <3>3. db'.testVersion = db.testVersion BY <3>1, <2>4, <1>1
    <3>4. call[r].seen = Of(db.testVersion, {id}) BY <2>3, <2>6, <1>0, RemovalSees
    <3> QED BY <3>1, <3>2, <3>3, <3>4, <1>0, <1>5, RemovalGetsTo
  <2>7. CASE call[r].at = "baselines"
    <3>1. Shrunk("baseline", Select("baseline", "of", {id})) /\ call'[r].at = "schedules"
      BY <2>2, <2>7, <1>5 DEF DeleteParts
    <3>2. Of(db'.baseline, {id}) = {} BY <3>1, OfShrunk
    <3>3. db'.run = db.run /\ db'.testVersion = db.testVersion BY <3>1, <2>4, <1>1
    <3>4. Of(db.run, Of(db.testVersion, {id})) = {} BY <2>3, <2>7, <1>0, RemovalSees
    <3> QED BY <3>1, <3>2, <3>3, <3>4, <1>0, <1>5, RemovalGetsTo
  <2>8. CASE call[r].at = "schedules"
    <3>1. Shrunk("schedule", Select("schedule", "of", {id})) /\ call'[r].at = "clear"
      BY <2>2, <2>8, <1>5 DEF DeleteParts
    <3>2. Of(db'.schedule, {id}) = {} BY <3>1, OfShrunk
    <3>3. db'.run = db.run /\ db'.testVersion = db.testVersion /\ db'.baseline = db.baseline BY <3>1, <2>4, <1>1
    <3>4. Of(db.run, Of(db.testVersion, {id})) = {} /\ Of(db.baseline, {id}) = {} BY <2>3, <2>8, <1>0, RemovalSees
    <3> QED BY <3>1, <3>2, <3>3, <3>4, <1>0, <1>5, RemovalGetsTo
  <2>9. CASE call[r].at = "versions"
    <3>1. Shrunk("testVersion", Select("testVersion", "of", {id})) /\ call'[r].at = "row"
      BY <2>2, <2>9, <1>5 DEF DeleteParts, TestVersions
    <3>2. Of(db'.testVersion, {id}) = {} BY <3>1, OfShrunk
    <3>3. db'.run = db.run /\ db'.schedule = db.schedule /\ db'.baseline = db.baseline BY <3>1, <2>4, <1>1
    <3>4. Of(db.schedule, {id}) = {} /\ Of(db.baseline, {id}) = {} BY <2>3, <2>9, <1>0, RemovalSees
    <3>5. Of(db'.run, {}) = {} BY DEF Of
    <3> QED BY <3>1, <3>2, <3>3, <3>4, <3>5, <1>0, <1>5, RemovalGetsTo
  <2>10. CASE call[r].at = "row" BY <2>2, <2>10, <1>5 DEF DeleteParts
  <2> QED BY <2>1, <2>5, <2>6, <2>7, <2>8, <2>9, <2>10
<1>6. ~ ReadCaptures(r) BY DEF ReadCaptures, At
<1> QED BY <1>0, <1>2, <1>3, <1>4, <1>5, <1>6, RemovalGoes

LEMMA OtherRemovalOwn ==
    ASSUME RowsHang, NEW r \in Requests, Handle(r), Solo(r) \/ ~ Begun(r), Req(r).op \in {"removeFlow", "removeRun"}
    PROVE  \/ call'[r].at = "ok" \/ (call'[r].at = "failed" /\ faults' # 0)
           \/ RemovalKnown(r)' /\ call'[r].at \notin {"ok", "refused", "failed"}
<1> DEFINE id == Req(r).id
<1>0. CatalogKnown /\ RowsKnown /\ Removal(r) /\ ~ Answered(r) BY Frame DEF RowsHang, Removal, Removals
<1>1. Tables = DOMAIN db /\ {"captureRun", "captureStep", "loginFlow", "run", "stepResult"} \subseteq Tables
  BY <1>0, TableNames DEF CatalogKnown
<1>2. CASE ReadCaptures(r)
  <2>1. Req(r).op = "removeFlow" /\ Read
        /\ \E x : x = Select("captureRun", "of", {id}) /\ GoWith(r, IF x = {} THEN "flow" ELSE "captureSteps", [seen |-> x])
    BY <1>2 DEF ReadCaptures, At
  <2>2. PICK x : x = Select("captureRun", "of", {id}) /\ GoWith(r, IF x = {} THEN "flow" ELSE "captureSteps", [seen |-> x])
    BY <2>1
  <2> DEFINE what == [seen |-> x]
  <2>3. DOMAIN what = {"seen"} /\ what.seen = x OBVIOUS
  <2>4. GoWith(r, IF x = {} THEN "flow" ELSE "captureSteps", what) BY <2>2
  <2> HIDE DEF what
  <2>5. call'[r].at = (IF x = {} THEN "flow" ELSE "captureSteps") /\ call'[r].seen = x BY <2>3, <2>4, <1>0, Carried
  <2>6. db' = db /\ x = Of(db.captureRun, {id}) BY <2>1, <2>2 DEF Read, Select, Ids, Of
  <2> QED BY <1>0, <2>1, <2>5, <2>6, RemovalGetsTo
<1>3. ASSUME Req(r).op = "removeFlow", call[r].at \in DOMAIN PartsOf(r), call'[r].at = PartOf(r)[3],
             call'[r].seen = call[r].seen, Shrunk(PartOf(r)[1], PartOf(r)[2])
      PROVE  call'[r].at = "ok" \/ (RemovalKnown(r)' /\ call'[r].at \notin {"ok", "refused", "failed"})
  <2>1. call[r].at \in {"captureSteps", "captureRuns", "flow"} BY <1>3 DEF PartsOf, FlowParts
  <2>2. PartOf(r) = FlowParts(r)[call[r].at] BY <1>3 DEF PartsOf, PartOf
  <2>3. Solo(r) /\ Begun(r) BY <2>1 DEF Begun
  <2>4. CASE call[r].at = "captureSteps"
    <3>1. Shrunk("captureStep", Select("captureStep", "of", call[r].seen)) /\ call'[r].at = "captureRuns"
      BY <2>2, <2>4, <1>3 DEF FlowParts
    <3>2. Of(db'.captureStep, call[r].seen) = {} BY <3>1, OfShrunk
    <3>3. db'.captureRun = db.captureRun BY <3>1, <1>1 DEF Shrunk
    <3>4. call[r].seen = Of(db.captureRun, {id}) BY <2>3, <2>4, <1>0, <1>3, RemovalSees
    <3> QED BY <3>1, <3>2, <3>3, <3>4, <1>0, <1>3, RemovalGetsTo
  <2>5. CASE call[r].at = "captureRuns"
    <3>1. Shrunk("captureRun", Select("captureRun", "of", {id})) /\ call'[r].at = "flow"
      BY <2>2, <2>5, <1>3 DEF FlowParts
    <3>2. Of(db'.captureRun, {id}) = {} BY <3>1, OfShrunk
    <3> QED BY <3>1, <3>2, <1>0, <1>3, RemovalGetsTo
  <2>6. CASE call[r].at = "flow" BY <2>2, <2>6, <1>3 DEF FlowParts
  <2> QED BY <2>1, <2>4, <2>5, <2>6
<1>4. ASSUME Req(r).op = "removeRun", call[r].at \in DOMAIN PartsOf(r), call'[r].at = PartOf(r)[3],
             Shrunk(PartOf(r)[1], PartOf(r)[2])
      PROVE  call'[r].at = "ok" \/ (RemovalKnown(r)' /\ call'[r].at \notin {"ok", "refused", "failed"})
  <2>1. call[r].at \in {"start", "run"} BY <1>4 DEF PartsOf, RunParts
  <2>2. PartOf(r) = RunParts(r)[call[r].at] BY <1>4 DEF PartsOf, PartOf
  <2>3. CASE call[r].at = "start"
    <3>1. Shrunk("stepResult", Select("stepResult", "of", {id})) /\ call'[r].at = "run"
      BY <2>2, <2>3, <1>4 DEF RunParts
    <3>2. Of(db'.stepResult, {id}) = {} BY <3>1, OfShrunk
    <3> QED BY <3>1, <3>2, <1>0, <1>4, RemovalGetsTo
  <2>4. CASE call[r].at = "run" BY <2>2, <2>4, <1>4 DEF RunParts
  <2> QED BY <2>1, <2>3, <2>4
<1>5. ~ ReadVersions(r) /\ ~ ReadRuns(r) /\ ~ ClearCurrent(r) BY DEF ReadVersions, ReadRuns, ClearCurrent, At
<1> QED BY <1>0, <1>2, <1>3, <1>4, <1>5, RemovalGoes

LEMMA RemovalsStep ==
    ASSUME RowsHang, NEW r \in Requests, Handle(r)
    PROVE  RemovalsKnown'
<1>0. RemovalsKnown /\ OrderKnown BY DEF RowsHang
<1>1. Requests' = Requests /\ (\A s : Req(s)' = Req(s)) /\ (\A s \in Requests \ {r} : call'[s] = call[s])
      /\ faults \in Nat /\ faults' \in 0 .. work.faults /\ faults <= faults'
  BY Frame
<1> SUFFICES ASSUME NEW s \in Requests, Removal(s), Solo(s)'
             PROVE  /\ Begun(s)' /\ ~ Answered(s)' => RemovalKnown(s)'
                    /\ Answered(s)' /\ faults' = 0 => Ok(s)'
  BY <1>1 DEF RemovalsKnown, Removal
<1>2. CASE s = r
  <2>1. Solo(r) \/ ~ Begun(r) BY <1>2, OrderStep
  <2>2. \/ call'[r].at = "ok" \/ (call'[r].at = "failed" /\ faults' # 0)
        \/ RemovalKnown(r)' /\ call'[r].at \notin {"ok", "refused", "failed"}
    BY <2>1, <1>2, TestRemovalOwn, OtherRemovalOwn DEF Removal, Removals
  <2> QED BY <2>2, <1>2 DEF Answered, Ok
<1>3. CASE s # r
  <2>1. call'[s] = call[s] BY <1>1, <1>3
  <2>2. Begun(s)' /\ ~ Answered(s)' => FALSE
    <3>1. Begun(s)' /\ ~ Answered(s)' => Begun(s) /\ ~ Answered(s) BY <2>1 DEF Begun, Answered
    <3> QED BY <3>1, <1>3, OrderStep
  <2>3. ASSUME Answered(s)', faults' = 0 PROVE Ok(s)'
    <3>1. Answered(s) /\ Begun(s) BY <2>1, <2>3 DEF Answered, Begun
    <3>2. Solo(s) BY <3>1, OrderStep
    <3>3. faults = 0 BY <2>3, <1>1
    <3>4. Ok(s) BY <3>1, <3>2, <3>3, <1>0 DEF RemovalsKnown
    <3> QED BY <2>1, <3>4 DEF Ok
  <2> QED BY <2>2, <2>3
<1> QED BY <1>2, <1>3

-----------------------------------------------------------------------------
LEMMA RowsHangInit == Init => RowsHang
<1> SUFFICES ASSUME Init PROVE RowsHang OBVIOUS
<1>1. CatalogKnown BY CatalogKnownInit
<1>2. db = work.db /\ next = FirstFree
  <2>1. PICK w \in Workloads, enforced \in BOOLEAN :
          work = [enforced |-> enforced] ++ w /\ db = w.db /\ next = 1 + Cardinality(InitialIds(w))
    BY DEF Init
  <2>2. work.db = w.db /\ InitialIds(work) = InitialIds(w) BY <2>1, WorkKnown
  <2> QED BY <2>1, <2>2 DEF FirstFree
<1>3. jobs = {} /\ before = {} /\ faults = 0 BY DEF Init
<1>4. ASSUME NEW r \in Requests PROVE call[r] = NewCall BY DEF Init
<1>5. ASSUME NEW r \in Requests PROVE call[r].at = "start" /\ call[r].seen = {} /\ call[r].ids = << >>
  BY <1>4 DEF NewCall
<1>6. work.faults \in Nat /\ DOMAIN work.db = Tables
      /\ (\A t \in Tables : \A i \in DOMAIN work.db[t] :
             /\ "of" \in DOMAIN work.db[t][i]
             /\ References[t] # "none" => work.db[t][i].of \in DOMAIN work.db[References[t]])
      /\ \A t \in DOMAIN work.db.test :
            /\ "current" \in DOMAIN work.db.test[t] /\ work.db.test[t].current \in DOMAIN work.db.testVersion
            /\ work.db.testVersion[work.db.test[t].current].of = t
  BY <1>1, WorkFacts
<1>7. next \in Nat /\ 1 <= next BY <1>1, FirstFreePositive
<1>8. \A t \in Tables : Ids(t) \subseteq 1 .. next - 1 BY <1>1 DEF CatalogKnown
<1>9. ~ \E r \in Requests : Begun(r) BY <1>5 DEF Begun
<1>10. OrderKnown BY <1>3, <1>6 DEF OrderKnown
<1>11. RowsKnown
  <2>1. \A t \in Tables : \A i \in Ids(t) : "of" \in DOMAIN db[t][i] BY <1>2, <1>6 DEF Ids
  <2>2. ASSUME NEW t \in Keyed, NEW i \in Ids(t) PROVE db[t][i].of \in Ids(References[t]) /\ References[t] \in Tables
    <3>1. t \in Tables /\ References[t] # "none" BY DEF Keyed
    <3>2. References[t] \in Tables BY <3>1, TableNames DEF References
    <3> QED BY <3>1, <3>2, <2>2, <1>2, <1>6 DEF Ids
  <2>3. \A t \in Keyed : \A i \in Ids(t) : db[t][i].of \in 1 .. next - 1 BY <2>2, <1>8
  <2>4. Housed \subseteq Keyed BY DEF Housed, Keyed
  <2>5. "test" \in Tables /\ "testVersion" \in Tables BY TableNames
  <2>6. \A i \in Ids("test") : "current" \in DOMAIN db.test[i] /\ db.test[i].current \in 1 .. next - 1
    BY <2>5, <1>2, <1>6, <1>8 DEF Ids
  <2>7. 1 .. next - 1 \subseteq 0 .. next - 1 BY <1>7
  <2> QED BY <2>1, <2>2, <2>3, <2>4, <2>6, <2>7 DEF RowsKnown
<1>12. ASSUME NEW r \in Requests PROVE HeldKnown(r) /\ HeldThere(r)
  <2>1. << >> \in Seq(1 .. next - 1) OBVIOUS
  <2> QED BY <2>1, <1>5 DEF HeldKnown, HeldThere, Making
<1>13. ThereUntilRemoved
  <2>1. {"test", "testVersion", "run"} \subseteq Tables BY TableNames
  <2> QED BY <2>1, <1>2, <1>12 DEF ThereUntilRemoved, Ids
<1>14. CurrentKnown
  <2>1. \A t \in Ids("test") : OwnVersion(t, db.test[t].current) BY <1>2, <1>6 DEF OwnVersion, Ids
  <2>2. \A r \in Requests : call[r].at \notin {"versions", "row", "current"} BY <1>5
  <2> QED BY <2>1, <2>2 DEF CurrentKnown
<1>15. RemovalsKnown BY <1>5, <1>9 DEF RemovalsKnown, Answered
<1>16. KeysKnown
  <2>1. \A t \in Keyed : t \in Tables /\ References[t] # "none" BY DEF Keyed
  <2> QED BY <2>1, <1>2, <1>6 DEF KeysKnown, Backed, Ids
<1>17. \A j \in jobs : j.run \in 1 .. next - 1 BY <1>3
<1> QED BY <1>1, <1>10, <1>11, <1>12, <1>13, <1>14, <1>15, <1>16, <1>17 DEF RowsHang

LEMMA RowsHangStep == RowsHang /\ [Next]_vars => RowsHang'
<1> SUFFICES ASSUME RowsHang, [Next]_vars PROVE RowsHang' OBVIOUS
<1>0. CatalogKnown' BY KnownStep DEF RowsHang
<1>1. ASSUME NEW r \in Requests, Handle(r) PROVE RowsHang'
  <2>1. Requests' = Requests BY <1>1, Frame
  <2>2. \A s \in Requests : HeldKnown(s)' BY <1>1, HeldStep, HeldOthers DEF Held
  <2>3. OrderKnown' BY <1>1, OrderStep
  <2>4. RowsKnown' /\ CurrentKnown' /\ RemovalsKnown' /\ KeysKnown' /\ ThereUntilRemoved'
    BY <1>1, RowsStep, CurrentStep, RemovalsStep, KeysStep, ThereStep
  <2>5. \A j \in jobs' : j.run \in 1 .. next' - 1 BY <1>1, JobsStep
  <2> QED BY <1>0, <2>1, <2>2, <2>3, <2>4, <2>5 DEF RowsHang
<1>2. CASE UNCHANGED vars
  <2>1. OrderKnown' BY <1>2 DEF vars, RowsHang, OrderKnown, Requests, Answered, Begun
  <2>2. RowsKnown' BY <1>2 DEF vars, RowsHang, RowsKnown, Ids
  <2>3. \A s \in Requests' : HeldKnown(s)' BY <1>2 DEF vars, RowsHang, HeldKnown, Making, Requests, Req, Ids
  <2>4. ThereUntilRemoved'
    BY <1>2 DEF vars, RowsHang, ThereUntilRemoved, NothingRemoved, HeldThere, Making, Requests, Req, Ids, Begun, Removal
  <2>5. CurrentKnown'
    BY <1>2 DEF vars, RowsHang, CurrentKnown, OwnVersion, Removing, Disturbed, Met, Begun, Overlap, Requests, Req, Ids
  <2>6. RemovalsKnown'
    <3>1. db' = db /\ call' = call /\ work' = work /\ before' = before /\ faults' = faults BY <1>2 DEF vars
    <3>2. ASSUME NEW s \in Requests, RemovalKnown(s) PROVE RemovalKnown(s)'
      BY <3>1, <3>2 DEF RemovalKnown, TestVersions, Select, Req, Ids
    <3>3. RemovalsKnown BY DEF RowsHang
    <3> QED BY <3>1, <3>2, <3>3 DEF RemovalsKnown, Removal, Solo, Begun, Answered, Ok, Requests, Req
  <2>7. KeysKnown' BY <1>2 DEF vars, RowsHang, KeysKnown, RemovalsLast, Backed, Removal, Begun, Requests, Req, Ids
  <2>8. \A j \in jobs' : j.run \in 1 .. next' - 1 BY <1>2 DEF vars, RowsHang
  <2> QED BY <1>0, <2>1, <2>2, <2>3, <2>4, <2>5, <2>6, <2>7, <2>8 DEF RowsHang
<1> QED BY <1>1, <1>2 DEF Next

LEMMA RowsHangKeeps == RowsHang => CatalogInv
<1> SUFFICES ASSUME RowsHang PROVE CatalogInv OBVIOUS
<1>0. CatalogKnown /\ OrderKnown /\ RowsKnown /\ CurrentKnown /\ RemovalsKnown /\ KeysKnown BY DEF RowsHang
<1>1. TypeOK
  <2>1. \A t \in Tables : Ids(t) \subseteq 1 .. next - 1 BY <1>0 DEF CatalogKnown
  <2>2. ASSUME NEW t \in Tables \ {"org", "apiKey"}, NEW i \in Ids(t) PROVE db[t][i].of \in Nat \ {0}
    <3>1. db[t][i].of \in 1 .. next - 1 BY <1>0, <2>2, KeyNames DEF RowsKnown
    <3>2. next \in Nat BY <1>0, FirstFreePositive
    <3> QED BY <3>1, <3>2
  <2>3. ASSUME NEW r \in Requests PROVE call[r].ids \in Seq(1 .. next - 1) /\ DOMAIN call[r] = DOMAIN NewCall
    <3>1. HeldKnown(r) BY DEF RowsHang
    <3> QED BY <3>1, <1>0 DEF HeldKnown, CatalogKnown
  <2>4. \A j \in jobs : j.run \in 1 .. next - 1 BY DEF RowsHang
  <2> QED BY <2>1, <2>2, <2>3, <2>4, <1>0 DEF TypeOK, OrderKnown
<1>2. CurrentVersionOwned
  <2> SUFFICES ASSUME NEW t \in Ids("test")
               PROVE  LET v == db.test[t].current
                          removing == {r \in Requests : Req(r).op = "removeTest" /\ Req(r).id = t /\ call[r].at # "start"}
                      IN  \/ v \in Ids("testVersion") /\ db.testVersion[v].of = t
                          \/ v = 0 /\ (removing # {} \/ t \notin DOMAIN work.db.test)
                          \/ \E r \in removing : ~ Alone(r)
    BY DEF CurrentVersionOwned
  <2> DEFINE removing == {r \in Requests : Req(r).op = "removeTest" /\ Req(r).id = t /\ call[r].at # "start"}
  <2>1. \A r \in Requests : Removing(r, t) => r \in removing BY DEF Removing, Begun
  <2>2. CASE OwnVersion(t, db.test[t].current) BY <2>2 DEF OwnVersion
  <2>3. CASE db.test[t].current = 0 /\ (t \notin DOMAIN work.db.test \/ \E r \in Requests : Removing(r, t)) BY <2>1, <2>3
  <2>4. CASE Disturbed(t)
    <3>1. PICK r, s \in Requests : Removing(r, t) /\ Met(r, s) BY <2>4 DEF Disturbed
    <3>2. r \in removing /\ ~ Alone(r) BY <2>1, <3>1 DEF Met, Alone
    <3> QED BY <3>2
  <2> QED BY <2>2, <2>3, <2>4, <1>0 DEF CurrentKnown
<1>3. NothingDangles
  <2>1. CASE work.enforced \/ RemovalsLast
    <3>1. \A t \in Keyed : \A i \in Ids(t) : Backed(t, i) BY <2>1, <1>0 DEF KeysKnown
    <3> QED BY <3>1 DEF NothingDangles, Keyed, Backed
  <2>2. CASE ~ work.enforced /\ ~ RemovalsLast BY <2>2 DEF NothingDangles, RemovalsLast, Removal
  <2> QED BY <2>1, <2>2
<1>4. RemovalSucceeds
  <2> SUFFICES ASSUME NEW r \in Requests, Req(r).op \in Removals, Answered(r), Alone(r), faults = 0
               PROVE  Ok(r)
    BY DEF RemovalSucceeds
  <2>1. Solo(r) BY DEF Alone, Overlap, Solo
  <2> QED BY <2>1, <1>0 DEF RemovalsKnown, Removal
<1> QED BY <1>1, <1>2, <1>3, <1>4 DEF CatalogInv

(* The rows hang together, whatever handlers overlap and wherever they fail: a test
   points at a version of its own, or at none if it is being removed; nothing points
   at a row that is gone, where keys are enforced or removals do not run into other
   requests; and a removal is never refused by what it has left (routers.ts:214-262,
   loginFlows.remove and runs.remove). *)
THEOREM RowsHangTogether == Spec => []CatalogInv
<1>1. Init => RowsHang BY RowsHangInit
<1>2. RowsHang /\ [Next]_vars => RowsHang' BY RowsHangStep
<1>3. RowsHang => CatalogInv BY RowsHangKeeps
<1> QED BY <1>1, <1>2, <1>3, PTL DEF Spec

-----------------------------------------------------------------------------
(* The way up is the least set that holds the folder and goes up from each member. *)
LEMMA AboveClosed ==
    ASSUME NEW tree, NEW f
    PROVE  f \in Above(tree, f) /\ Upward(tree, Above(tree, f))
<1> DEFINE reach == {f, 0} \cup {tree[g].parent : g \in DOMAIN tree}
<1>1. Above(tree, f) = {g \in reach : \A S \in SUBSET reach : f \in S /\ Upward(tree, S) => g \in S} BY DEF Above
<1>2. f \in reach /\ \A g : ParentIn(tree, g) \in reach BY DEF ParentIn
<1> HIDE DEF reach
<1>3. f \in Above(tree, f) BY <1>1, <1>2
<1>4. ASSUME NEW g \in Above(tree, f) PROVE ParentIn(tree, g) \in Above(tree, f)
  <2>1. ASSUME NEW S \in SUBSET reach, f \in S, Upward(tree, S) PROVE ParentIn(tree, g) \in S
    BY <1>1, <1>4, <2>1 DEF Upward
  <2> QED BY <1>1, <1>2, <2>1
<1> QED BY <1>3, <1>4 DEF Upward

LEMMA AboveLeast ==
    ASSUME NEW tree, NEW f, NEW S, f \in S, Upward(tree, S)
    PROVE  Above(tree, f) \subseteq S
<1> DEFINE reach == {f, 0} \cup {tree[g].parent : g \in DOMAIN tree}
<1>1. Above(tree, f) = {g \in reach : \A A \in SUBSET reach : f \in A /\ Upward(tree, A) => g \in A} BY DEF Above
<1>2. f \in reach /\ \A g : ParentIn(tree, g) \in reach BY DEF ParentIn
<1> HIDE DEF reach
<1>3. f \in S \cap reach /\ Upward(tree, S \cap reach) BY <1>2 DEF Upward
<1>4. S \cap reach \in SUBSET reach OBVIOUS
<1> QED BY <1>1, <1>3, <1>4

LEMMA AboveStep ==
    ASSUME NEW tree, NEW f
    PROVE  Above(tree, f) = {f} \cup Above(tree, ParentIn(tree, f))
<1> DEFINE p == ParentIn(tree, f)
<1>1. f \in Above(tree, f) /\ Upward(tree, Above(tree, f)) BY AboveClosed
<1>2. p \in Above(tree, f) BY <1>1 DEF Upward
<1>3. Above(tree, p) \subseteq Above(tree, f) BY <1>1, <1>2, AboveLeast
<1>4. p \in Above(tree, p) /\ Upward(tree, Above(tree, p)) BY AboveClosed
<1>5. f \in {f} \cup Above(tree, p) /\ Upward(tree, {f} \cup Above(tree, p)) BY <1>4 DEF Upward
<1>6. Above(tree, f) \subseteq {f} \cup Above(tree, p) BY <1>5, AboveLeast
<1> QED BY <1>1, <1>3, <1>6

(* Where two trees agree on the way up from f, it is the same way. *)
LEMMA AboveAgrees ==
    ASSUME NEW one, NEW other, NEW f, \A g \in Above(one, f) : ParentIn(one, g) = ParentIn(other, g)
    PROVE  Above(other, f) = Above(one, f)
<1>1. f \in Above(one, f) /\ Upward(one, Above(one, f)) BY AboveClosed
<1>2. Upward(other, Above(one, f)) BY <1>1 DEF Upward
<1>3. Above(other, f) \subseteq Above(one, f) BY <1>1, <1>2, AboveLeast
<1>4. f \in Above(other, f) /\ Upward(other, Above(other, f)) BY AboveClosed
<1>5. Upward(one, Above(other, f)) BY <1>3, <1>4 DEF Upward
<1>6. Above(one, f) \subseteq Above(other, f) BY <1>4, <1>5, AboveLeast
<1> QED BY <1>3, <1>6

LEMMA TopOnTree ==
    ASSUME NEW tree, 0 \notin DOMAIN tree
    PROVE  Above(tree, 0) = {0} /\ OnTheTree(tree, 0)
<1>1. ParentIn(tree, 0) = 0 BY DEF ParentIn
<1>2. 0 \in {0} /\ Upward(tree, {0}) BY <1>1 DEF Upward
<1>3. Above(tree, 0) \subseteq {0} BY <1>2, AboveLeast
<1>4. 0 \in Above(tree, 0) BY AboveClosed
<1> QED BY <1>3, <1>4 DEF OnTheTree

(* A folder is on the tree when its parent is, and its parent is when it is. *)
LEMMA TreeUp ==
    ASSUME NEW tree, NEW f \in DOMAIN tree, OnTheTree(tree, ParentIn(tree, f))
    PROVE  OnTheTree(tree, f)
BY AboveStep DEF OnTheTree

LEMMA TreeDown ==
    ASSUME NEW tree, NEW f, f # 0, OnTheTree(tree, f)
    PROVE  /\ OnTheTree(tree, ParentIn(tree, f)) /\ ParentIn(tree, f) # f
           /\ ParentIn(tree, f) \in DOMAIN tree \cup {0} /\ f \in DOMAIN tree
<1> DEFINE p == ParentIn(tree, f)
<1>1. Above(tree, f) = {f} \cup Above(tree, p) BY AboveStep
<1>2. f \in Above(tree, f) /\ p \in Above(tree, p) BY AboveClosed
<1>3. OnTheTree(tree, p) BY <1>1 DEF OnTheTree
<1>4. p # f
  <2> SUFFICES ASSUME p = f PROVE FALSE OBVIOUS
  <2>1. f \in {f} /\ Upward(tree, {f}) BY DEF Upward
  <2>2. Above(tree, f) \subseteq {f} BY <2>1, AboveLeast
  <2> QED BY <2>2 DEF OnTheTree
<1> QED BY <1>1, <1>2, <1>3, <1>4 DEF OnTheTree

(* Induction from the top of a tree down. *)
LEMMA TreeInduct ==
    ASSUME NEW tree, \A f \in DOMAIN tree : OnTheTree(tree, f), 0 \notin DOMAIN tree,
           NEW Good, 0 \in Good, \A f \in DOMAIN tree : tree[f].parent \in Good => f \in Good
    PROVE  DOMAIN tree \subseteq Good
<1> SUFFICES ASSUME NEW f \in DOMAIN tree, f \notin Good PROVE FALSE OBVIOUS
<1> DEFINE bad == DOMAIN tree \ Good
<1>1. ASSUME NEW g \in bad PROVE ParentIn(tree, g) \in bad
  <2>1. ParentIn(tree, g) = tree[g].parent BY <1>1 DEF ParentIn
  <2>2. tree[g].parent \notin Good BY <1>1
  <2>3. OnTheTree(tree, g) /\ g # 0 BY <1>1
  <2>4. ParentIn(tree, g) \in DOMAIN tree \cup {0} BY <2>3, TreeDown
  <2> QED BY <2>1, <2>2, <2>4
<1>2. f \in bad /\ Upward(tree, bad) BY <1>1 DEF Upward
<1>3. Above(tree, f) \subseteq bad BY <1>2, AboveLeast
<1> QED BY <1>3 DEF OnTheTree

(* What a statement may do to a tree: *)
Tree(tree) == 0 \notin DOMAIN tree /\ \A f \in DOMAIN tree : OnTheTree(tree, f)
SameAbove(tree, new) == DOMAIN new = DOMAIN tree /\ \A f \in DOMAIN tree : new[f].parent = tree[f].parent
Adds(tree, new, n, up) ==  \* a folder n under up
    /\ n \notin DOMAIN tree /\ DOMAIN new = DOMAIN tree \cup {n} /\ new[n].parent = up
    /\ \A f \in DOMAIN tree : new[f].parent = tree[f].parent
Places(tree, new, id, up) ==  \* the folder id under up
    /\ DOMAIN new = DOMAIN tree
    /\ \A f \in DOMAIN tree : new[f].parent = IF f = id THEN up ELSE tree[f].parent
Lifts(tree, new, id, up) ==  \* what is under id, to up
    /\ DOMAIN new = DOMAIN tree
    /\ \A f \in DOMAIN tree : new[f].parent = IF tree[f].parent = id THEN up ELSE tree[f].parent
Drops(tree, new, id) ==
    /\ DOMAIN new = DOMAIN tree \ {id}
    /\ \A f \in DOMAIN new : new[f].parent = tree[f].parent

LEMMA SameTree ==
    ASSUME NEW tree, NEW new, SameAbove(tree, new)
    PROVE  /\ \A f : Above(new, f) = Above(tree, f) /\ (OnTheTree(new, f) <=> OnTheTree(tree, f))
           /\ Tree(tree) => Tree(new)
<1>1. \A g : ParentIn(tree, g) = ParentIn(new, g) BY DEF SameAbove, ParentIn
<1>2. \A f : Above(new, f) = Above(tree, f) BY <1>1, AboveAgrees
<1> QED BY <1>2 DEF Tree, SameAbove, OnTheTree

LEMMA ParentThere ==
    ASSUME NEW tree, Tree(tree), NEW f \in DOMAIN tree
    PROVE  tree[f].parent \in DOMAIN tree \cup {0} /\ tree[f].parent # f
<1>1. f # 0 /\ OnTheTree(tree, f) BY DEF Tree
<1>2. ParentIn(tree, f) = tree[f].parent BY DEF ParentIn
<1> QED BY <1>1, <1>2, TreeDown

LEMMA TreeAdds ==
    ASSUME NEW tree, Tree(tree), NEW n, n # 0, NEW up \in DOMAIN tree \cup {0}, NEW new, Adds(tree, new, n, up)
    PROVE  /\ Tree(new)
           /\ \A f \in DOMAIN tree \cup {0} : Above(new, f) = Above(tree, f)
           /\ \A f \in DOMAIN tree : tree[f].parent # n
<1>1. \A g : g # n => ParentIn(new, g) = ParentIn(tree, g) BY DEF Adds, ParentIn
<1>2. OnTheTree(tree, 0) BY TopOnTree DEF Tree
<1>3. ASSUME NEW f \in DOMAIN tree \cup {0} PROVE Above(new, f) = Above(tree, f) /\ OnTheTree(new, f)
  <2>1. OnTheTree(tree, f) BY <1>2 DEF Tree
  <2>2. n \notin Above(tree, f) BY <2>1 DEF OnTheTree, Adds
  <2>3. Above(new, f) = Above(tree, f) BY <1>1, <2>2, AboveAgrees
  <2>4. DOMAIN tree \subseteq DOMAIN new BY DEF Adds
  <2> QED BY <2>1, <2>3, <2>4 DEF OnTheTree
<1>4. ParentIn(new, n) = up /\ n \in DOMAIN new BY DEF Adds, ParentIn
<1>5. OnTheTree(new, n) BY <1>3, <1>4, TreeUp
<1>6. Tree(new) BY <1>3, <1>5 DEF Tree, Adds
<1>7. \A f \in DOMAIN tree : tree[f].parent # n BY ParentThere DEF Adds
<1> QED BY <1>3, <1>6, <1>7

LEMMA TreePlaces ==
    ASSUME NEW tree, Tree(tree), NEW id, NEW up \in DOMAIN tree \cup {0}, NEW new, Places(tree, new, id, up),
           up = 0 \/ id \notin DOMAIN tree \/ id \notin Above(tree, up)
    PROVE  Tree(new)
<1>0. 0 \notin DOMAIN tree /\ DOMAIN new = DOMAIN tree BY DEF Tree, Places
<1>1. \A g : g # id \/ g \notin DOMAIN tree => ParentIn(new, g) = ParentIn(tree, g) BY DEF Places, ParentIn
<1>2. OnTheTree(new, up)
  <2>1. CASE up = 0 BY <2>1, <1>0, TopOnTree
  <2>2. CASE up # 0
    <3>1. OnTheTree(tree, up) BY <2>2 DEF Tree
    <3>2. \A g \in Above(tree, up) : ParentIn(tree, g) = ParentIn(new, g) BY <2>2, <1>1
    <3>3. Above(new, up) = Above(tree, up) BY <3>2, AboveAgrees
    <3> QED BY <3>1, <3>3, <1>0 DEF OnTheTree
  <2> QED BY <2>1, <2>2
<1> DEFINE good == {f \in DOMAIN tree \cup {0} : OnTheTree(new, f)}
<1>3. 0 \in good BY <1>0, TopOnTree
<1>4. ASSUME NEW f \in DOMAIN tree, tree[f].parent \in good PROVE f \in good
  <2>1. ParentIn(new, f) = IF f = id THEN up ELSE tree[f].parent BY DEF Places, ParentIn
  <2>2. OnTheTree(new, ParentIn(new, f)) BY <2>1, <1>2, <1>4
  <2>3. OnTheTree(new, f) BY <2>2, <1>0, TreeUp
  <2> QED BY <2>3
<1>5. \A f \in DOMAIN tree : OnTheTree(tree, f) BY DEF Tree
<1> HIDE DEF good
<1>6. DOMAIN tree \subseteq good BY <1>0, <1>3, <1>4, <1>5, TreeInduct
<1> QED BY <1>0, <1>6 DEF Tree, good

LEMMA TreeLifts ==
    ASSUME NEW tree, Tree(tree), NEW id \in DOMAIN tree, NEW up, up = tree[id].parent, NEW new, Lifts(tree, new, id, up)
    PROVE  Tree(new) /\ new[id].parent = up /\ \A f \in DOMAIN new : new[f].parent # id
<1>0. 0 \notin DOMAIN tree /\ DOMAIN new = DOMAIN tree BY DEF Tree, Lifts
<1>1. up # id BY ParentThere
<1>2. ParentIn(new, id) = up /\ new[id].parent = up BY <1>0, <1>1 DEF Lifts, ParentIn
<1> DEFINE good == {f \in DOMAIN tree \cup {0} : OnTheTree(new, f)}
<1>3. 0 \in good BY <1>0, TopOnTree
<1>4. ASSUME NEW f \in DOMAIN tree, tree[f].parent \in good PROVE f \in good
  <2>1. ParentIn(new, f) = IF tree[f].parent = id THEN up ELSE tree[f].parent BY DEF Lifts, ParentIn
  <2>2. CASE tree[f].parent = id
    <3>1. OnTheTree(new, id) /\ id # 0 BY <2>2, <1>0, <1>4
    <3>2. OnTheTree(new, up) BY <3>1, <1>2, TreeDown
    <3> QED BY <3>2, <2>1, <2>2, <1>0, TreeUp
  <2>3. CASE tree[f].parent # id
    <3>1. OnTheTree(new, ParentIn(new, f)) BY <2>1, <2>3, <1>4
    <3> QED BY <3>1, <1>0, TreeUp
  <2> QED BY <2>2, <2>3
<1>5. \A f \in DOMAIN tree : OnTheTree(tree, f) BY DEF Tree
<1> HIDE DEF good
<1>6. DOMAIN tree \subseteq good BY <1>0, <1>3, <1>4, <1>5, TreeInduct
<1>7. Tree(new) BY <1>0, <1>6 DEF Tree, good
<1>8. \A f \in DOMAIN new : new[f].parent # id BY <1>0, <1>1 DEF Lifts
<1> QED BY <1>2, <1>7, <1>8

LEMMA TreeDrops ==
    ASSUME NEW tree, Tree(tree), NEW id, \A f \in DOMAIN tree : tree[f].parent # id, NEW new, Drops(tree, new, id)
    PROVE  Tree(new)
<1>0. 0 \notin DOMAIN tree /\ 0 \notin DOMAIN new /\ DOMAIN new = DOMAIN tree \ {id} BY DEF Tree, Drops
<1> DEFINE good == {f \in DOMAIN tree \cup {0} : f = id \/ OnTheTree(new, f)}
<1>1. 0 \in good BY <1>0, TopOnTree
<1>2. ASSUME NEW f \in DOMAIN tree, tree[f].parent \in good PROVE f \in good
  <2>1. CASE f = id BY <2>1
  <2>2. CASE f # id
    <3>1. f \in DOMAIN new /\ ParentIn(new, f) = tree[f].parent BY <2>2, <1>0 DEF Drops, ParentIn
    <3>2. OnTheTree(new, ParentIn(new, f)) BY <3>1, <1>2
    <3>3. OnTheTree(new, f) BY <3>1, <3>2, TreeUp
    <3> QED BY <3>3
  <2> QED BY <2>1, <2>2
<1>3. \A f \in DOMAIN tree : OnTheTree(tree, f) BY DEF Tree
<1> HIDE DEF good
<1>4. DOMAIN tree \subseteq good BY <1>0, <1>1, <1>2, <1>3, TreeInduct
<1> QED BY <1>0, <1>4 DEF Tree, good

-----------------------------------------------------------------------------
(* What a statement may do to the tables that are listed. *)
ShelfRows ==
    /\ \A f \in Ids("folder") : "parent" \in DOMAIN db.folder[f]
    /\ \A i \in Ids("test") : "folder" \in DOMAIN db.test[i]
Stays ==
    /\ Ids("project")' = Ids("project")
    /\ \A t \in Listed : Ids(t)' \subseteq Ids(t) /\ \A i \in Ids(t)' : db'[t][i].of = db[t][i].of
    /\ SameAbove(db.folder, db'.folder) /\ \A f \in Ids("folder")' : "parent" \in DOMAIN db'.folder[f]
    /\ \A i \in Ids("test")' : "folder" \in DOMAIN db'.test[i] /\ db'.test[i].folder = db.test[i].folder
Homed(r, t, row) ==  \* a row of the project that r has found
    /\ Req(r).op \in InProject /\ call[r].at = "home" /\ Grown(t, row) /\ row.of \in call[r].seen
    /\ t = "folder" => Req(r).op = "createFolder" /\ "parent" \in DOMAIN row /\ row.parent = Req(r).parent
    /\ t = "test" => "folder" \in DOMAIN row /\ row.folder = 0
Files(r) == Req(r).op = "moveTest" /\ Update("test", {Req(r).id}, [folder |-> Req(r).folder])
Shelf(r) ==
    \/ Stays \/ Files(r) \/ MakeProject(r) \/ \E t \in Listed : \E row : Homed(r, t, row)
    \/ PlaceFolder(r) \/ LiftFolders(r) \/ LiftTests(r) \/ DeleteFolder(r)

LEMMA StaysElsewhere ==
    ASSUME CatalogKnown, ShelfRows, \A t \in Listed \cup {"project"} : db'[t] = db[t]
    PROVE  Stays
BY DEF Stays, ShelfRows, SameAbove, Ids, Listed

LEMMA StaysInsert ==
    ASSUME CatalogKnown, ShelfRows, NEW t \in Tables \ (Listed \cup {"project"}), NEW row, Insert(t, row)
    PROVE  Stays
<1>1. Grown(t, row) BY InsertShape
<1>2. Listed \cup {"project"} \subseteq Tables \ {t} BY TableNames DEF Listed
<1> QED BY <1>1, <1>2, StaysElsewhere DEF Grown

LEMMA StaysDelete ==
    ASSUME CatalogKnown, ShelfRows, NEW t \in Tables \ {"folder", "project"}, NEW ids, Delete(t, ids)
    PROVE  Stays
<1>1. Shrunk(t, ids) BY DeleteShape
<1>2. Listed \cup {"project"} \subseteq Tables BY TableNames DEF Listed
<1>3. \A u \in (Listed \cup {"project"}) \ {t} : db'[u] = db[u] BY <1>1, <1>2 DEF Shrunk
<1>4. \A u \in Listed : Ids(u)' \subseteq Ids(u) /\ \A i \in Ids(u)' : db'[u][i] = db[u][i]
  <2> SUFFICES ASSUME NEW u \in Listed PROVE Ids(u)' \subseteq Ids(u) /\ \A i \in Ids(u)' : db'[u][i] = db[u][i] OBVIOUS
  <2>1. CASE u = t BY <2>1, <1>1 DEF Shrunk
  <2>2. CASE u # t BY <2>2, <1>3 DEF Ids
  <2> QED BY <2>1, <2>2
<1>5. db'.folder = db.folder /\ db'.project = db.project BY <1>3 DEF Listed
<1>6. "test" \in Listed BY DEF Listed
<1> QED BY <1>4, <1>5, <1>6 DEF Stays, ShelfRows, SameAbove, Ids

LEMMA StaysUpdate ==
    ASSUME RowsHang, ShelfRows, NEW t \in Tables, NEW ids, NEW patch, Update(t, ids, patch),
           {"of", "parent", "folder"} \cap DOMAIN patch = {}
    PROVE  Stays
<1>0. CatalogKnown /\ RowsKnown BY DEF RowsHang
<1>1. Still BY <1>0, UpdateShape
<1>2. Listed \cup {"project"} \subseteq Tables BY TableNames DEF Listed
<1>3. \A u \in Listed \cup {"project"} : Ids(u)' = Ids(u) BY <1>1, <1>2 DEF Still
<1>4. \A u \in Listed : \A i \in Ids(u)' : db'[u][i].of = db[u][i].of BY <1>1, <1>2, <1>3 DEF Still
<1>5. db' = [db EXCEPT ![t] = [i \in DOMAIN @ |-> IF i \in ids THEN patch ++ @[i] ELSE @[i]]] BY DEF Update
<1>6. ASSUME NEW u \in Listed, NEW i \in Ids(u)', NEW col \in {"parent", "folder"}, col \in DOMAIN db[u][i]
      PROVE  col \in DOMAIN db'[u][i] /\ db'[u][i][col] = db[u][i][col]
  <2>1. i \in Ids(u) /\ u \in DOMAIN db BY <1>0, <1>2, <1>3, <1>6 DEF CatalogKnown
  <2>2. db'[u][i] = db[u][i] \/ db'[u][i] = patch ++ db[u][i]
    <3>1. CASE u = t
      <4>1. db'[u] = [j \in DOMAIN db[t] |-> IF j \in ids THEN patch ++ db[t][j] ELSE db[t][j]] BY <3>1, <1>5, <2>1
      <4> QED BY <4>1, <3>1, <2>1 DEF Ids
    <3>2. CASE u # t BY <3>2, <1>5, <2>1
    <3> QED BY <3>1, <3>2
  <2> QED BY <2>2, <1>6 DEF ++
<1>7. "folder" \in Listed /\ "test" \in Listed BY DEF Listed
<1>8. \A f \in Ids("folder")' : "parent" \in DOMAIN db'.folder[f] /\ db'.folder[f].parent = db.folder[f].parent
  BY <1>3, <1>6, <1>7 DEF ShelfRows
<1>9. \A i \in Ids("test")' : "folder" \in DOMAIN db'.test[i] /\ db'.test[i].folder = db.test[i].folder
  BY <1>3, <1>6, <1>7 DEF ShelfRows
<1>10. SameAbove(db.folder, db'.folder) BY <1>3, <1>7, <1>8 DEF SameAbove, Ids
<1> QED BY <1>3, <1>4, <1>8, <1>9, <1>10 DEF Stays

LEMMA ShelfRead ==
    ASSUME RowsHang, ShelfRows, NEW r, Read
    PROVE  Shelf(r)
<1>1. CatalogKnown BY DEF RowsHang
<1> QED BY <1>1, StaysElsewhere DEF Read, Shelf

LEMMA HomesShelf ==
    ASSUME RowsHang, ShelfRows, NEW r \in Requests, Homes(r)
    PROVE  Shelf(r)
<1> USE TableNames
<1>0. CatalogKnown BY DEF RowsHang
<1>1. CASE Read BY <1>1, ShelfRead
<1>2. CASE MakeOrg(r) BY <1>2, <1>0, StaysInsert DEF MakeOrg, Shelf, Listed
<1>3. CASE MakeProject(r) BY <1>3 DEF Shelf
<1>4. CASE CreateAtHome(r)
  <2>1. Req(r).op \in {"createSecret", "createFolder", "createAction", "createFlow"} /\ call[r].at = "home"
    BY <1>4 DEF CreateAtHome, At, InProject, InOrg
  <2>2. Req(r).op # "createSecret" => Req(r).op \in InProject BY <2>1 DEF InProject
  <2>3. PICK home \in call[r].seen :
          CASE Req(r).op = "createFolder" ->
                Insert("folder", [of |-> home, name |-> Req(r).name, parent |-> Req(r).parent, collapsed |-> FALSE])
          [] Req(r).op = "createAction" -> Insert("action", [of |-> home, name |-> Req(r).name, dsl |-> Req(r).dsl])
          [] Req(r).op = "createFlow" ->
                Insert("loginFlow", [of |-> home, name |-> Req(r).name, dsl |-> Req(r).dsl, session |-> FALSE])
          [] Req(r).op = "createSecret" -> Insert("secret", [of |-> home, value |-> Stored(r)])
    BY <1>4 DEF CreateAtHome
  <2>4. CASE Req(r).op = "createSecret"
    <3>1. Insert("secret", [of |-> home, value |-> Stored(r)]) BY <2>3, <2>4
    <3> QED BY <3>1, <1>0, StaysInsert DEF Shelf, Listed
  <2>5. CASE Req(r).op = "createFolder"
    <3> DEFINE row == [of |-> home, name |-> Req(r).name, parent |-> Req(r).parent, collapsed |-> FALSE]
    <3>1. Insert("folder", row) BY <2>3, <2>5
    <3>2. row.of = home /\ "parent" \in DOMAIN row /\ row.parent = Req(r).parent OBVIOUS
    <3> HIDE DEF row
    <3>3. Grown("folder", row) BY <3>1, <1>0, InsertShape
    <3>4. Homed(r, "folder", row) BY <3>2, <3>3, <2>1, <2>2, <2>5 DEF Homed
    <3> QED BY <3>4 DEF Shelf, Listed
  <2>6. CASE Req(r).op = "createAction"
    <3> DEFINE row == [of |-> home, name |-> Req(r).name, dsl |-> Req(r).dsl]
    <3>1. Insert("action", row) BY <2>3, <2>6
    <3>2. row.of = home OBVIOUS
    <3> HIDE DEF row
    <3>3. Grown("action", row) BY <3>1, <1>0, InsertShape
    <3>4. Homed(r, "action", row) BY <3>2, <3>3, <2>1, <2>2, <2>6 DEF Homed
    <3> QED BY <3>4 DEF Shelf, Listed
  <2>7. CASE Req(r).op = "createFlow"
    <3> DEFINE row == [of |-> home, name |-> Req(r).name, dsl |-> Req(r).dsl, session |-> FALSE]
    <3>1. Insert("loginFlow", row) BY <2>3, <2>7
    <3>2. row.of = home OBVIOUS
    <3> HIDE DEF row
    <3>3. Grown("loginFlow", row) BY <3>1, <1>0, InsertShape
    <3>4. Homed(r, "loginFlow", row) BY <3>2, <3>3, <2>1, <2>2, <2>7 DEF Homed
    <3> QED BY <3>4 DEF Shelf, Listed
  <2> QED BY <2>1, <2>4, <2>5, <2>6, <2>7
<1> QED BY <1>1, <1>2, <1>3, <1>4 DEF Homes, FindProject, FindOrg, ListFolders, Refuse

LEMMA EditsShelf ==
    ASSUME RowsHang, ShelfRows, NEW r \in Requests, Edits(r)
    PROVE  Shelf(r)
<1> USE TableNames
<1>0. CatalogKnown BY DEF RowsHang
<1>1. CASE Read BY <1>1, ShelfRead
<1>2. CASE InsertTest(r)
  <2>1. Req(r).op = "createTest" /\ call[r].at = "home" BY <1>2 DEF InsertTest, At
  <2>2. Req(r).op \in InProject BY <2>1 DEF InProject
  <2>3. PICK home \in call[r].seen :
          Insert("test", [of |-> home, name |-> Req(r).name, folder |-> 0, current |-> 0,
                        settings |-> [browsers |-> << >>, flow |-> 0], data |-> << >>])
    BY <1>2 DEF InsertTest
  <2> DEFINE row == [of |-> home, name |-> Req(r).name, folder |-> 0, current |-> 0,
                        settings |-> [browsers |-> << >>, flow |-> 0], data |-> << >>]
  <2>4. row.of = home /\ "folder" \in DOMAIN row /\ row.folder = 0 OBVIOUS
  <2>5. Insert("test", row) BY <2>3
  <2> HIDE DEF row
  <2>6. Grown("test", row) BY <2>5, <1>0, InsertShape
  <2>7. Homed(r, "test", row) BY <2>1, <2>2, <2>4, <2>6 DEF Homed
  <2> QED BY <2>7 DEF Shelf, Listed
<1>3. CASE RenameTest(r) /\ ~ Read
  <2>1. Update("test", {Req(r).id}, [name |-> Req(r).name]) BY <1>3 DEF RenameTest
  <2>2. {"of", "parent", "folder"} \cap DOMAIN [name |-> Req(r).name] = {} OBVIOUS
  <2> QED BY <2>1, <2>2, StaysUpdate DEF Shelf
<1>4. CASE InsertVersion(r) /\ ~ Read
  <2>1. \E row : Insert("testVersion", row) BY <1>4 DEF InsertVersion
  <2> QED BY <2>1, <1>0, StaysInsert DEF Shelf, Listed
<1>5. CASE SetCurrent(r)
  <2> DEFINE patch == [current |-> call[r].ids[1]]
  <2>1. Update("test", call[r].seen, patch) BY <1>5 DEF SetCurrent
  <2>2. {"of", "parent", "folder"} \cap DOMAIN patch = {} OBVIOUS
  <2> HIDE DEF patch
  <2> QED BY <2>1, <2>2, StaysUpdate DEF Shelf
<1> QED BY <1>1, <1>2, <1>3, <1>4, <1>5 DEF Edits, FindTest, ValidateEdit

LEMMA RemovalsShelf ==
    ASSUME RowsHang, ShelfRows, NEW r \in Requests, RemoveTest(r) \/ RemoveFlow(r) \/ RemoveRun(r)
    PROVE  Shelf(r)
<1> USE TableNames
<1>0. CatalogKnown BY DEF RowsHang
<1>1. CASE Read BY <1>1, ShelfRead
<1>2. CASE ClearCurrent(r)
  <2>1. Update("test", {Req(r).id}, [current |-> 0]) BY <1>2 DEF ClearCurrent
  <2>2. {"of", "parent", "folder"} \cap DOMAIN [current |-> 0] = {} OBVIOUS
  <2> QED BY <2>1, <2>2, StaysUpdate DEF Shelf
<1>3. CASE RemovePart(r, PartsOf(r)) /\ ~ Read
  <2>1. Removal(r)
    BY <1>0, <1>3 DEF RemoveTest, RemoveFlow, RemoveRun, ReadVersions, ReadRuns, ClearCurrent, ReadCaptures, At, Removal, Removals
  <2>2. call[r].at \in DOMAIN PartsOf(r) BY <1>3 DEF RemovePart
  <2>3. Delete(PartOf(r)[1], PartOf(r)[2]) BY <1>3 DEF RemovePart, PartOf
  <2>4. PartOf(r)[1] \in Parts BY <2>1, <2>2, PartFree
  <2>5. PartOf(r)[1] \in Tables \ {"folder", "project"} BY <2>4 DEF Parts
  <2> QED BY <2>3, <2>5, <1>0, StaysDelete DEF Shelf
<1>4. ClearCurrent(r) \/ Read \/ RemovePart(r, PartsOf(r))
  BY DEF RemoveTest, RemoveFlow, RemoveRun, ReadVersions, ReadRuns, ReadCaptures, PartsOf
<1> QED BY <1>1, <1>2, <1>3, <1>4

LEMMA SmallShelf ==
    ASSUME RowsHang, ShelfRows, NEW r \in Requests, Small(r)
    PROVE  Shelf(r)
<1> USE TableNames
<1>0. CatalogKnown BY DEF RowsHang
<1>1. CASE Read BY <1>1, ShelfRead
<1>2. CASE PatchRow(r) /\ ~ Read
  <2>1. Req(r).op \in {"updateSettings", "moveTest", "setData", "renameFolder", "setCollapsed", "updateAction", "updateFlow"}
    BY <1>2 DEF PatchRow, At, Patched
  <2>2. Patched[Req(r).op] \in Tables BY <2>1 DEF Patched
  <2>3. Update(Patched[Req(r).op], {Req(r).id}, Patch(r)) BY <1>2 DEF PatchRow, Refuse
  <2>4. CASE Req(r).op = "moveTest"
    <3>1. Patched[Req(r).op] = "test" BY <2>4 DEF Patched
    <3>2. Patch(r) = [folder |-> Req(r).folder] BY <2>4, PatchOf
    <3> QED BY <3>1, <3>2, <2>3, <2>4 DEF Files, Shelf
  <2>5. CASE Req(r).op # "moveTest"
    <3>1. {"of", "parent", "folder"} \cap DOMAIN Patch(r) = {}
      <4>1. CASE Req(r).op \in OnOneTest BY <4>1, <2>5, PatchOf DEF OnOneTest
      <4>2. CASE Req(r).op \in {"renameFolder", "setCollapsed"} BY <4>2 DEF Patch
      <4>3. CASE Req(r).op \in {"updateAction", "updateFlow"}
        <5> DEFINE asked == Restrict(Req(r), DOMAIN Req(r) \cap {"name", "dsl"})
                   rest == IF Req(r).op = "updateFlow" /\ "dsl" \in DOMAIN Req(r) THEN [session |-> FALSE] ELSE << >>
        <5>1. Patch(r) = asked ++ rest BY <4>3 DEF Patch
        <5>2. DOMAIN asked \subseteq {"name", "dsl"} BY DEF Restrict
        <5>3. DOMAIN rest \subseteq {"session"}
          <6>1. DOMAIN << >> = {} /\ DOMAIN [session |-> FALSE] = {"session"} OBVIOUS
          <6> QED BY <6>1
        <5> HIDE DEF asked, rest
        <5>4. DOMAIN Patch(r) = DOMAIN asked \cup DOMAIN rest BY <5>1 DEF ++
        <5> QED BY <5>2, <5>3, <5>4
      <4> QED BY <2>1, <4>1, <4>2, <4>3 DEF OnOneTest
    <3> QED BY <3>1, <2>2, <2>3, StaysUpdate DEF Shelf
  <2> QED BY <2>4, <2>5
<1>3. CASE DropRow(r)
  <2>1. Req(r).op \in {"removeAction", "removeSchedule", "removeSecret", "removeApiKey", "removeAlert"} BY <1>3 DEF DropRow, At, Dropped
  <2>2. Dropped[Req(r).op] \in Tables \ {"folder", "project"} BY <2>1 DEF Dropped
  <2>3. \E ids : Delete(Dropped[Req(r).op], ids) BY <1>3 DEF DropRow
  <2> QED BY <2>2, <2>3, <1>0, StaysDelete DEF Shelf
<1>4. CASE CreateSchedule(r) /\ ~ Read
  <2>1. Insert("schedule", [of |-> Req(r).id]) BY <1>4 DEF CreateSchedule
  <2> QED BY <2>1, <1>0, StaysInsert DEF Shelf, Listed
<1>5. CASE CreateApiKey(r)
  <2>1. Insert("apiKey", [of |-> 0, key |-> next]) BY <1>5 DEF CreateApiKey
  <2> QED BY <2>1, <1>0, StaysInsert DEF Shelf, Listed
<1>6. CASE InsertAlert(r)
  <2>1. \E row : Insert("alert", row) BY <1>6 DEF InsertAlert
  <2> QED BY <2>1, <1>0, StaysInsert DEF Shelf, Listed
<1> QED BY <1>1, <1>2, <1>3, <1>4, <1>5, <1>6 DEF Small, FindAlertTest

LEMMA FoldersShelf ==
    ASSUME RowsHang, ShelfRows, NEW r \in Requests, Folders(r)
    PROVE  Shelf(r)
<1>1. Read => Shelf(r) BY ShelfRead
<1> QED BY <1>1 DEF Folders, CheckMove, FindFolder, Shelf

LEMMA RunsShelf ==
    ASSUME RowsHang, ShelfRows, NEW r \in Requests, Runs(r)
    PROVE  Shelf(r)
<1> USE TableNames
<1>0. CatalogKnown BY DEF RowsHang
<1>1. CASE Read BY <1>1, ShelfRead
<1>2. CASE AddJob(r)
  <2>1. db' = db BY <1>2 DEF AddJob
  <2> QED BY <2>1, <1>0, StaysElsewhere DEF Shelf
<1>3. CASE InsertRun(r) /\ ~ Read
  <2>1. \E row : Insert("run", row) BY <1>3 DEF InsertRun
  <2> QED BY <2>1, <1>0, StaysInsert DEF Shelf, Listed
<1>4. CASE Execute(r) /\ ~ Read
  <2>1. \/ \E status : Update("run", {Req(r).id}, [status |-> status])
        \/ \E row : Insert("stepResult", row)
        \/ \E row : Insert("baseline", row)
    BY <1>4 DEF Execute
  <2>2. ASSUME NEW status, Update("run", {Req(r).id}, [status |-> status]) PROVE Stays
    <3>1. {"of", "parent", "folder"} \cap DOMAIN [status |-> status] = {} OBVIOUS
    <3> QED BY <3>1, <2>2, StaysUpdate
  <2> QED BY <2>1, <2>2, <1>0, StaysInsert DEF Shelf, Listed
<1> QED BY <1>1, <1>2, <1>3, <1>4 DEF Runs, ReadTest, RetryReads, ListTests

LEMMA HandleShelf ==
    ASSUME RowsHang, ShelfRows, NEW r \in Requests, Handle(r)
    PROVE  Shelf(r)
<1>1. Fails(r) => Shelf(r) BY ShelfRead DEF Fails
<1> QED BY <1>1, HomesShelf, EditsShelf, RemovalsShelf, SmallShelf, FoldersShelf, RunsShelf DEF Handle

(* Rows keep the columns that say where they hang. *)
LEMMA ShelfRowsStep ==
    ASSUME RowsHang, ShelfRows, NEW r \in Requests, Handle(r)
    PROVE  ShelfRows'
<1> USE TableNames
<1>0. CatalogKnown BY DEF RowsHang
<1>1. CASE Stays BY <1>1 DEF Stays, ShelfRows
<1>2. CASE MakeProject(r)
  <2>1. db'.folder = db.folder /\ db'.test = db.test BY <1>0, <1>2 DEF MakeProject, Insert, CatalogKnown
  <2> QED BY <2>1 DEF ShelfRows, Ids
<1>3. ASSUME NEW t \in Listed, NEW row, Homed(r, t, row) PROVE ShelfRows'
  <2>1. Grown(t, row) BY <1>3 DEF Homed
  <2>2. \A f \in Ids("folder")' : "parent" \in DOMAIN db'.folder[f]
    <3>1. CASE t = "folder" BY <2>1, <3>1, <1>3 DEF Grown, Homed, ShelfRows
    <3>2. CASE t # "folder"
      <4>1. db'.folder = db.folder BY <2>1, <3>2 DEF Grown
      <4> QED BY <4>1 DEF ShelfRows, Ids
    <3> QED BY <3>1, <3>2
  <2>3. \A i \in Ids("test")' : "folder" \in DOMAIN db'.test[i]
    <3>1. CASE t = "test" BY <2>1, <3>1, <1>3 DEF Grown, Homed, ShelfRows
    <3>2. CASE t # "test"
      <4>1. db'.test = db.test BY <2>1, <3>2 DEF Grown
      <4> QED BY <4>1 DEF ShelfRows, Ids
    <3> QED BY <3>1, <3>2
  <2> QED BY <2>2, <2>3 DEF ShelfRows
<1>4. ASSUME NEW ids, NEW up, Update("folder", ids, [parent |-> up]) PROVE ShelfRows'
  <2>1. DOMAIN db = Tables BY <1>0 DEF CatalogKnown
  <2>2. db'.folder = [f \in DOMAIN db.folder |-> IF f \in ids THEN [parent |-> up] ++ db.folder[f] ELSE db.folder[f]]
        /\ db'.test = db.test
    BY <1>4, <2>1 DEF Update
  <2> QED BY <2>2 DEF ShelfRows, Ids, ++
<1>5. ASSUME NEW ids, NEW up, Update("test", ids, [folder |-> up]) PROVE ShelfRows'
  <2>1. DOMAIN db = Tables BY <1>0 DEF CatalogKnown
  <2>2. db'.test = [f \in DOMAIN db.test |-> IF f \in ids THEN [folder |-> up] ++ db.test[f] ELSE db.test[f]]
        /\ db'.folder = db.folder
    BY <1>5, <2>1 DEF Update
  <2> QED BY <2>2 DEF ShelfRows, Ids, ++
<1>6. CASE DeleteFolder(r)
  <2>1. Delete("folder", {Req(r).id}) BY <1>6 DEF DeleteFolder
  <2>2. Shrunk("folder", {Req(r).id}) BY <1>0, <2>1, DeleteShape
  <2> QED BY <2>2 DEF Shrunk, ShelfRows, Ids
<1>7. Shelf(r) BY HandleShelf
<1>8. Files(r) => ShelfRows' BY <1>5 DEF Files
<1>9. PlaceFolder(r) => ShelfRows' BY <1>4 DEF PlaceFolder
<1>10. LiftFolders(r) => ShelfRows' BY <1>4 DEF LiftFolders
<1>11. LiftTests(r) => ShelfRows' BY <1>5 DEF LiftTests
<1> QED BY <1>1, <1>2, <1>3, <1>6, <1>7, <1>8, <1>9, <1>10, <1>11 DEF Shelf

-----------------------------------------------------------------------------
(* What is created belongs to the first project, until two requests that may each
   make one have met. *)
Crowded == \E r, s \in Requests : {Req(r).op, Req(s).op} \subseteq InProject /\ Met(r, s)
Eldest(ps, p) == p \in ps /\ \A q \in ps : p <= q
ListedKnown ==
    ~ Crowded =>
        /\ \A t \in Listed : \A i \in Ids(t) : Eldest(Ids("project"), db[t][i].of)
        /\ \A r \in Requests : Req(r).op \in InProject =>
              /\ call[r].at \in {"makeOrg", "makeProject"} => Ids("project") = {}
              /\ call[r].at = "home" => \A p \in call[r].seen : Eldest(Ids("project"), p)

LEMMA OldestFirst ==
    ASSUME CatalogKnown
    PROVE  /\ Ids("project") # {} => Eldest(Ids("project"), Oldest("project"))
           /\ \A p : Eldest(Ids("project"), p) => p = Oldest("project")
<1>1. Ids("project") \subseteq 1 .. next - 1 BY TableNames DEF CatalogKnown
<1>2. ASSUME Ids("project") # {} PROVE Eldest(Ids("project"), Oldest("project"))
  <2>1. Ids("project") \subseteq Nat BY <1>1
  <2>2. \E x \in Ids("project") : \A y \in Ids("project") : x <= y BY <2>1, <1>2, MinNat
  <2> QED BY <2>2 DEF Oldest, Eldest
<1>3. ASSUME NEW p, Eldest(Ids("project"), p) PROVE p = Oldest("project")
  <2>1. Eldest(Ids("project"), Oldest("project")) BY <1>2, <1>3 DEF Eldest
  <2>2. p \in Int /\ Oldest("project") \in Int BY <1>1, <1>3, <2>1 DEF Eldest
  <2>3. p <= Oldest("project") /\ Oldest("project") <= p BY <1>3, <2>1 DEF Eldest
  <2> QED BY <2>2, <2>3
<1> QED BY <1>2, <1>3

LEMMA HomeGoes ==
    ASSUME RowsHang, NEW r \in Requests, Handle(r), Req(r).op \in InProject,
           call'[r].at \in {"makeOrg", "makeProject", "home"}
    PROVE  \/ Read /\ call'[r].at = "makeOrg" /\ Ids("project") = {}
           \/ Read /\ call'[r].at = "home" /\ Ids("project") # {} /\ call'[r].seen = {Oldest("project")}
           \/ MakeOrg(r) /\ call[r].at = "makeOrg" /\ call'[r].at = "makeProject"
           \/ MakeProject(r) /\ call[r].at = "makeProject" /\ call'[r].at = "home" /\ call'[r].seen = {next}
<1>0. CatalogKnown BY DEF RowsHang
<1>1. Req(r).op \in {"createTest", "createFolder", "createAction", "createFlow", "listFolders"} BY DEF InProject
<1>2. ASSUME NEW place, Go(r, place) PROVE call'[r].at = place BY <1>0, <1>2, Kept
<1>3. ASSUME NEW place, NEW S, GoWith(r, place, [seen |-> S]) PROVE call'[r].at = place /\ call'[r].seen = S
  <2> DEFINE what == [seen |-> S]
  <2>1. DOMAIN what = {"seen"} /\ what["seen"] = S OBVIOUS
  <2>2. GoWith(r, place, what) BY <1>3
  <2> HIDE DEF what
  <2>3. call'[r].at = place /\ \A k \in DOMAIN what : call'[r][k] = what[k] BY <1>0, <2>1, <2>2, Carried
  <2> QED BY <2>1, <2>3
<1>4. ASSUME NEW place, NEW x, GoWith(r, place, [ids |-> x]) PROVE call'[r].at = place
  <2> DEFINE what == [ids |-> x]
  <2>1. DOMAIN what = {"ids"} OBVIOUS
  <2>2. GoWith(r, place, what) BY <1>4
  <2> HIDE DEF what
  <2> QED BY <1>0, <2>1, <2>2, Carried
<1>5. ASSUME Homes(r) PROVE \/ FindProject(r) \/ MakeOrg(r) \/ MakeProject(r) \/ Go(r, "ok") \/ ListFolders(r)
  BY <1>1, <1>5 DEF Homes, FindOrg, At, InOrg, CreateAtHome
<1>6. ASSUME Edits(r) PROVE \/ \E S : GoWith(r, "version", [seen |-> S])
                            \/ \E x : GoWith(r, "current", [ids |-> x])
                            \/ Go(r, "failed") \/ Go(r, "ok")
  BY <1>1, <1>6 DEF Edits, InsertTest, FindTest, RenameTest, ValidateEdit, InsertVersion, SetCurrent, At
<1>7. CASE FindProject(r)
  <2>1. Read BY <1>7 DEF FindProject, Refuse
  <2>2. \/ Go(r, "refused") \/ (Ids("project") = {} /\ Go(r, "makeOrg"))
        \/ (Ids("project") # {} /\ GoWith(r, "home", [seen |-> {Oldest("project")}]))
    BY <1>7 DEF FindProject, Refuse
  <2>3. CASE Ids("project") # {} /\ GoWith(r, "home", [seen |-> {Oldest("project")}])
    <3>1. PICK S : S = {Oldest("project")} OBVIOUS
    <3>2. GoWith(r, "home", [seen |-> S]) BY <3>1, <2>3
    <3> QED BY <3>1, <3>2, <2>1, <2>3, <1>3
  <2> QED BY <2>1, <2>2, <2>3, <1>2
<1>8. CASE MakeOrg(r)
  <2>1. Req(r).op \notin InOrg BY <1>1 DEF InOrg
  <2>2. PICK S : GoWith(r, "makeProject", [seen |-> S]) /\ call[r].at = "makeOrg" BY <1>8, <2>1 DEF MakeOrg, At
  <2> QED BY <2>2, <1>3, <1>8
<1>9. CASE MakeProject(r)
  <2>1. PICK S : S = {next} OBVIOUS
  <2>2. GoWith(r, "home", [seen |-> S]) /\ call[r].at = "makeProject" BY <1>9, <2>1 DEF MakeProject, At
  <2> QED BY <2>1, <2>2, <1>3, <1>9
<1>10. CASE ListFolders(r)
  <2>1. \E S : GoWith(r, "ok", [seen |-> S]) BY <1>10 DEF ListFolders
  <2> QED BY <2>1, <1>3
<1>11. Fails(r) => Go(r, "failed") BY <1>0, <1>1, FailsGoes DEF Fanning
<1>12. Homes(r) \/ Edits(r) \/ Fails(r)
  BY <1>1, HandlerOf DEF Patched, Dropped, Fanning
<1>13. ~ Go(r, "ok") /\ ~ Go(r, "failed") /\ (\A S : ~ GoWith(r, "version", [seen |-> S]))
       /\ \A x : ~ GoWith(r, "current", [ids |-> x])
  BY <1>2, <1>3, <1>4
<1>14. FindProject(r) \/ MakeOrg(r) \/ MakeProject(r) \/ ListFolders(r) BY <1>5, <1>6, <1>11, <1>12, <1>13
<1> QED BY <1>7, <1>8, <1>9, <1>10, <1>14

LEMMA ListedStays ==
    ASSUME RowsHang, ShelfRows, NEW r \in Requests, Handle(r)
    PROVE  \/ MakeProject(r) \/ (\E t \in Listed : \E row : Homed(r, t, row))
           \/ /\ Ids("project")' = Ids("project")
              /\ \A t \in Listed : Ids(t)' \subseteq Ids(t) /\ \A i \in Ids(t)' : db'[t][i].of = db[t][i].of
<1> USE TableNames
<1>0. CatalogKnown /\ RowsKnown BY DEF RowsHang
<1>1. Listed \cup {"project"} \subseteq Tables BY DEF Listed
<1> DEFINE goal == /\ Ids("project")' = Ids("project")
                   /\ \A t \in Listed : Ids(t)' \subseteq Ids(t) /\ \A i \in Ids(t)' : db'[t][i].of = db[t][i].of
<1>2. Still => goal BY <1>1 DEF Still
<1>3. ASSUME NEW t \in {"folder", "test"}, NEW ids, NEW patch, Update(t, ids, patch), "of" \notin DOMAIN patch PROVE goal
  BY <1>0, <1>2, <1>3, UpdateShape
<1>4. ASSUME NEW ids, NEW up, Update("folder", ids, [parent |-> up]) PROVE goal
  <2>1. "of" \notin DOMAIN [parent |-> up] OBVIOUS
  <2> QED BY <2>1, <1>3, <1>4
<1>5. ASSUME NEW ids, NEW up, Update("test", ids, [folder |-> up]) PROVE goal
  <2>1. "of" \notin DOMAIN [folder |-> up] OBVIOUS
  <2> QED BY <2>1, <1>3, <1>5
<1>6. CASE DeleteFolder(r)
  <2>1. Delete("folder", {Req(r).id}) BY <1>6 DEF DeleteFolder
  <2>2. Shrunk("folder", {Req(r).id}) BY <1>0, <2>1, DeleteShape
  <2> QED BY <2>2, <1>1 DEF Shrunk, Ids
<1>7. Shelf(r) BY HandleShelf
<1> QED BY <1>4, <1>5, <1>6, <1>7 DEF Shelf, Stays, Files, PlaceFolder, LiftFolders, LiftTests

LEMMA ListedStep ==
    ASSUME RowsHang, ShelfRows, ListedKnown, NEW r \in Requests, Handle(r)
    PROVE  ListedKnown'
<1>0. CatalogKnown BY DEF RowsHang
<1>1. Requests' = Requests /\ (\A s : Req(s)' = Req(s)) /\ (\A s \in Requests \ {r} : call'[s] = call[s]) /\ ~ Answered(r)
      /\ call'[r].at # "start"
  BY Frame
<1>2. SUFFICES ASSUME ~ Crowded'
               PROVE  /\ \A t \in Listed : \A i \in Ids(t)' : Eldest(Ids("project")', db'[t][i].of)
                      /\ \A s \in Requests : Req(s).op \in InProject =>
                            /\ call'[s].at \in {"makeOrg", "makeProject"} => Ids("project")' = {}
                            /\ call'[s].at = "home" => \A p \in call'[s].seen : Eldest(Ids("project")', p)
  BY <1>1 DEF ListedKnown
<1>3. \A s, u \in Requests : Met(s, u) => Met(s, u)' BY OrderStep
<1>4. ~ Crowded BY <1>1, <1>2, <1>3 DEF Crowded
<1>5. /\ \A t \in Listed : \A i \in Ids(t) : Eldest(Ids("project"), db[t][i].of)
      /\ \A s \in Requests : Req(s).op \in InProject =>
            /\ call[s].at \in {"makeOrg", "makeProject"} => Ids("project") = {}
            /\ call[s].at = "home" => \A p \in call[s].seen : Eldest(Ids("project"), p)
  BY <1>4 DEF ListedKnown
<1>6. ASSUME MakeProject(r) \/ \E t \in Listed : \E row : Homed(r, t, row),
             NEW s \in Requests \ {r}, Req(s).op \in InProject
      PROVE  call'[s].at \notin {"makeOrg", "makeProject", "home"}
  <2> SUFFICES ASSUME call[s].at \in {"makeOrg", "makeProject", "home"} PROVE FALSE BY <1>1
  <2>1. Begun(s) /\ ~ Answered(s) BY DEF Begun, Answered
  <2>2. Req(r).op \in InProject /\ Begun(r) BY <1>6 DEF MakeProject, Homed, At, Begun
  <2>3. Met(r, s) BY <2>1, <2>2, <1>1, MetNow
  <2> QED BY <2>2, <2>3, <1>4, <1>6 DEF Crowded
<1>7. CASE MakeProject(r)
  <2>1. Req(r).op \in InProject /\ call[r].at = "makeProject" BY <1>7 DEF MakeProject, At
  <2>2. Ids("project") = {} BY <2>1, <1>5
  <2>3. PICK org : Insert("project", [of |-> org]) BY <1>7 DEF MakeProject
  <2> DEFINE row == [of |-> org]
  <2>4. Insert("project", row) BY <2>3
  <2> HIDE DEF row
  <2>5. Grown("project", row) BY <2>4, <1>0, InsertShape, TableNames
  <2>6. Ids("project")' = {next} BY <2>2, <2>5 DEF Grown
  <2>7. next <= next BY <1>0 DEF CatalogKnown
  <2>8. PICK n : n = next OBVIOUS
  <2>9. Eldest(Ids("project")', n) BY <2>6, <2>7, <2>8 DEF Eldest
  <2>10. \A t \in Listed : Ids(t) = {} BY <1>5, <2>2 DEF Eldest
  <2>11. Listed \subseteq Tables \ {"project"} BY TableNames DEF Listed
  <2>12. \A t \in Listed : Ids(t)' = {} BY <2>5, <2>10, <2>11 DEF Grown, Ids
  <2>13. call'[r].at \in {"makeOrg", "makeProject", "home"} => call'[r].at = "home" /\ call'[r].seen = {n}
    <3> SUFFICES ASSUME call'[r].at \in {"makeOrg", "makeProject", "home"} PROVE call'[r].at = "home" /\ call'[r].seen = {n}
      OBVIOUS
    <3>1. ~ Read
      <4>1. next' = next + 1 BY <2>5 DEF Grown
      <4> QED BY <4>1, <1>0 DEF Read, CatalogKnown
    <3> QED BY <3>1, <2>1, <2>8, HomeGoes
  <2> QED BY <2>9, <2>12, <2>13, <1>6, <1>7
<1>8. ASSUME NEW t \in Listed, NEW row, Homed(r, t, row)
      PROVE  /\ \A u \in Listed : \A i \in Ids(u)' : Eldest(Ids("project")', db'[u][i].of)
             /\ \A s \in Requests : Req(s).op \in InProject =>
                   /\ call'[s].at \in {"makeOrg", "makeProject"} => Ids("project")' = {}
                   /\ call'[s].at = "home" => \A p \in call'[s].seen : Eldest(Ids("project")', p)
  <2>1. Req(r).op \in InProject /\ call[r].at = "home" /\ Grown(t, row) /\ row.of \in call[r].seen BY <1>8 DEF Homed
  <2>2. Listed \subseteq Tables \ {"project"} /\ "project" \in Tables BY TableNames DEF Listed
  <2>3. db'.project = db.project BY <2>1, <2>2 DEF Grown
  <2>4. Ids("project")' = Ids("project") BY <2>3 DEF Ids
  <2>5. \A p : Eldest(Ids("project"), p) => Eldest(Ids("project")', p) BY <2>4 DEF Eldest
  <2>6. Eldest(Ids("project"), row.of) BY <2>1, <1>5
  <2>7. ASSUME NEW u \in Listed, NEW i \in Ids(u)' PROVE Eldest(Ids("project"), db'[u][i].of)
    <3>1. CASE u = t BY <3>1, <2>1, <2>6, <1>5, <2>7 DEF Grown
    <3>2. CASE u # t BY <3>2, <2>1, <2>2, <1>5, <2>7 DEF Grown, Ids
    <3> QED BY <3>1, <3>2
  <2>8. ASSUME NEW u \in Listed, NEW i \in Ids(u)' PROVE Eldest(Ids("project")', db'[u][i].of)
    BY <2>5, <2>7, <2>8
  <2>9. call'[r].at \notin {"makeOrg", "makeProject", "home"}
    <3> SUFFICES ASSUME call'[r].at \in {"makeOrg", "makeProject", "home"} PROVE FALSE OBVIOUS
    <3>1. ~ Read
      <4>1. next' = next + 1 BY <2>1 DEF Grown
      <4> QED BY <4>1, <1>0 DEF Read, CatalogKnown
    <3> QED BY <3>1, <2>1, HomeGoes
  <2> QED BY <2>8, <2>9, <1>6, <1>8
<1>9. CASE /\ Ids("project")' = Ids("project")
           /\ \A t \in Listed : Ids(t)' \subseteq Ids(t) /\ \A i \in Ids(t)' : db'[t][i].of = db[t][i].of
           /\ ~ MakeProject(r)
  <2>1. \A p : Eldest(Ids("project"), p) => Eldest(Ids("project")', p) BY <1>9 DEF Eldest
  <2>2. ASSUME NEW t \in Listed, NEW i \in Ids(t)' PROVE Eldest(Ids("project")', db'[t][i].of)
    BY <2>1, <2>2, <1>5, <1>9
  <2>3. ASSUME NEW s \in Requests \ {r}, Req(s).op \in InProject
        PROVE  /\ call'[s].at \in {"makeOrg", "makeProject"} => Ids("project")' = {}
               /\ call'[s].at = "home" => \A p \in call'[s].seen : Eldest(Ids("project")', p)
    BY <2>1, <2>3, <1>1, <1>5, <1>9
  <2>4. ASSUME Req(r).op \in InProject, call'[r].at \in {"makeOrg", "makeProject", "home"}
        PROVE  /\ call'[r].at \in {"makeOrg", "makeProject"} => Ids("project")' = {}
               /\ call'[r].at = "home" => \A p \in call'[r].seen : Eldest(Ids("project")', p)
    <3>1. CASE call'[r].at = "home" /\ Ids("project") # {} /\ call'[r].seen = {Oldest("project")}
      <4>1. Eldest(Ids("project"), Oldest("project")) BY <3>1, <1>0, OldestFirst
      <4>2. PICK p : p = Oldest("project") OBVIOUS
      <4>3. Eldest(Ids("project")', p) BY <4>1, <4>2, <2>1
      <4> QED BY <3>1, <4>2, <4>3
    <3>2. CASE call'[r].at = "makeOrg" /\ Ids("project") = {} BY <3>2, <1>9
    <3>3. CASE call[r].at = "makeOrg" /\ call'[r].at = "makeProject" BY <3>3, <2>4, <1>5, <1>9
    <3> QED BY <3>1, <3>2, <3>3, <2>4, <1>9, HomeGoes
  <2> QED BY <2>2, <2>3, <2>4
<1> QED BY <1>7, <1>8, <1>9, ListedStays

-----------------------------------------------------------------------------
(* The folders stay a tree and the tests on it until two reorganisations have met
   or something has been filed where a folder goes. *)
Reorganising == {"moveFolder", "removeFolder"}
FiledLate(r, s) ==
    Req(s).op = "removeFolder" /\ FilesInto(Req(r)) = Req(s).id /\ Begun(s) /\ << r, s >> \notin before
Upset == \E r, s \in Requests : ({Req(r).op, Req(s).op} \subseteq Reorganising /\ Met(r, s)) \/ FiledLate(r, s)

FoldersLeft ==  \* a folder that there was is there until its removal has begun
    \A f \in DOMAIN work.db.folder \ Ids("folder") :
        \E s \in Requests : Req(s).op = "removeFolder" /\ Req(s).id = f /\ Begun(s)
Filed(folders, tests) == \A i \in DOMAIN tests : tests[i].folder \in DOMAIN folders \cup {0}
(* What a handler that moves or removes a folder knows where it is. *)
TreeHeld(q, c, folders, tests) ==
    /\ q.op = "moveFolder" /\ c.at = "place" =>
          q.parent = 0 \/ q.id \notin DOMAIN folders \/ q.id \notin Above(folders, q.parent)
    /\ q.op = "removeFolder" /\ c.at \in {"folders", "tests", "delete"} =>
          /\ q.id \in DOMAIN folders /\ c.seen = {folders[q.id].parent}
          /\ c.at \in {"tests", "delete"} => \A f \in DOMAIN folders : folders[f].parent # q.id
          /\ c.at = "delete" => \A i \in DOMAIN tests : tests[i].folder # q.id
TreeKnown ==
    ~ Upset =>
        /\ Tree(db.folder) /\ Filed(db.folder, db.test)
        /\ \A r \in Requests : TreeHeld(Req(r), call[r], db.folder, db.test)

LEMMA TreeFacts ==
    ASSUME CatalogKnown
    PROVE  /\ \A f \in DOMAIN work.db.folder : "parent" \in DOMAIN work.db.folder[f] /\ OnTheTree(work.db.folder, f)
           /\ \A t \in DOMAIN work.db.test :
                 "folder" \in DOMAIN work.db.test[t] /\ work.db.test[t].folder \in DOMAIN work.db.folder \cup {0}
           /\ \A t \in Listed : \A i \in DOMAIN work.db[t] : \A p \in DOMAIN work.db.project : work.db[t][i].of <= p
           /\ \A r \in Requests : FilesInto(Req(r)) \in DOMAIN work.db.folder \cup {0}
<1>1. PICK w \in Workloads, enforced \in BOOLEAN : work = [enforced |-> enforced] ++ w BY DEF CatalogKnown
<1>2. work.db = w.db /\ work.requests = w.requests BY <1>1, WorkKnown
<1> QED BY <1>2, TreesAssumption DEF Requests, Req

LEMMA MetNext ==
    ASSUME RowsHang, NEW r \in Requests, Handle(r), NEW s \in Requests \ {r}, Begun(s), ~ Answered(s)
    PROVE  Met(r, s)'
<1>0. OrderKnown BY DEF RowsHang
<1>1. /\ Requests' = Requests /\ call'[s] = call[s] /\ call'[r].at # "start" /\ ~ Answered(r)
      /\ before' = IF call[r].at = "start" THEN before \cup {<< u, r >> : u \in {u \in Requests : Answered(u)}} ELSE before
  BY Frame
<1>2. << r, s >> \notin before /\ << s, r >> \notin before BY <1>0, <1>1 DEF OrderKnown
<1>3. << r, s >> \notin before' /\ << s, r >> \notin before' BY <1>1, <1>2
<1> QED BY <1>1, <1>3 DEF Met, Overlap, Begun

LEMMA UpsetStays ==
    ASSUME RowsHang, NEW r \in Requests, Handle(r), ~ Upset'
    PROVE  /\ ~ Upset
           /\ Req(r).op \in Reorganising =>
                 \A s \in Requests \ {r} : Req(s).op \in Reorganising => ~ Begun(s) \/ Answered(s)
<1>1. /\ Requests' = Requests /\ (\A s : Req(s)' = Req(s)) /\ call'[r].at # "start"
      /\ before' = IF call[r].at = "start" THEN before \cup {<< s, r >> : s \in {s \in Requests : Answered(s)}} ELSE before
  BY Frame
<1>2. \A s, u \in Requests : Met(s, u) => Met(s, u)' BY OrderStep
<1>3. ASSUME NEW s \in Requests, NEW u \in Requests, FiledLate(s, u) PROVE FiledLate(s, u)'
  <2>1. Begun(u) => Begun(u)' BY OrderStep
  <2>2. << s, u >> \notin before' BY <1>1, <1>3 DEF FiledLate, Begun
  <2> QED BY <2>1, <2>2, <1>1, <1>3 DEF FiledLate
<1>4. ~ Upset BY <1>1, <1>2, <1>3 DEF Upset
<1>5. ASSUME Req(r).op \in Reorganising, NEW s \in Requests \ {r}, Req(s).op \in Reorganising, Begun(s), ~ Answered(s)
      PROVE  FALSE
  <2>1. Met(r, s)' BY <1>5, MetNext
  <2> QED BY <2>1, <1>1, <1>5 DEF Upset
<1> QED BY <1>4, <1>5

(* What is filed now goes to a folder that is there and that nobody removes. *)
LEMMA FilesThere ==
    ASSUME RowsHang, FoldersLeft, ~ Upset, NEW r \in Requests, ~ Answered(r)
    PROVE  /\ FilesInto(Req(r)) \in Ids("folder") \cup {0}
           /\ \A s \in Requests : Req(s).op = "removeFolder" /\ Begun(s) => FilesInto(Req(r)) # Req(s).id
<1>0. CatalogKnown /\ OrderKnown BY DEF RowsHang
<1>1. FilesInto(Req(r)) \in DOMAIN work.db.folder \cup {0} BY <1>0, TreeFacts
<1>2. ASSUME NEW s \in Requests, Req(s).op = "removeFolder", Begun(s) PROVE FilesInto(Req(r)) # Req(s).id
  <2>1. << r, s >> \notin before BY <1>0 DEF OrderKnown
  <2> QED BY <2>1, <1>2 DEF Upset, FiledLate
<1> QED BY <1>1, <1>2 DEF FoldersLeft

LEMMA FolderUpdates ==
    ASSUME CatalogKnown, NEW ids, NEW up, Update("folder", ids, [parent |-> up])
    PROVE  /\ DOMAIN db'.folder = DOMAIN db.folder /\ db'.test = db.test
           /\ \A f \in DOMAIN db.folder : db'.folder[f].parent = IF f \in ids THEN up ELSE db.folder[f].parent
<1>1. DOMAIN db = Tables BY DEF CatalogKnown
<1>2. db'.folder = [f \in DOMAIN db.folder |-> IF f \in ids THEN [parent |-> up] ++ db.folder[f] ELSE db.folder[f]]
      /\ db'.test = db.test
  BY <1>1, TableNames DEF Update
<1>3. "parent" \in DOMAIN [parent |-> up] OBVIOUS
<1> QED BY <1>2, <1>3 DEF ++

LEMMA TestUpdates ==
    ASSUME CatalogKnown, NEW ids, NEW up, Update("test", ids, [folder |-> up])
    PROVE  /\ DOMAIN db'.test = DOMAIN db.test /\ db'.folder = db.folder
           /\ \A i \in DOMAIN db.test : db'.test[i].folder = IF i \in ids THEN up ELSE db.test[i].folder
<1>1. DOMAIN db = Tables BY DEF CatalogKnown
<1>2. db'.test = [f \in DOMAIN db.test |-> IF f \in ids THEN [folder |-> up] ++ db.test[f] ELSE db.test[f]]
      /\ db'.folder = db.folder
  BY <1>1, TableNames DEF Update
<1>3. "folder" \in DOMAIN [folder |-> up] OBVIOUS
<1> QED BY <1>2, <1>3 DEF ++

LEMMA FoldersLeftStep ==
    ASSUME RowsHang, ShelfRows, FoldersLeft, NEW r \in Requests, Handle(r)
    PROVE  FoldersLeft'
<1>0. CatalogKnown BY DEF RowsHang
<1>1. work' = work /\ Requests' = Requests /\ (\A s : Req(s)' = Req(s)) /\ call'[r].at # "start" BY Frame
<1>2. \A s \in Requests : Begun(s) => Begun(s)' BY OrderStep
<1>3. ASSUME Ids("folder") \subseteq Ids("folder")' PROVE FoldersLeft'
  <2> SUFFICES ASSUME NEW f \in DOMAIN work.db.folder \ Ids("folder")'
               PROVE  \E s \in Requests : Req(s).op = "removeFolder" /\ Req(s).id = f /\ Begun(s)'
    BY <1>1 DEF FoldersLeft
  <2>1. PICK s \in Requests : Req(s).op = "removeFolder" /\ Req(s).id = f /\ Begun(s) BY <1>3 DEF FoldersLeft
  <2> QED BY <2>1, <1>2
<1>4. CASE Stays BY <1>3, <1>4 DEF Stays, SameAbove, Ids
<1>5. ASSUME NEW t \in Tables \ {"folder"}, NEW row, Grown(t, row) PROVE Ids("folder") \subseteq Ids("folder")'
  BY <1>5, TableNames DEF Grown, Ids
<1>6. CASE MakeProject(r)
  <2>1. PICK org : Insert("project", [of |-> org]) BY <1>6 DEF MakeProject
  <2> DEFINE row == [of |-> org]
  <2>2. Insert("project", row) BY <2>1
  <2> HIDE DEF row
  <2>3. Grown("project", row) BY <2>2, <1>0, InsertShape, TableNames
  <2> QED BY <2>3, <1>3, <1>5, TableNames
<1>7. ASSUME NEW t \in Listed, NEW row, Homed(r, t, row) PROVE FoldersLeft'
  <2>1. Grown(t, row) /\ t \in Tables BY <1>7, TableNames DEF Homed, Listed
  <2>2. t = "folder" => Ids("folder") \subseteq Ids("folder")' BY <2>1 DEF Grown
  <2> QED BY <2>1, <2>2, <1>3, <1>5
<1>8. ASSUME NEW ids, NEW up, Update("folder", ids, [parent |-> up]) PROVE FoldersLeft'
  BY <1>0, <1>3, <1>8, FolderUpdates DEF Ids
<1>9. ASSUME NEW ids, NEW up, Update("test", ids, [folder |-> up]) PROVE FoldersLeft'
  BY <1>0, <1>3, <1>9, TestUpdates DEF Ids
<1>10. CASE DeleteFolder(r)
  <2>1. Req(r).op = "removeFolder" /\ Delete("folder", {Req(r).id}) BY <1>10 DEF DeleteFolder, At
  <2>2. Ids("folder")' = Ids("folder") \ {Req(r).id} BY <2>1, <1>0, DeleteShape, TableNames DEF Shrunk
  <2>3. Begun(r)' BY <1>1 DEF Begun
  <2> SUFFICES ASSUME NEW f \in DOMAIN work.db.folder \ Ids("folder")'
               PROVE  \E s \in Requests : Req(s).op = "removeFolder" /\ Req(s).id = f /\ Begun(s)'
    BY <1>1 DEF FoldersLeft
  <2>4. CASE f = Req(r).id BY <2>1, <2>3, <2>4
  <2>5. CASE f # Req(r).id
    <3>1. PICK s \in Requests : Req(s).op = "removeFolder" /\ Req(s).id = f /\ Begun(s) BY <2>2, <2>5 DEF FoldersLeft
    <3> QED BY <3>1, <1>2
  <2> QED BY <2>4, <2>5
<1>11. Shelf(r) BY HandleShelf
<1> QED BY <1>4, <1>6, <1>7, <1>8, <1>9, <1>10, <1>11 DEF Shelf, Files, PlaceFolder, LiftFolders, LiftTests

(* No folder and no test is number 0. *)
LEMMA NoneIsZero ==
    ASSUME CatalogKnown
    PROVE  0 \notin Ids("folder") /\ 0 \notin Ids("test") /\ next \notin Ids("folder") /\ next # 0
<1>1. Ids("folder") \subseteq 1 .. next - 1 /\ Ids("test") \subseteq 1 .. next - 1 BY TableNames DEF CatalogKnown
<1>2. next \in Nat /\ 1 <= next BY FirstFreePositive
<1> QED BY <1>1, <1>2

(* A handler that does not reorganise leaves the tree a tree, and the others what
   they know of it. *)
LEMMA TreeBeside ==
    ASSUME RowsHang, ShelfRows, FoldersLeft, ~ Upset, NEW r \in Requests, Handle(r),
           Req(r).op \notin Reorganising, Tree(db.folder), Filed(db.folder, db.test)
    PROVE  /\ Tree(db'.folder) /\ Filed(db'.folder, db'.test)
           /\ \A s \in Requests : Begun(s) /\ ~ Answered(s) /\ TreeHeld(Req(s), call[s], db.folder, db.test)
                                  => TreeHeld(Req(s), call[s], db'.folder, db'.test)
<1>0. CatalogKnown BY DEF RowsHang
<1>1. ~ Answered(r) BY Frame
<1>2. FilesInto(Req(r)) \in Ids("folder") \cup {0}
      /\ \A s \in Requests : Req(s).op = "removeFolder" /\ Begun(s) => FilesInto(Req(r)) # Req(s).id
  BY <1>1, FilesThere
<1>3. 0 \notin Ids("folder") /\ 0 \notin Ids("test") /\ next \notin Ids("folder") /\ next # 0 BY <1>0, NoneIsZero
<1> DEFINE goal == /\ Tree(db'.folder) /\ Filed(db'.folder, db'.test)
                   /\ \A s \in Requests : Begun(s) /\ ~ Answered(s) /\ TreeHeld(Req(s), call[s], db.folder, db.test)
                                  => TreeHeld(Req(s), call[s], db'.folder, db'.test)
<1>4. ASSUME SameAbove(db.folder, db'.folder),
             \A i \in DOMAIN db'.test : \/ i \in DOMAIN db.test /\ db'.test[i].folder = db.test[i].folder
                                        \/ db'.test[i].folder \in {0, FilesInto(Req(r))}
      PROVE  goal
  <2>1. Tree(db'.folder) /\ \A f : Above(db'.folder, f) = Above(db.folder, f) BY <1>4, SameTree
  <2>2. DOMAIN db'.folder = DOMAIN db.folder /\ \A f \in DOMAIN db.folder : db'.folder[f].parent = db.folder[f].parent
    BY <1>4 DEF SameAbove
  <2>3. Filed(db'.folder, db'.test) BY <1>2, <1>4, <2>2 DEF Filed, Ids
  <2>4. ASSUME NEW s \in Requests, Begun(s), TreeHeld(Req(s), call[s], db.folder, db.test)
        PROVE  TreeHeld(Req(s), call[s], db'.folder, db'.test)
    <3>1. ASSUME Req(s).op = "removeFolder", call[s].at = "delete", NEW i \in DOMAIN db'.test
          PROVE  db'.test[i].folder # Req(s).id
      <4>1. Req(s).id \in Ids("folder") /\ \A j \in DOMAIN db.test : db.test[j].folder # Req(s).id
        BY <2>4, <3>1 DEF TreeHeld, Ids
      <4> QED BY <4>1, <3>1, <1>2, <1>3, <1>4, <2>4
    <3> QED BY <2>1, <2>2, <2>4, <3>1 DEF TreeHeld
  <2> QED BY <2>1, <2>3, <2>4
<1>5. ASSUME NEW row, Homed(r, "folder", row) PROVE goal
  <2>1. Req(r).op = "createFolder" /\ Grown("folder", row) /\ row.parent = Req(r).parent BY <1>5 DEF Homed
  <2>2. FilesInto(Req(r)) = row.parent BY <2>1 DEF FilesInto
  <2>3. db'.test = db.test BY <2>1, TableNames DEF Grown
  <2>4. Adds(db.folder, db'.folder, next, row.parent) BY <1>3, <2>1 DEF Grown, Adds, Ids
  <2>5. row.parent \in DOMAIN db.folder \cup {0} BY <1>2, <2>2 DEF Ids
  <2>6. /\ Tree(db'.folder) /\ \A f \in DOMAIN db.folder \cup {0} : Above(db'.folder, f) = Above(db.folder, f)
    BY <1>3, <2>4, <2>5, TreeAdds
  <2>7. DOMAIN db'.folder = DOMAIN db.folder \cup {next} /\ db'.folder[next].parent = row.parent
        /\ next \notin DOMAIN db.folder /\ \A f \in DOMAIN db.folder : db'.folder[f].parent = db.folder[f].parent
    BY <2>4 DEF Adds
  <2>8. Filed(db'.folder, db'.test) BY <2>3, <2>7 DEF Filed
  <2>9. ASSUME NEW s \in Requests, Begun(s), ~ Answered(s), TreeHeld(Req(s), call[s], db.folder, db.test)
        PROVE  TreeHeld(Req(s), call[s], db'.folder, db'.test)
    <3>1. CASE Req(s).op = "moveFolder" /\ call[s].at = "place"
      <4>1. FilesInto(Req(s)) \in Ids("folder") \cup {0} BY <2>9, FilesThere
      <4>2. Req(s).parent \in DOMAIN db.folder \cup {0} BY <4>1, <3>1 DEF FilesInto, Ids
      <4>3. Above(db'.folder, Req(s).parent) = Above(db.folder, Req(s).parent) BY <4>2, <2>6
      <4>4. Req(s).id # next
        <5>1. Req(s).id < FirstFree /\ FirstFree <= next /\ Req(s).id \in Nat /\ FirstFree \in Nat /\ next \in Nat
          BY <1>0, <3>1, FirstFreePositive DEF NamesNoRow
        <5> QED BY <5>1
      <4>5. Req(s).parent = 0 \/ Req(s).id \notin DOMAIN db.folder \/ Req(s).id \notin Above(db.folder, Req(s).parent)
        BY <2>9, <3>1 DEF TreeHeld
      <4> QED BY <3>1, <4>3, <4>4, <4>5, <2>7 DEF TreeHeld
    <3>2. CASE Req(s).op = "removeFolder" /\ call[s].at \in {"folders", "tests", "delete"}
      <4>1. row.parent # Req(s).id BY <1>2, <2>2, <2>9, <3>2
      <4>2. /\ Req(s).id \in DOMAIN db.folder /\ call[s].seen = {db.folder[Req(s).id].parent}
            /\ call[s].at \in {"tests", "delete"} => \A f \in DOMAIN db.folder : db.folder[f].parent # Req(s).id
            /\ call[s].at = "delete" => \A i \in DOMAIN db.test : db.test[i].folder # Req(s).id
        BY <2>9, <3>2 DEF TreeHeld
      <4>3. \A f \in DOMAIN db'.folder : db'.folder[f].parent = IF f = next THEN row.parent ELSE db.folder[f].parent
        BY <2>7
      <4>4. Req(s).id \in DOMAIN db'.folder /\ call[s].seen = {db'.folder[Req(s).id].parent} BY <4>2, <2>7
      <4>5. call[s].at \in {"tests", "delete"} => \A f \in DOMAIN db'.folder : db'.folder[f].parent # Req(s).id
        BY <4>1, <4>2, <4>3, <2>7
      <4> QED BY <3>2, <4>2, <4>4, <4>5, <2>3 DEF TreeHeld
    <3>3. CASE /\ ~ (Req(s).op = "moveFolder" /\ call[s].at = "place")
               /\ ~ (Req(s).op = "removeFolder" /\ call[s].at \in {"folders", "tests", "delete"})
      BY <3>3 DEF TreeHeld
    <3> QED BY <3>1, <3>2, <3>3
  <2> QED BY <2>6, <2>8, <2>9
<1>6. CASE Stays
  <2>1. "test" \in Listed BY DEF Listed
  <2>2. \A i \in DOMAIN db'.test : i \in DOMAIN db.test /\ db'.test[i].folder = db.test[i].folder
    BY <2>1, <1>6 DEF Stays, Ids
  <2>3. SameAbove(db.folder, db'.folder) BY <1>6 DEF Stays
  <2> QED BY <2>2, <2>3, <1>4
<1>7. ASSUME NEW t \in Tables \ {"folder"}, NEW row, Grown(t, row), t = "test" => row.folder = 0 PROVE goal
  <2>1. db'.folder = db.folder BY <1>7, TableNames DEF Grown
  <2>2. SameAbove(db.folder, db'.folder) BY <2>1 DEF SameAbove
  <2>3. ASSUME NEW i \in DOMAIN db'.test
        PROVE  (i \in DOMAIN db.test /\ db'.test[i].folder = db.test[i].folder) \/ db'.test[i].folder = 0
    <3>1. CASE t = "test" BY <3>1, <1>7, <2>3 DEF Grown, Ids
    <3>2. CASE t # "test"
      <4>1. db'.test = db.test BY <3>2, <1>7, TableNames DEF Grown
      <4> QED BY <4>1, <2>3
    <3> QED BY <3>1, <3>2
  <2> QED BY <2>2, <2>3, <1>4
<1>8. CASE MakeProject(r)
  <2>1. PICK org : Insert("project", [of |-> org]) BY <1>8 DEF MakeProject
  <2> DEFINE row == [of |-> org]
  <2>2. Insert("project", row) BY <2>1
  <2> HIDE DEF row
  <2>3. Grown("project", row) BY <2>2, <1>0, InsertShape, TableNames
  <2> QED BY <2>3, <1>7, TableNames
<1>9. ASSUME NEW t \in Listed \ {"folder"}, NEW row, Homed(r, t, row) PROVE goal
  <2>1. t \in Tables \ {"folder"} BY TableNames DEF Listed
  <2>2. Grown(t, row) /\ (t = "test" => row.folder = 0) BY <1>9 DEF Homed
  <2> HIDE DEF goal
  <2> QED BY <2>1, <2>2, <1>7
<1>10. CASE Files(r)
  <2>1. Update("test", {Req(r).id}, [folder |-> Req(r).folder]) /\ FilesInto(Req(r)) = Req(r).folder
    BY <1>10 DEF Files, FilesInto
  <2>2. PICK up : up = Req(r).folder OBVIOUS
  <2>3. Update("test", {Req(r).id}, [folder |-> up]) BY <2>1, <2>2
  <2>4. /\ DOMAIN db'.test = DOMAIN db.test /\ db'.folder = db.folder
        /\ \A i \in DOMAIN db.test : db'.test[i].folder = IF i \in {Req(r).id} THEN up ELSE db.test[i].folder
    BY <1>0, <2>3, TestUpdates
  <2>5. SameAbove(db.folder, db'.folder) BY <2>4 DEF SameAbove
  <2> QED BY <2>1, <2>2, <2>4, <2>5, <1>4
<1>11. Shelf(r) BY HandleShelf
<1>12. ~ PlaceFolder(r) /\ ~ LiftFolders(r) /\ ~ LiftTests(r) /\ ~ DeleteFolder(r)
  BY DEF Reorganising, PlaceFolder, LiftFolders, LiftTests, DeleteFolder, At
<1>13. ASSUME NEW t \in Listed, NEW row, Homed(r, t, row) PROVE goal
  <2>1. CASE t = "folder"
    <3>1. Homed(r, "folder", row) BY <2>1, <1>13
    <3> QED BY <3>1, <1>5
  <2>2. CASE t # "folder" BY <2>2, <1>9, <1>13
  <2> QED BY <2>1, <2>2
<1>14. Stays \/ MakeProject(r) \/ Files(r) \/ \E t \in Listed : \E row : Homed(r, t, row) BY <1>11, <1>12 DEF Shelf
<1> QED BY <1>6, <1>8, <1>10, <1>13, <1>14

(* A handler that reorganises alone leaves a tree, and knows where it is in it. *)
LEMMA TreeGoes ==
    ASSUME RowsHang, FoldersLeft, ~ Upset, NEW r \in Requests, Handle(r),
           Req(r).op \in Reorganising, Tree(db.folder), Filed(db.folder, db.test),
           TreeHeld(Req(r), call[r], db.folder, db.test)
    PROVE  /\ Tree(db'.folder) /\ Filed(db'.folder, db'.test)
           /\ TreeHeld(Req(r), call'[r], db'.folder, db'.test)
<1>0. CatalogKnown BY DEF RowsHang
<1>1. ~ Answered(r) BY Frame
<1> DEFINE id == Req(r).id
<1>2. Req(r).op = "moveFolder" => Req(r).parent \in DOMAIN db.folder \cup {0}
  <2>1. FilesInto(Req(r)) \in Ids("folder") \cup {0} BY <1>1, FilesThere
  <2> QED BY <2>1 DEF FilesInto, Ids
<1>3. 0 \notin Ids("folder") BY <1>0, NoneIsZero
<1>4. ASSUME NEW place, Go(r, place) PROVE call'[r].at = place /\ call'[r].seen = call[r].seen
  BY <1>0, <1>4, Kept
<1>5. CASE Read /\ \E place \in {"refused", "ok", "failed"} : Go(r, place)
  <2>1. db' = db BY <1>5 DEF Read
  <2>2. call'[r].at \in {"refused", "ok", "failed"} BY <1>4, <1>5
  <2> QED BY <2>1, <2>2 DEF TreeHeld
<1>6. CASE CheckMove(r)
  <2>1. Read /\ Req(r).op = "moveFolder" BY <1>6 DEF CheckMove, At
  <2>2. \/ Go(r, "refused")
        \/ Go(r, "place") /\ (Req(r).parent = 0 \/ id \notin Above(db.folder, Req(r).parent) \ {0})
    BY <1>6 DEF CheckMove
  <2>3. CASE Go(r, "place") /\ (Req(r).parent = 0 \/ id \notin Above(db.folder, Req(r).parent) \ {0})
    <3>1. db' = db /\ call'[r].at = "place" BY <2>1, <2>3, <1>4 DEF Read
    <3>2. Req(r).parent = 0 \/ id \notin DOMAIN db.folder \/ id \notin Above(db.folder, Req(r).parent)
      BY <2>3, <1>3 DEF Ids
    <3> QED BY <3>1, <3>2, <2>1 DEF TreeHeld
  <2> QED BY <2>1, <2>2, <2>3, <1>5
<1>7. CASE PlaceFolder(r)
  <2>1. Req(r).op = "moveFolder" /\ call[r].at = "place" /\ Go(r, "ok") BY <1>7 DEF PlaceFolder, At
  <2>2. PICK up : up = Req(r).parent OBVIOUS
  <2>3. Update("folder", {id}, [parent |-> up]) BY <1>7, <2>2 DEF PlaceFolder
  <2>4. /\ DOMAIN db'.folder = DOMAIN db.folder /\ db'.test = db.test
        /\ \A f \in DOMAIN db.folder : db'.folder[f].parent = IF f \in {id} THEN up ELSE db.folder[f].parent
    BY <1>0, <2>3, FolderUpdates
  <2>5. Places(db.folder, db'.folder, id, up) BY <2>4 DEF Places
  <2>6. up = 0 \/ id \notin DOMAIN db.folder \/ id \notin Above(db.folder, up) BY <2>1, <2>2 DEF TreeHeld
  <2>7. up \in DOMAIN db.folder \cup {0} BY <1>2, <2>1, <2>2
  <2>8. Tree(db'.folder) BY <2>5, <2>6, <2>7, TreePlaces
  <2>9. call'[r].at = "ok" BY <2>1, <1>4
  <2> QED BY <2>4, <2>8, <2>9 DEF Filed, TreeHeld
<1>8. CASE FindFolder(r)
  <2>1. Read /\ Req(r).op = "removeFolder" BY <1>8 DEF FindFolder, At
  <2>2. Go(r, "ok") \/ (id \in Ids("folder") /\ \E S : S = {db.folder[id].parent} /\ GoWith(r, "folders", [seen |-> S]))
    BY <1>8 DEF FindFolder
  <2>3. CASE id \in Ids("folder") /\ \E S : S = {db.folder[id].parent} /\ GoWith(r, "folders", [seen |-> S])
    <3>1. PICK S : S = {db.folder[id].parent} /\ GoWith(r, "folders", [seen |-> S]) BY <2>3
    <3> DEFINE what == [seen |-> S]
    <3>2. DOMAIN what = {"seen"} /\ what["seen"] = S /\ GoWith(r, "folders", what) BY <3>1
    <3> HIDE DEF what
    <3>3. call'[r].at = "folders" /\ call'[r].seen = S BY <1>0, <3>2, Carried
    <3>4. db' = db BY <2>1 DEF Read
    <3> QED BY <3>1, <3>3, <3>4, <2>1, <2>3 DEF TreeHeld, Ids
  <2> QED BY <2>1, <2>2, <2>3, <1>5
<1>9. CASE LiftFolders(r)
  <2>1. Req(r).op = "removeFolder" /\ call[r].at = "folders" /\ Go(r, "tests") BY <1>9 DEF LiftFolders, At
  <2>2. id \in DOMAIN db.folder /\ call[r].seen = {db.folder[id].parent} BY <2>1 DEF TreeHeld
  <2>3. PICK up : up = db.folder[id].parent OBVIOUS
  <2>4. PICK ids : ids = Select("folder", "parent", {id}) OBVIOUS
  <2>5. Update("folder", ids, [parent |-> up]) BY <1>9, <2>2, <2>3, <2>4 DEF LiftFolders
  <2>6. /\ DOMAIN db'.folder = DOMAIN db.folder /\ db'.test = db.test
        /\ \A f \in DOMAIN db.folder : db'.folder[f].parent = IF f \in ids THEN up ELSE db.folder[f].parent
    BY <1>0, <2>5, FolderUpdates
  <2>7. Lifts(db.folder, db'.folder, id, up) BY <2>4, <2>6 DEF Lifts, Select, Ids
  <2>8. /\ Tree(db'.folder) /\ db'.folder[id].parent = up
        /\ \A f \in DOMAIN db'.folder : db'.folder[f].parent # id
    BY <2>2, <2>3, <2>7, TreeLifts
  <2>9. call'[r].at = "tests" /\ call'[r].seen = call[r].seen BY <2>1, <1>4
  <2> QED BY <2>1, <2>2, <2>3, <2>6, <2>8, <2>9 DEF Filed, TreeHeld
<1>10. CASE LiftTests(r)
  <2>1. Req(r).op = "removeFolder" /\ call[r].at = "tests" /\ Go(r, "delete") BY <1>10 DEF LiftTests, At
  <2>2. id \in DOMAIN db.folder /\ call[r].seen = {db.folder[id].parent}
        /\ \A f \in DOMAIN db.folder : db.folder[f].parent # id
    BY <2>1 DEF TreeHeld
  <2>3. PICK up : up = db.folder[id].parent OBVIOUS
  <2>4. PICK ids : ids = Select("test", "folder", {id}) OBVIOUS
  <2>5. Update("test", ids, [folder |-> up]) BY <1>10, <2>2, <2>3, <2>4 DEF LiftTests
  <2>6. /\ DOMAIN db'.test = DOMAIN db.test /\ db'.folder = db.folder
        /\ \A i \in DOMAIN db.test : db'.test[i].folder = IF i \in ids THEN up ELSE db.test[i].folder
    BY <1>0, <2>5, TestUpdates
  <2>7. up \in DOMAIN db.folder \cup {0} /\ up # id BY <2>2, <2>3, ParentThere
  <2>8. \A i \in DOMAIN db'.test : db'.test[i].folder # id BY <2>4, <2>6, <2>7 DEF Select, Ids
  <2>9. Filed(db'.folder, db'.test) BY <2>6, <2>7 DEF Filed
  <2>10. call'[r].at = "delete" /\ call'[r].seen = call[r].seen BY <2>1, <1>4
  <2> QED BY <2>1, <2>2, <2>6, <2>8, <2>9, <2>10 DEF TreeHeld
<1>11. CASE DeleteFolder(r)
  <2>1. Req(r).op = "removeFolder" /\ call[r].at = "delete" /\ Go(r, "ok") /\ Delete("folder", {id})
    BY <1>11 DEF DeleteFolder, At
  <2>2. (\A f \in DOMAIN db.folder : db.folder[f].parent # id) /\ \A i \in DOMAIN db.test : db.test[i].folder # id
    BY <2>1 DEF TreeHeld
  <2>3. Shrunk("folder", {id}) BY <1>0, <2>1, DeleteShape, TableNames
  <2>4. DOMAIN db'.folder = DOMAIN db.folder \ {id} /\ (\A f \in DOMAIN db'.folder : db'.folder[f] = db.folder[f])
        /\ db'.test = db.test
    BY <2>3, TableNames DEF Shrunk, Ids
  <2>5. Drops(db.folder, db'.folder, id) BY <2>4 DEF Drops
  <2>6. Tree(db'.folder) BY <2>2, <2>5, TreeDrops
  <2>7. Filed(db'.folder, db'.test) BY <2>2, <2>4 DEF Filed
  <2>8. call'[r].at = "ok" BY <2>1, <1>4
  <2> QED BY <2>6, <2>7, <2>8 DEF TreeHeld
<1>12. CASE Fails(r)
  <2>1. Read /\ Go(r, "failed") BY <1>0, <1>12, FailsGoes DEF Reorganising, Fanning
  <2> QED BY <2>1, <1>5
<1>13. Folders(r) \/ Fails(r) BY HandlerOf DEF Reorganising, InProject, InOrg, Patched, Dropped, Fanning
<1> QED BY <1>6, <1>7, <1>8, <1>9, <1>10, <1>11, <1>12, <1>13 DEF Folders

LEMMA TreeStep ==
    ASSUME RowsHang, ShelfRows, FoldersLeft, TreeKnown, NEW r \in Requests, Handle(r)
    PROVE  TreeKnown'
<1>1. /\ Requests' = Requests /\ (\A s : Req(s)' = Req(s)) /\ (\A s \in Requests \ {r} : call'[s] = call[s]) /\ ~ Answered(r)
      /\ call'[r].at # "start"
  BY Frame
<1>2. SUFFICES ASSUME ~ Upset'
               PROVE  /\ Tree(db'.folder) /\ Filed(db'.folder, db'.test)
                      /\ \A s \in Requests : TreeHeld(Req(s), call'[s], db'.folder, db'.test)
  BY <1>1 DEF TreeKnown
<1>3. /\ ~ Upset
      /\ Req(r).op \in Reorganising =>
            \A s \in Requests \ {r} : Req(s).op \in Reorganising => ~ Begun(s) \/ Answered(s)
  BY <1>2, UpsetStays
<1>4. /\ Tree(db.folder) /\ Filed(db.folder, db.test)
      /\ \A s \in Requests : TreeHeld(Req(s), call[s], db.folder, db.test)
  BY <1>3 DEF TreeKnown
<1>5. \A s \in Requests : \A c, folders, tests :
         Req(s).op \notin Reorganising \/ c.at \in {"start", "ok", "refused", "failed"} => TreeHeld(Req(s), c, folders, tests)
  BY DEF TreeHeld, Reorganising
<1>6. CASE Req(r).op \in Reorganising
  <2>1. /\ Tree(db'.folder) /\ Filed(db'.folder, db'.test)
        /\ TreeHeld(Req(r), call'[r], db'.folder, db'.test)
    BY <1>3, <1>4, <1>6, TreeGoes
  <2>2. ASSUME NEW s \in Requests \ {r} PROVE TreeHeld(Req(s), call'[s], db'.folder, db'.test)
    <3>1. Req(s).op \notin Reorganising \/ call[s].at \in {"start", "ok", "refused", "failed"}
      BY <1>3, <1>6 DEF Begun, Answered
    <3> QED BY <3>1, <1>1, <1>5
  <2> QED BY <2>1, <2>2
<1>7. CASE Req(r).op \notin Reorganising
  <2>1. /\ Tree(db'.folder) /\ Filed(db'.folder, db'.test)
        /\ \A s \in Requests : Begun(s) /\ ~ Answered(s) /\ TreeHeld(Req(s), call[s], db.folder, db.test)
                               => TreeHeld(Req(s), call[s], db'.folder, db'.test)
    BY <1>3, <1>4, <1>7, TreeBeside
  <2>2. ASSUME NEW s \in Requests \ {r} PROVE TreeHeld(Req(s), call'[s], db'.folder, db'.test)
    <3>1. CASE Begun(s) /\ ~ Answered(s) BY <3>1, <2>1, <1>1, <1>4
    <3>2. CASE ~ Begun(s) \/ Answered(s)
      <4>1. call[s].at \in {"start", "ok", "refused", "failed"} BY <3>2 DEF Begun, Answered
      <4> QED BY <4>1, <1>1, <1>5
    <3> QED BY <3>1, <3>2
  <2>3. TreeHeld(Req(r), call'[r], db'.folder, db'.test) BY <1>5, <1>7
  <2> QED BY <2>1, <2>2, <2>3
<1> QED BY <1>6, <1>7

AllHangs == RowsHang /\ ShelfRows /\ ListedKnown /\ FoldersLeft /\ TreeKnown

LEMMA AllHangsInit == Init => AllHangs
<1> SUFFICES ASSUME Init PROVE AllHangs OBVIOUS
<1>0. RowsHang BY RowsHangInit
<1>1. CatalogKnown BY <1>0 DEF RowsHang
<1>2. PICK w \in Workloads, enforced \in BOOLEAN : work = [enforced |-> enforced] ++ w /\ db = w.db BY DEF Init
<1>3. db = work.db BY <1>2, WorkKnown
<1>4. \A r \in Requests : call[r].at = "start" BY DEF Init, NewCall
<1>5. ~ \E r \in Requests : Begun(r) BY <1>4 DEF Begun
<1>6. ShelfRows BY <1>1, <1>3, TreeFacts DEF ShelfRows, Ids
<1>7. FoldersLeft BY <1>3 DEF FoldersLeft, Ids
<1>8. 0 \notin Ids("folder") BY <1>1, NoneIsZero
<1>9. Tree(db.folder) /\ Filed(db.folder, db.test) BY <1>1, <1>3, <1>8, TreeFacts DEF Tree, Filed, Ids
<1>10. \A r \in Requests : TreeHeld(Req(r), call[r], db.folder, db.test) BY <1>4 DEF TreeHeld
<1>11. ListedKnown
  <2>1. ASSUME NEW t \in Listed, NEW i \in Ids(t) PROVE Eldest(Ids("project"), db[t][i].of)
    <3>1. t \in Tables /\ References[t] = "project" BY TableNames DEF Listed, References
    <3>2. db[t][i].of \in Ids("project") BY <1>1, <1>3, <3>1, WorkFacts DEF Ids
    <3>3. \A p \in Ids("project") : db[t][i].of <= p BY <1>1, <1>3, TreeFacts DEF Ids
    <3> QED BY <3>2, <3>3 DEF Eldest
  <2> QED BY <2>1, <1>4 DEF ListedKnown
<1> QED BY <1>0, <1>6, <1>7, <1>9, <1>10, <1>11 DEF AllHangs, TreeKnown

LEMMA AllHangsStep == AllHangs /\ [Next]_vars => AllHangs'
<1> SUFFICES ASSUME AllHangs, [Next]_vars PROVE AllHangs' OBVIOUS
<1>0. RowsHang /\ ShelfRows /\ ListedKnown /\ FoldersLeft /\ TreeKnown BY DEF AllHangs
<1>1. RowsHang' BY <1>0, RowsHangStep
<1>2. ASSUME NEW r \in Requests, Handle(r) PROVE AllHangs'
  BY <1>0, <1>1, <1>2, ShelfRowsStep, ListedStep, FoldersLeftStep, TreeStep DEF AllHangs
<1>3. CASE UNCHANGED vars
  <2>1. ShelfRows' BY <1>0, <1>3 DEF vars, ShelfRows, Ids
  <2>2. ListedKnown'
    BY <1>0, <1>3 DEF vars, ListedKnown, Crowded, Met, Overlap, Begun, Requests, Req, Ids
  <2>3. FoldersLeft' BY <1>0, <1>3 DEF vars, FoldersLeft, Begun, Requests, Req, Ids
  <2>4. TreeKnown'
    BY <1>0, <1>3 DEF vars, TreeKnown, Upset, FiledLate, Met, Overlap, Begun, Requests, Req
  <2> QED BY <1>1, <2>1, <2>2, <2>3, <2>4 DEF AllHangs
<1> QED BY <1>2, <1>3 DEF Next

LEMMA AllHangsKeeps == AllHangs => EverythingListed
<1> SUFFICES ASSUME AllHangs PROVE EverythingListed OBVIOUS
<1>0. CatalogKnown /\ ListedKnown /\ TreeKnown BY DEF AllHangs, RowsHang
<1>1. EverythingReachable
  <2> SUFFICES ASSUME Done, ~ Reorganised
               PROVE  /\ \A f \in Ids("folder") : OnTheTree(db.folder, f)
                      /\ \A t \in Ids("test") : OnTheTree(db.folder, db.test[t].folder)
    BY DEF EverythingReachable
  <2>1. ~ Upset BY DEF Upset, Reorganised, Reorganising, Met, FiledLate
  <2>2. Tree(db.folder) /\ Filed(db.folder, db.test) BY <1>0, <2>1 DEF TreeKnown
  <2>3. OnTheTree(db.folder, 0) BY <2>2, TopOnTree DEF Tree
  <2> QED BY <2>2, <2>3 DEF Tree, Filed, Ids
<1>2. CreatedIsListed
  <2>1. CASE Crowded BY <2>1 DEF Crowded, Met, CreatedIsListed
  <2>2. CASE ~ Crowded
    <3>1. \A t \in Listed : \A i \in Ids(t) : Eldest(Ids("project"), db[t][i].of) BY <1>0, <2>2 DEF ListedKnown
    <3>2. \A p : Eldest(Ids("project"), p) => p = Oldest("project") BY <1>0, OldestFirst
    <3> QED BY <3>1, <3>2 DEF CreatedIsListed
  <2> QED BY <2>1, <2>2
<1> QED BY <1>1, <1>2 DEF EverythingListed

(* Whatever handlers overlap and wherever they fail, what is made belongs to the
   project that is listed, unless two requests that each may make a project met; and
   the folders stay one tree with every test on it, unless two reorganisations met or
   something was filed in a folder while or after it was removed (routers.ts:264-300). *)
THEOREM AllIsListed == Spec => []EverythingListed
<1>1. Init => AllHangs BY AllHangsInit
<1>2. AllHangs /\ [Next]_vars => AllHangs' BY AllHangsStep
<1>3. AllHangs => EverythingListed BY AllHangsKeeps
<1> QED BY <1>1, <1>2, <1>3, PTL DEF Spec

-----------------------------------------------------------------------------
(***************************************************************************)
(* What is queued is complete (FanOutComplete).  First the lists: what     *)
(* FlattenSeq, SetToSeq and the batch of a test hold.                      *)
(***************************************************************************)
LEMMA JoinedIn ==
    ASSUME NEW S, NEW p \in Seq(S), NEW q \in Seq(S)
    PROVE  p \o q \in Seq(S) /\ ToSet(p \o q) = ToSet(p) \cup ToSet(q)
<1>1. p \o q \in Seq(S) /\ Len(p \o q) = Len(p) + Len(q) OBVIOUS
<1>2. \A i \in 1 .. Len(p) : (p \o q)[i] = p[i] OBVIOUS
<1>3. \A i \in 1 .. Len(q) : (p \o q)[Len(p) + i] = q[i] OBVIOUS
<1>4. DOMAIN p = 1 .. Len(p) /\ DOMAIN q = 1 .. Len(q) /\ DOMAIN (p \o q) = 1 .. Len(p) + Len(q)
      /\ Len(p) \in Nat /\ Len(q) \in Nat
  OBVIOUS
<1> DEFINE pq == p \o q
           m == Len(p)
           n == Len(q)
<1>5. /\ \A i \in 1 .. m : pq[i] = p[i] 
      /\ \A i \in 1 .. n : pq[m + i] = q[i]
      /\ DOMAIN p = 1 .. m /\ DOMAIN q = 1 .. n /\ DOMAIN pq = 1 .. m + n /\ m \in Nat /\ n \in Nat
  BY <1>2, <1>3, <1>4
<1> HIDE DEF pq, m, n
<1>6. \A i \in DOMAIN pq : pq[i] \in ToSet(p) \cup ToSet(q)
  <2> SUFFICES ASSUME NEW i \in DOMAIN pq PROVE pq[i] \in ToSet(p) \cup ToSet(q) OBVIOUS
  <2>1. CASE i <= m BY <1>5, <2>1 DEF ToSet
  <2>2. CASE ~ (i <= m)
    <3>1. i - m \in 1 .. n /\ m + (i - m) = i BY <1>5, <2>2
    <3> QED BY <1>5, <3>1 DEF ToSet
  <2> QED BY <2>1, <2>2
<1>7. \A i \in DOMAIN p : p[i] \in ToSet(pq) BY <1>5 DEF ToSet
<1>8. \A i \in DOMAIN q : q[i] \in ToSet(pq)
  <2> SUFFICES ASSUME NEW i \in DOMAIN q PROVE q[i] \in ToSet(pq) OBVIOUS
  <2>1. m + i \in DOMAIN pq /\ pq[m + i] = q[i] BY <1>5
  <2> QED BY <2>1 DEF ToSet
<1>9. ToSet(pq) = ToSet(p) \cup ToSet(q) BY <1>6, <1>7, <1>8 DEF ToSet
<1> QED BY <1>1, <1>9 DEF pq

(* The function that FlattenSeq computes with exists, however many lists there are. *)
LEMMA FlatteningExists ==
    ASSUME NEW seqs, NEW n \in Nat
    PROVE  \E f : f = [i \in 1 .. n |-> IF i = 1 THEN seqs[i] ELSE f[i - 1] \o seqs[i]]
<1> DEFINE Is(f, m) == f = [i \in 1 .. m |-> IF i = 1 THEN seqs[i] ELSE f[i - 1] \o seqs[i]]
           Bad == {m \in Nat : ~ \E f : Is(f, m)}
<1>1. SUFFICES ASSUME Bad # {} PROVE FALSE
  OBVIOUS
<1>2. PICK m \in Bad : \A k \in Bad : m <= k
  <2> HIDE DEF Is
  <2>1. Bad \subseteq Nat
    OBVIOUS
  <2> HIDE DEF Bad
  <2> QED
    BY <1>1, <2>1, MinNat
<1>3. CASE m = 0
  <2> DEFINE g == [i \in 1 .. 0 |-> 0]
  <2>1. g = [i \in 1 .. 0 |-> IF i = 1 THEN seqs[i] ELSE g[i - 1] \o seqs[i]]
    <3>1. 1 .. 0 = {}
      OBVIOUS
    <3> QED
      BY <3>1
  <2>2. Is(g, m)
    BY <2>1, <1>3
  <2> HIDE DEF g
  <2> QED
    BY <1>2, <2>2
<1>4. CASE m # 0
  <2>1. m - 1 \in Nat /\ m \in Nat
    BY <1>2, <1>4
  <2>2. m - 1 \notin Bad
    <3>1. ~ (m <= m - 1)
      BY <2>1
    <3> HIDE DEF Bad
    <3> QED
      BY <1>2, <3>1
  <2>3. PICK g : Is(g, m - 1)
    BY <2>1, <2>2
  <2> DEFINE h == [i \in 1 .. m |-> IF i < m THEN g[i] ELSE IF i = 1 THEN seqs[i] ELSE g[i - 1] \o seqs[i]]
  <2>4. \A i \in 1 .. m : h[i] = IF i = 1 THEN seqs[i] ELSE h[i - 1] \o seqs[i]
    <3> TAKE i \in 1 .. m
    <3>1. CASE i = 1 /\ i < m
      <4>1. i \in 1 .. m - 1 /\ h[i] = g[i]
        BY <3>1, <2>1
      <4> QED
        BY <4>1, <3>1, <2>3
    <3>2. CASE i = 1 /\ ~ (i < m)
      BY <3>2
    <3>3. CASE i # 1 /\ i < m
      <4>1. i \in 1 .. m - 1 /\ i - 1 \in 1 .. m - 1 /\ i - 1 \in 1 .. m /\ i - 1 < m
        BY <3>3, <2>1
      <4>2. h[i] = g[i] /\ h[i - 1] = g[i - 1]
        BY <4>1, <3>3
      <4>3. g[i] = g[i - 1] \o seqs[i]
        BY <4>1, <3>3, <2>3
      <4> QED
        BY <4>2, <4>3, <3>3
    <3>4. CASE i # 1 /\ ~ (i < m)
      <4>1. i = m /\ i - 1 \in 1 .. m /\ i - 1 < m
        BY <3>4, <2>1
      <4>2. h[i - 1] = g[i - 1]
        BY <4>1
      <4> QED
        BY <4>1, <4>2, <3>4
    <3> QED
      BY <3>1, <3>2, <3>3, <3>4
  <2>5. h = [i \in 1 .. m |-> h[i]]
    OBVIOUS
  <2> HIDE DEF h
  <2>6. Is(h, m)
    BY <2>4, <2>5
  <2> QED
    BY <1>2, <2>6
<1> QED
  BY <1>3, <1>4

(* FlattenSeq gives a list of the elements of the lists. *)
LEMMA Flattened ==
    ASSUME NEW S, NEW seqs \in Seq(Seq(S))
    PROVE  FlattenSeq(seqs) \in Seq(S) /\ ToSet(FlattenSeq(seqs)) = UNION {ToSet(seqs[k]) : k \in DOMAIN seqs}
<1>0. CASE seqs = << >>
  <2>1. FlattenSeq(seqs) = << >> BY <1>0 DEF FlattenSeq
  <2>2. DOMAIN seqs = {} BY <1>0
  <2>3. << >> \in Seq(S) /\ ToSet(<< >>) = {} BY DEF ToSet
  <2> QED BY <2>1, <2>2, <2>3
<1> SUFFICES ASSUME seqs # << >>
             PROVE  FlattenSeq(seqs) \in Seq(S) /\ ToSet(FlattenSeq(seqs)) = UNION {ToSet(seqs[k]) : k \in DOMAIN seqs}
  BY <1>0
<1> DEFINE n == Len(seqs)
<1>1. n \in Nat /\ n # 0 /\ DOMAIN seqs = 1 .. n /\ \A i \in 1 .. n : seqs[i] \in Seq(S) OBVIOUS
<1>2. \E f : f = [i \in 1 .. n |-> IF i = 1 THEN seqs[i] ELSE f[i - 1] \o seqs[i]]
  <2> HIDE DEF n
  <2> QED BY <1>1, FlatteningExists
<1> DEFINE flatten[i \in 1 .. n] == IF i = 1 THEN seqs[i] ELSE flatten[i - 1] \o seqs[i]
<1>3. FlattenSeq(seqs) = flatten[n] BY <1>1 DEF FlattenSeq
<1>4. flatten = [i \in 1 .. n |-> IF i = 1 THEN seqs[i] ELSE flatten[i - 1] \o seqs[i]] BY <1>2, Zenon
<1> HIDE DEF flatten, n
<1> DEFINE Upto(i) == UNION {ToSet(seqs[k]) : k \in 1 .. i}
           Bad == {i \in 1 .. n : ~ (flatten[i] \in Seq(S) /\ ToSet(flatten[i]) = Upto(i))}
<1>5. Bad = {}
  <2>1. SUFFICES ASSUME Bad # {} PROVE FALSE OBVIOUS
  <2>2. PICK m \in Bad : \A k \in Bad : m <= k
    <3>1. Bad \subseteq Nat BY <1>1
    <3> HIDE DEF Bad
    <3> QED BY <2>1, <3>1, MinNat
  <2>3. m \in 1 .. n /\ ~ (flatten[m] \in Seq(S) /\ ToSet(flatten[m]) = Upto(m)) BY <2>2
  <2>4. CASE m = 1
    <3>1. flatten[m] = seqs[1] /\ seqs[1] \in Seq(S) BY <1>1, <1>4, <2>3, <2>4
    <3>2. 1 .. m = {1} BY <2>4
    <3>3. Upto(m) = ToSet(seqs[1]) BY <3>2
    <3> QED BY <3>1, <3>3, <2>3
  <2>5. CASE m # 1
    <3>1. m - 1 \in 1 .. n /\ ~ (m <= m - 1) /\ 1 .. m = (1 .. m - 1) \cup {m} BY <2>3, <2>5, <1>1
    <3>2. flatten[m - 1] \in Seq(S) /\ ToSet(flatten[m - 1]) = Upto(m - 1) BY <2>2, <3>1
    <3>3. flatten[m] = flatten[m - 1] \o seqs[m] BY <1>4, <2>3, <2>5
    <3>4. seqs[m] \in Seq(S) BY <1>1, <2>3
    <3>5. flatten[m - 1] \o seqs[m] \in Seq(S)
          /\ ToSet(flatten[m - 1] \o seqs[m]) = ToSet(flatten[m - 1]) \cup ToSet(seqs[m])
      BY ONLY <3>2, <3>4, JoinedIn
    <3>6. Upto(m) = Upto(m - 1) \cup ToSet(seqs[m]) BY <3>1
    <3> HIDE DEF Upto
    <3> QED BY <3>2, <3>3, <3>5, <3>6, <2>3
  <2> QED BY <2>4, <2>5
<1>6. n \in 1 .. n BY <1>1
<1>7. flatten[n] \in Seq(S) /\ ToSet(flatten[n]) = Upto(n) BY <1>5, <1>6
<1> QED BY <1>1, <1>3, <1>7

(* Lists, whatever they are of. *)
LEMMA ListingOf ==
    ASSUME NEW S, NEW s \in Seq(S)
    PROVE  Listing(s) /\ ToSet(s) \subseteq S
<1>1. Len(s) \in Nat /\ DOMAIN s = 1 .. Len(s) /\ \A i \in 1 .. Len(s) : s[i] \in S OBVIOUS
<1>2. s = [i \in 1 .. Len(s) |-> s[i]] OBVIOUS
<1>3. \A i \in 1 .. Len(s) : s[i] \in ToSet(s) BY <1>1 DEF ToSet
<1>4. s \in [1 .. Len(s) -> ToSet(s)] BY <1>2, <1>3
<1>5. ASSUME NEW n \in Nat, NEW T, NEW q \in [1 .. n -> T] PROVE q \in Seq(T) OBVIOUS
<1>6. s \in Seq(ToSet(s)) BY <1>1, <1>4, <1>5
<1>7. ToSet(s) \subseteq S BY <1>1 DEF ToSet
<1> QED BY <1>6, <1>7 DEF Listing

LEMMA ListDomain ==
    ASSUME NEW s, Listing(s)
    PROVE  /\ Len(s) \in Nat /\ DOMAIN s = 1 .. Len(s) /\ s \in Seq(ToSet(s)) /\ \A i \in 1 .. Len(s) : s[i] \in ToSet(s)
           /\ s # << >> => ToSet(s) # {} /\ Len(s) # 0
           /\ s = << >> => ToSet(s) = {}
<1>1. s \in Seq(ToSet(s)) BY DEF Listing
<1>2. Len(s) \in Nat /\ DOMAIN s = 1 .. Len(s) BY <1>1
<1>3. \A i \in 1 .. Len(s) : s[i] \in ToSet(s) BY <1>2 DEF ToSet
<1>4. s # << >> => Len(s) # 0 BY <1>1
<1>5. Len(s) # 0 => 1 \in 1 .. Len(s) BY <1>2
<1>6. s = << >> => DOMAIN s = {} OBVIOUS
<1>7. DOMAIN s = {} => ToSet(s) = {} BY DEF ToSet
<1> QED BY <1>1, <1>2, <1>3, <1>4, <1>5, <1>6, <1>7

(* A batch: what there is left to queue, each part for a browser and a row. *)
Plan(p)   == p = [browser |-> p.browser, row |-> p.row] /\ p.browser \notin Disabled
Closed(P) == \A p, q \in P : [browser |-> p.browser, row |-> q.row] \in P

LEMMA AbleBrowsers ==
    ASSUME NEW settings, Listing(settings.browsers)
    PROVE  /\ Listing(Browsers(settings)) /\ Browsers(settings) # << >>
           /\ \A b \in ToSet(Browsers(settings)) : b \notin Disabled
           /\ LET able == ToSet(settings.browsers) \ Disabled
              IN  ToSet(Browsers(settings)) = IF able = {} THEN {"chromium"} ELSE able
<1> DEFINE asked == IF settings.browsers = << >> THEN << "chromium" >> ELSE settings.browsers
           S == ToSet(asked) \ Disabled
           parts == [n \in DOMAIN asked |-> IF asked[n] \in Disabled THEN << >> ELSE << asked[n] >>]
<1>1. "chromium" \notin Disabled BY FanOutAssumption
<1>2. Listing(<< "chromium" >>)
  <2>1. << "chromium" >> \in Seq({"chromium"}) OBVIOUS
  <2> QED BY <2>1, ListingOf
<1>3. Listing(asked) BY <1>2
<1>4. Able(settings) = FlattenSeq(parts) BY DEF Able
<1>a. ToSet(<< "chromium" >>) = {"chromium"} /\ ToSet(<< >>) = {}
  <2>1. DOMAIN << "chromium" >> = {1} /\ DOMAIN << >> = {} OBVIOUS
  <2> QED BY <2>1 DEF ToSet
<1>b. S = IF settings.browsers = << >> THEN {"chromium"} ELSE ToSet(settings.browsers) \ Disabled BY <1>1, <1>a
<1> HIDE DEF asked
<1>5. Len(asked) \in Nat /\ DOMAIN asked = 1 .. Len(asked) /\ \A i \in 1 .. Len(asked) : asked[i] \in ToSet(asked)
  BY <1>3, ListDomain
<1>6. \A n \in DOMAIN asked : parts[n] \in Seq(S)
  <2> SUFFICES ASSUME NEW n \in DOMAIN asked PROVE parts[n] \in Seq(S) OBVIOUS
  <2>1. CASE asked[n] \in Disabled BY <2>1
  <2>2. CASE asked[n] \notin Disabled
    <3>1. asked[n] \in S BY <2>2, <1>5
    <3> HIDE DEF S
    <3> QED BY <2>2, <3>1
  <2> QED BY <2>1, <2>2
<1>7. parts \in Seq(Seq(S))
  <2>1. DOMAIN parts = 1 .. Len(asked) /\ parts = [n \in 1 .. Len(asked) |-> parts[n]] BY <1>5
  <2> HIDE DEF parts, S
  <2>2. parts \in [1 .. Len(asked) -> Seq(S)] BY <2>1, <1>5, <1>6
  <2>3. ASSUME NEW n \in Nat, NEW T, NEW q \in [1 .. n -> T] PROVE q \in Seq(T) OBVIOUS
  <2> QED BY <2>2, <2>3, <1>5
<1>8. \A n \in DOMAIN asked : ToSet(parts[n]) = {asked[n]} \ Disabled
  <2> SUFFICES ASSUME NEW n \in DOMAIN asked PROVE ToSet(parts[n]) = {asked[n]} \ Disabled OBVIOUS
  <2>1. CASE asked[n] \in Disabled BY <2>1, <1>a
  <2>2. CASE asked[n] \notin Disabled
    <3>1. parts[n] = << asked[n] >> /\ DOMAIN << asked[n] >> = {1} BY <2>2
    <3> QED BY <3>1, <2>2 DEF ToSet
  <2> QED BY <2>1, <2>2
<1>9. UNION {ToSet(parts[k]) : k \in DOMAIN parts} = S
  <2>1. UNION {ToSet(parts[k]) : k \in DOMAIN asked} = {asked[k] : k \in DOMAIN asked} \ Disabled
    <3> HIDE DEF parts
    <3> QED BY <1>8
  <2>2. DOMAIN parts = DOMAIN asked /\ ToSet(asked) = {asked[k] : k \in DOMAIN asked} BY DEF ToSet
  <2> QED BY <2>1, <2>2
<1> HIDE DEF parts, S
<1>10. FlattenSeq(parts) \in Seq(S) /\ ToSet(FlattenSeq(parts)) = S BY <1>7, <1>9, Flattened
<1>11. Listing(Able(settings)) /\ ToSet(Able(settings)) = S BY <1>4, <1>10, ListingOf
<1>12. S \cap Disabled = {} BY DEF S
<1>13. << "chromium" >> # << >> OBVIOUS
<1>14. S = {} <=> Able(settings) = << >> BY <1>11, ListDomain
<1> QED BY <1>1, <1>2, <1>a, <1>b, <1>11, <1>12, <1>13, <1>14 DEF Browsers

LEMMA ListMade ==
    ASSUME NEW n \in Nat, NEW S, NEW q, DOMAIN q = 1 .. n, q = [i \in 1 .. n |-> q[i]], \A i \in 1 .. n : q[i] \in S
    PROVE  q \in Seq(S)
<1>1. q \in [1 .. n -> S] OBVIOUS
<1> QED BY <1>1

LEMMA BatchOf ==
    ASSUME NEW row, Listing(row.data), Listing(row.settings.browsers)
    PROVE  /\ Listing(Batch(row)) /\ Batch(row) # << >>
           /\ \A p \in ToSet(Batch(row)) : Plan(p)
           /\ Closed(ToSet(Batch(row))) /\ ToSet(Batch(row)) = Asked(row)
<1> DEFINE browsers == Browsers(row.settings)
           seeds == IF row.data = << >> THEN << << >> >> ELSE row.data
           parts == [b \in DOMAIN browsers |-> [s \in DOMAIN seeds |-> [browser |-> browsers[b], row |-> seeds[s]]]]
           S == {[browser |-> b, row |-> d] : b \in ToSet(browsers), d \in ToSet(seeds)}
<1>1. Listing(browsers) /\ browsers # << >> /\ \A b \in ToSet(browsers) : b \notin Disabled BY AbleBrowsers
<1>2. Listing(seeds) /\ seeds # << >>
  <2>1. << << >> >> \in Seq({<< >>}) /\ << << >> >> # << >> OBVIOUS
  <2>2. Listing(<< << >> >>) BY <2>1, ListingOf
  <2> QED BY <2>1, <2>2
<1>3. Batch(row) = FlattenSeq(parts) BY DEF Batch
<1>a. ToSet(<< << >> >>) = {<< >>}
  <2>1. DOMAIN << << >> >> = {1} OBVIOUS
  <2> QED BY <2>1 DEF ToSet
<1>b. S = Asked(row)
  <2>1. ToSet(browsers) = LET able == ToSet(row.settings.browsers) \ Disabled IN IF able = {} THEN {"chromium"} ELSE able
    BY AbleBrowsers
  <2>2. ToSet(seeds) = IF row.data = << >> THEN {<< >>} ELSE ToSet(row.data) BY <1>a
  <2> HIDE DEF browsers, seeds
  <2> QED BY <2>1, <2>2 DEF Asked
<1> HIDE DEF browsers, seeds
<1>4. /\ Len(browsers) \in Nat \ {0} /\ DOMAIN browsers = 1 .. Len(browsers)
      /\ Len(seeds) \in Nat \ {0} /\ DOMAIN seeds = 1 .. Len(seeds)
      /\ \A b \in 1 .. Len(browsers) : browsers[b] \in ToSet(browsers)
      /\ \A d \in 1 .. Len(seeds) : seeds[d] \in ToSet(seeds)
  BY <1>1, <1>2, ListDomain
<1>5. \A b \in DOMAIN browsers : parts[b] \in Seq(S) /\ ToSet(parts[b]) = {[browser |-> browsers[b], row |-> d] : d \in ToSet(seeds)}
  <2> SUFFICES ASSUME NEW b \in DOMAIN browsers
               PROVE  parts[b] \in Seq(S) /\ ToSet(parts[b]) = {[browser |-> browsers[b], row |-> d] : d \in ToSet(seeds)}
    OBVIOUS
  <2>1. DOMAIN parts[b] = 1 .. Len(seeds) /\ parts[b] = [s \in 1 .. Len(seeds) |-> parts[b][s]]
        /\ \A s \in 1 .. Len(seeds) : parts[b][s] = [browser |-> browsers[b], row |-> seeds[s]]
    BY <1>4
  <2>2. \A s \in 1 .. Len(seeds) : parts[b][s] \in S BY <2>1, <1>4
  <2> HIDE DEF parts, S
  <2>3. parts[b] \in Seq(S) BY <2>1, <2>2, <1>4, ListMade
  <2>4. ToSet(parts[b]) \subseteq {[browser |-> browsers[b], row |-> d] : d \in ToSet(seeds)}
    <3>1. \A s \in 1 .. Len(seeds) : parts[b][s] \in {[browser |-> browsers[b], row |-> d] : d \in ToSet(seeds)} BY <2>1, <1>4
    <3> QED BY <2>1, <3>1 DEF ToSet
  <2>5. ASSUME NEW d \in ToSet(seeds) PROVE [browser |-> browsers[b], row |-> d] \in ToSet(parts[b])
    <3>1. PICK s \in DOMAIN seeds : seeds[s] = d BY DEF ToSet
    <3>2. s \in DOMAIN parts[b] /\ parts[b][s] = [browser |-> browsers[b], row |-> d] BY <2>1, <3>1, <1>4
    <3> QED BY <3>2 DEF ToSet
  <2>6. ToSet(parts[b]) = {[browser |-> browsers[b], row |-> d] : d \in ToSet(seeds)} BY <2>4, <2>5
  <2> QED BY <2>3, <2>6
<1>6. DOMAIN parts = 1 .. Len(browsers) /\ parts = [b \in 1 .. Len(browsers) |-> parts[b]] BY <1>4
<1> HIDE DEF parts, S
<1>7. parts \in Seq(Seq(S)) BY <1>4, <1>5, <1>6, ListMade
<1>8. FlattenSeq(parts) \in Seq(S) /\ ToSet(FlattenSeq(parts)) = UNION {ToSet(parts[k]) : k \in DOMAIN parts} BY <1>7, Flattened
<1>9. UNION {ToSet(parts[k]) : k \in DOMAIN parts} = S
  <2>1. \A k \in DOMAIN parts : ToSet(parts[k]) \subseteq S
    <3> SUFFICES ASSUME NEW k \in DOMAIN parts PROVE ToSet(parts[k]) \subseteq S OBVIOUS
    <3>1. k \in DOMAIN browsers /\ browsers[k] \in ToSet(browsers) BY <1>4, <1>6
    <3>2. ToSet(parts[k]) = {[browser |-> browsers[k], row |-> d] : d \in ToSet(seeds)} BY <3>1, <1>5
    <3> QED BY <3>1, <3>2 DEF S
  <2>2. ASSUME NEW b \in ToSet(browsers), NEW d \in ToSet(seeds)
        PROVE  \E k \in DOMAIN parts : [browser |-> b, row |-> d] \in ToSet(parts[k])
    <3>1. PICK k \in DOMAIN browsers : browsers[k] = b BY DEF ToSet
    <3> QED BY <3>1, <1>4, <1>5, <1>6
  <2>3. S \subseteq UNION {ToSet(parts[k]) : k \in DOMAIN parts} BY <2>2 DEF S
  <2> QED BY <2>1, <2>3
<1>10. Listing(Batch(row)) /\ ToSet(Batch(row)) = S BY <1>3, <1>8, <1>9, ListingOf
<1>11. S # {}
  <2>1. browsers[1] \in ToSet(browsers) /\ seeds[1] \in ToSet(seeds)
    <3>1. 1 \in 1 .. Len(browsers) /\ 1 \in 1 .. Len(seeds) BY <1>4
    <3> QED BY <1>4, <3>1
  <2>2. [browser |-> browsers[1], row |-> seeds[1]] \in S BY <2>1 DEF S
  <2> QED BY <2>2
<1>12. Batch(row) # << >> BY <1>10, <1>11, ListDomain
<1>13. \A p \in S : Plan(p) BY <1>1 DEF S, Plan
<1>14. Closed(S) BY DEF S, Closed
<1> QED BY <1>b, <1>10, <1>12, <1>13, <1>14

(* A list of what a finite set holds, each of it once. *)
LEMMA ListOfSet ==
    ASSUME NEW S, IsFiniteSet(S)
    PROVE  LET s == SetToSeq(S) IN
           /\ s \in Seq(S) /\ ToSet(s) = S
           /\ \A i, j \in DOMAIN s : s[i] = s[j] => i = j
<1> DEFINE s == SetToSeq(S)
           n == Cardinality(S)
<1>1. n \in Nat /\ ExistsBijection(1 .. n, S) BY FS_CardinalityType
<1>2. \E f \in [1 .. n -> S] : IsInjective(f)
  BY <1>1 DEF ExistsBijection, Bijection, Injection
<1>3. s \in [1 .. n -> S] /\ IsInjective(s) BY <1>2 DEF SetToSeq
<1> HIDE DEF s, n
<1>4. \A i, j \in DOMAIN s : s[i] = s[j] => i = j BY <1>3 DEF IsInjective
<1>5. s \in Injection(1 .. n, S) BY <1>3 DEF Injection, IsInjective
<1>6. s \in Surjection(1 .. n, S)
  <2>1. IsFiniteSet(1 .. n) /\ Cardinality(1 .. n) = n BY <1>1, FS_Interval
  <2>2. n = Cardinality(S) BY DEF n
  <2> QED BY <1>5, <2>1, <2>2, FS_Injection
<1>7. ToSet(s) = S /\ s \in Seq(S) BY <1>1, <1>3, <1>6 DEF Surjection, ToSet
<1> QED BY <1>4, <1>7 DEF s


-----------------------------------------------------------------------------
(* The columns that queueing reads, whatever statement is made. *)
Ready(row) == {"settings", "data"} \subseteq DOMAIN row /\ Listing(row.data) /\ Listing(row.settings.browsers)
TestsReady == \A i \in Ids("test") : Ready(db.test[i])
BrowserStays ==
    \A i \in Ids("run")' : i \in Ids("run") /\ "browser" \in DOMAIN db.run[i] =>
        "browser" \in DOMAIN db'.run[i] /\ db'.run[i].browser = db.run[i].browser
Lane(r) ==
    /\ BrowserStays /\ \A i \in Ids("test")' : Ready(db'.test[i])
    /\ Req(r).op # "removeTest" => Ids("test") \subseteq Ids("test")'

LEMMA LaneSame ==
    ASSUME TestsReady, NEW r, db'.run = db.run, db'.test = db.test
    PROVE  Lane(r)
BY DEF Lane, BrowserStays, TestsReady, Ids

LEMMA LaneInsert ==
    ASSUME CatalogKnown, TestsReady, NEW r, NEW t \in Tables \ {"test"}, NEW row, Insert(t, row)
    PROVE  Lane(r)
<1>1. Grown(t, row) BY InsertShape
<1>2. db'.test = db.test BY <1>1, TableNames DEF Grown
<1>3. CASE t # "run"
  <2>1. db'.run = db.run BY <1>1, <1>3, TableNames DEF Grown
  <2> QED BY <2>1, <1>2, LaneSame
<1>4. CASE t = "run"
  <2>1. \A i \in Ids("run") : db'.run[i] = db.run[i] BY <1>1, <1>4 DEF Grown
  <2> QED BY <2>1, <1>2 DEF Lane, BrowserStays, TestsReady, Ids
<1> QED BY <1>3, <1>4

LEMMA LaneDelete ==
    ASSUME CatalogKnown, TestsReady, NEW r, NEW t \in Tables, NEW ids, Delete(t, ids), t = "test" => Req(r).op = "removeTest"
    PROVE  Lane(r)
<1>1. Shrunk(t, ids) BY DeleteShape
<1>2. \A u \in {"run", "test"} : Ids(u)' \subseteq Ids(u) /\ \A i \in Ids(u)' : db'[u][i] = db[u][i]
  <2> SUFFICES ASSUME NEW u \in {"run", "test"} PROVE Ids(u)' \subseteq Ids(u) /\ \A i \in Ids(u)' : db'[u][i] = db[u][i] OBVIOUS
  <2>1. CASE u = t BY <2>1, <1>1 DEF Shrunk
  <2>2. CASE u # t
    <3>1. db'[u] = db[u] BY <2>2, <1>1, TableNames DEF Shrunk
    <3> QED BY <3>1 DEF Ids
  <2> QED BY <2>1, <2>2
<1>3. t # "test" => Ids("test")' = Ids("test")
  <2>1. t # "test" => db'.test = db.test BY <1>1, TableNames DEF Shrunk
  <2> QED BY <2>1 DEF Ids
<1> QED BY <1>2, <1>3 DEF Lane, BrowserStays, TestsReady

LEMMA LaneUpdate ==
    ASSUME CatalogKnown, TestsReady, NEW r, NEW t \in Tables, NEW ids, NEW patch, Update(t, ids, patch),
           t = "run" => "browser" \notin DOMAIN patch,
           t = "test" /\ "settings" \in DOMAIN patch => Listing(patch.settings.browsers),
           t = "test" /\ "data" \in DOMAIN patch => Listing(patch.data)
    PROVE  Lane(r)
<1>0. DOMAIN db = Tables /\ "test" \in Tables /\ "run" \in Tables BY TableNames DEF CatalogKnown
<1>1. /\ \A u \in Tables \ {t} : db'[u] = db[u]
      /\ DOMAIN db'[t] = DOMAIN db[t]
      /\ \A i \in DOMAIN db[t] : db'[t][i] = IF i \in ids THEN patch ++ db[t][i] ELSE db[t][i]
  BY <1>0 DEF Update
<1>2. CASE t = "run"
  <2>1. db'.test = db.test BY <1>0, <1>1, <1>2
  <2>2. ASSUME NEW i \in Ids("run"), "browser" \in DOMAIN db.run[i]
        PROVE  "browser" \in DOMAIN db'.run[i] /\ db'.run[i].browser = db.run[i].browser
    <3>1. db'.run[i] = db.run[i] \/ db'.run[i] = patch ++ db.run[i] BY <1>1, <1>2 DEF Ids
    <3>2. "browser" \notin DOMAIN patch BY <1>2
    <3> QED BY <3>1, <3>2, <2>2 DEF ++
  <2> QED BY <2>1, <2>2 DEF Lane, BrowserStays, TestsReady, Ids
<1>3. CASE t = "test"
  <2>1. db'.run = db.run /\ Ids("test")' = Ids("test") BY <1>0, <1>1, <1>3 DEF Ids
  <2>2. ASSUME NEW i \in Ids("test") PROVE Ready(db'.test[i])
    <3>1. Ready(db.test[i]) BY DEF TestsReady
    <3>2. db'.test[i] = db.test[i] \/ db'.test[i] = patch ++ db.test[i] BY <1>1, <1>3 DEF Ids
    <3> DEFINE old == db.test[i]
               new == patch ++ old
    <3>3. /\ DOMAIN old \subseteq DOMAIN new
          /\ "settings" \in DOMAIN old => new.settings = IF "settings" \in DOMAIN patch THEN patch.settings ELSE old.settings
          /\ "data" \in DOMAIN old => new.data = IF "data" \in DOMAIN patch THEN patch.data ELSE old.data
      BY DEF ++
    <3>4. new = db'.test[i] \/ db'.test[i] = old BY <3>2
    <3>5. Ready(old) BY <3>1
    <3> HIDE DEF new, old
    <3>6. Ready(new)
      <4>1. {"settings", "data"} \subseteq DOMAIN old /\ Listing(old.data) /\ Listing(old.settings.browsers) BY <3>5 DEF Ready
      <4>2. Listing(new.settings.browsers)
        <5>1. CASE "settings" \in DOMAIN patch BY <5>1, <4>1, <3>3, <1>3
        <5>2. CASE "settings" \notin DOMAIN patch BY <5>2, <4>1, <3>3
        <5> QED BY <5>1, <5>2
      <4>3. Listing(new.data)
        <5>1. CASE "data" \in DOMAIN patch BY <5>1, <4>1, <3>3, <1>3
        <5>2. CASE "data" \notin DOMAIN patch BY <5>2, <4>1, <3>3
        <5> QED BY <5>1, <5>2
      <4> QED BY <4>1, <4>2, <4>3, <3>3 DEF Ready
    <3> QED BY <3>4, <3>5, <3>6
  <2> QED BY <2>1, <2>2 DEF Lane, BrowserStays, Ids
<1>4. CASE t \notin {"run", "test"} BY <1>0, <1>1, <1>4, LaneSame
<1> QED BY <1>2, <1>3, <1>4

LEMMA LaneRead ==
    ASSUME TestsReady, NEW r, Read
    PROVE  Lane(r)
BY LaneSame DEF Read

LEMMA HomesLane ==
    ASSUME CatalogKnown, TestsReady, NEW r \in Requests, Homes(r)
    PROVE  Lane(r)
<1> USE TableNames
<1>1. CASE Read BY <1>1, LaneRead
<1>2. CASE MakeOrg(r) BY <1>2, LaneInsert DEF MakeOrg
<1>3. CASE MakeProject(r) BY <1>3, LaneInsert DEF MakeProject
<1>4. CASE CreateAtHome(r)
  <2>1. Req(r).op \in {"createSecret", "createFolder", "createAction", "createFlow"}
    BY <1>4 DEF CreateAtHome, At, InProject, InOrg
  <2>2. PICK home \in call[r].seen :
          CASE Req(r).op = "createFolder" ->
                Insert("folder", [of |-> home, name |-> Req(r).name, parent |-> Req(r).parent, collapsed |-> FALSE])
          [] Req(r).op = "createAction" -> Insert("action", [of |-> home, name |-> Req(r).name, dsl |-> Req(r).dsl])
          [] Req(r).op = "createFlow" ->
                Insert("loginFlow", [of |-> home, name |-> Req(r).name, dsl |-> Req(r).dsl, session |-> FALSE])
          [] Req(r).op = "createSecret" -> Insert("secret", [of |-> home, value |-> Stored(r)])
    BY <1>4 DEF CreateAtHome
  <2>3. \E t \in {"folder", "action", "loginFlow", "secret"} : \E row : Insert(t, row) BY <2>1, <2>2
  <2> QED BY <2>3, LaneInsert
<1> QED BY <1>1, <1>2, <1>3, <1>4 DEF Homes, FindProject, FindOrg, ListFolders, Refuse

LEMMA EditsLane ==
    ASSUME CatalogKnown, TestsReady, NEW r \in Requests, Edits(r)
    PROVE  Lane(r)
<1> USE TableNames
<1>1. CASE Read BY <1>1, LaneRead
<1>2. CASE InsertTest(r)
  <2>1. PICK home \in call[r].seen :
          Insert("test", [of |-> home, name |-> Req(r).name, folder |-> 0, current |-> 0,
                        settings |-> [browsers |-> << >>, flow |-> 0], data |-> << >>])
    BY <1>2 DEF InsertTest
  <2> DEFINE row == [of |-> home, name |-> Req(r).name, folder |-> 0, current |-> 0,
                        settings |-> [browsers |-> << >>, flow |-> 0], data |-> << >>]
  <2>2. {"settings", "data"} \subseteq DOMAIN row /\ row.data = << >> /\ row.settings.browsers = << >> OBVIOUS
  <2>3. Insert("test", row) BY <2>1
  <2> HIDE DEF row
  <2>4. Listing(<< >>)
    <3>1. << >> \in Seq({}) OBVIOUS
    <3> QED BY <3>1, ListingOf
  <2>5. Ready(row) BY <2>2, <2>4 DEF Ready
  <2>6. Grown("test", row) BY <2>3, InsertShape
  <2>7. db'.run = db.run BY <2>6 DEF Grown
  <2> QED BY <2>5, <2>6, <2>7 DEF Grown, Lane, BrowserStays, TestsReady, Ids
<1>3. CASE RenameTest(r) /\ ~ Read
  <2>1. Update("test", {Req(r).id}, [name |-> Req(r).name]) BY <1>3 DEF RenameTest
  <2>2. {"settings", "data"} \cap DOMAIN [name |-> Req(r).name] = {} OBVIOUS
  <2> QED BY <2>1, <2>2, LaneUpdate
<1>4. CASE InsertVersion(r) /\ ~ Read
  <2>1. \E row : Insert("testVersion", row) BY <1>4 DEF InsertVersion
  <2> QED BY <2>1, LaneInsert
<1>5. CASE SetCurrent(r)
  <2> DEFINE patch == [current |-> call[r].ids[1]]
  <2>1. Update("test", call[r].seen, patch) BY <1>5 DEF SetCurrent
  <2>2. {"settings", "data"} \cap DOMAIN patch = {} OBVIOUS
  <2> HIDE DEF patch
  <2> QED BY <2>1, <2>2, LaneUpdate
<1> QED BY <1>1, <1>2, <1>3, <1>4, <1>5 DEF Edits, FindTest, ValidateEdit

LEMMA RemovalsLane ==
    ASSUME CatalogKnown, TestsReady, NEW r \in Requests, RemoveTest(r) \/ RemoveFlow(r) \/ RemoveRun(r)
    PROVE  Lane(r)
<1> USE TableNames
<1>1. CASE Read BY <1>1, LaneRead
<1>2. CASE ClearCurrent(r)
  <2>1. Update("test", {Req(r).id}, [current |-> 0]) BY <1>2 DEF ClearCurrent
  <2>2. {"settings", "data"} \cap DOMAIN [current |-> 0] = {} OBVIOUS
  <2> QED BY <2>1, <2>2, LaneUpdate
<1>3. CASE Req(r).op = "removeTest" /\ RemovePart(r, DeleteParts(r)) /\ ~ Read
  <2>1. call[r].at \in {"steps", "runs", "baselines", "schedules", "versions", "row"} BY <1>3 DEF RemovePart, DeleteParts
  <2>2. \E t \in Tables : \E ids : Delete(t, ids)
    <3>1. Delete(DeleteParts(r)[call[r].at][1], DeleteParts(r)[call[r].at][2]) BY <1>3 DEF RemovePart
    <3>2. DeleteParts(r)[call[r].at][1] \in Tables BY <2>1 DEF DeleteParts
    <3> QED BY <3>1, <3>2
  <2> QED BY <2>2, <1>3, LaneDelete
<1>4. CASE Req(r).op = "removeFlow" /\ RemovePart(r, FlowParts(r)) /\ ~ Read
  <2>1. call[r].at \in {"captureSteps", "captureRuns", "flow"} BY <1>4 DEF RemovePart, FlowParts
  <2>2. \E t \in Tables \ {"test"} : \E ids : Delete(t, ids)
    <3>1. Delete(FlowParts(r)[call[r].at][1], FlowParts(r)[call[r].at][2]) BY <1>4 DEF RemovePart
    <3>2. FlowParts(r)[call[r].at][1] \in Tables \ {"test"} BY <2>1 DEF FlowParts
    <3> QED BY <3>1, <3>2
  <2> QED BY <2>2, LaneDelete
<1>5. CASE Req(r).op = "removeRun" /\ RemovePart(r, RunParts(r)) /\ ~ Read
  <2>1. call[r].at \in {"start", "run"} BY <1>5 DEF RemovePart, RunParts
  <2>2. \E t \in Tables \ {"test"} : \E ids : Delete(t, ids)
    <3>1. Delete(RunParts(r)[call[r].at][1], RunParts(r)[call[r].at][2]) BY <1>5 DEF RemovePart
    <3>2. RunParts(r)[call[r].at][1] \in Tables \ {"test"} BY <2>1 DEF RunParts
    <3> QED BY <3>1, <3>2
  <2> QED BY <2>2, LaneDelete
<1> QED BY <1>1, <1>2, <1>3, <1>4, <1>5 DEF RemoveTest, RemoveFlow, RemoveRun, ReadVersions, ReadRuns, ReadCaptures

LEMMA RequestsListed ==
    ASSUME CatalogKnown
    PROVE  /\ \A i \in DOMAIN work.db.test : Ready(work.db.test[i])
           /\ \A r \in Requests :
                 /\ Req(r).op = "updateSettings" => Listing(Req(r).settings.browsers)
                 /\ Req(r).op = "setData" => "json" \in DOMAIN Req(r) /\ (Req(r).json = "invalid" \/ Listing(Rows(Req(r))))
                 /\ Req(r).op = "createMany" => Listing(Req(r).tests)
<1>1. PICK w \in Workloads, enforced \in BOOLEAN : work = [enforced |-> enforced] ++ w BY DEF CatalogKnown
<1>2. work.db = w.db /\ work.requests = w.requests BY <1>1, WorkKnown
<1>3. \A t \in DOMAIN w.db.test : Ready(w.db.test[t]) BY FanOutAssumption DEF Ready
<1>4. ASSUME NEW r \in DOMAIN w.requests
      PROVE  /\ w.requests[r].op = "updateSettings" => Listing(w.requests[r].settings.browsers)
             /\ w.requests[r].op = "setData" =>
                   "json" \in DOMAIN w.requests[r] /\ (w.requests[r].json = "invalid" \/ Listing(Rows(w.requests[r])))
             /\ w.requests[r].op = "createMany" => Listing(w.requests[r].tests)
  BY FanOutAssumption
<1> QED BY <1>2, <1>3, <1>4 DEF Requests, Req

LEMMA SmallLane ==
    ASSUME CatalogKnown, TestsReady, NEW r \in Requests, Small(r)
    PROVE  Lane(r)
<1> USE TableNames
<1>1. CASE Read BY <1>1, LaneRead
<1>2. CASE PatchRow(r) /\ ~ Read
  <2>1. Req(r).op \in {"updateSettings", "moveTest", "setData", "renameFolder", "setCollapsed", "updateAction", "updateFlow"}
    BY <1>2 DEF PatchRow, At, Patched
  <2>2. Update(Patched[Req(r).op], {Req(r).id}, Patch(r)) /\ ~ Invalid(r) BY <1>2 DEF PatchRow, Refuse
  <2>3. CASE Req(r).op = "updateSettings"
    <3>1. Patched[Req(r).op] = "test" /\ Patch(r) = [settings |-> Req(r).settings] BY <2>3 DEF Patched, Patch
    <3>2. Listing(Req(r).settings.browsers) BY <2>3, RequestsListed
    <3> QED BY <3>1, <3>2, <2>2, LaneUpdate
  <2>4. CASE Req(r).op = "setData"
    <3>1. Patched[Req(r).op] = "test" /\ Patch(r) = [data |-> Rows(Req(r))] BY <2>4 DEF Patched, Patch
    <3>2. "json" \in DOMAIN Req(r) /\ (Req(r).json = "invalid" \/ Listing(Rows(Req(r)))) BY <2>4, RequestsListed
    <3>3. Listing(Rows(Req(r))) BY <2>2, <3>2 DEF Invalid
    <3> QED BY <3>1, <3>3, <2>2, LaneUpdate
  <2>5. CASE Req(r).op = "moveTest"
    <3>1. Patched[Req(r).op] = "test" /\ Patch(r) = [folder |-> Req(r).folder] BY <2>5 DEF Patched, Patch
    <3> QED BY <3>1, <2>2, LaneUpdate
  <2>6. CASE Req(r).op \in {"renameFolder", "setCollapsed", "updateAction", "updateFlow"}
    <3>1. Patched[Req(r).op] \in Tables \ {"test", "run"} BY <2>6 DEF Patched
    <3> QED BY <3>1, <2>2, LaneUpdate
  <2> QED BY <2>1, <2>3, <2>4, <2>5, <2>6
<1>3. CASE DropRow(r)
  <2>1. Req(r).op \in {"removeAction", "removeSchedule", "removeSecret", "removeApiKey", "removeAlert"} BY <1>3 DEF DropRow, At, Dropped
  <2>2. Dropped[Req(r).op] \in Tables \ {"test"} BY <2>1 DEF Dropped
  <2>3. \E ids : Delete(Dropped[Req(r).op], ids) BY <1>3 DEF DropRow
  <2> QED BY <2>2, <2>3, LaneDelete
<1>4. CASE CreateSchedule(r) /\ ~ Read
  <2>1. Insert("schedule", [of |-> Req(r).id]) BY <1>4 DEF CreateSchedule
  <2> QED BY <2>1, LaneInsert
<1>5. CASE CreateApiKey(r)
  <2>1. Insert("apiKey", [of |-> 0, key |-> next]) BY <1>5 DEF CreateApiKey
  <2> QED BY <2>1, LaneInsert
<1>6. CASE InsertAlert(r)
  <2>1. \E row : Insert("alert", row) BY <1>6 DEF InsertAlert
  <2> QED BY <2>1, LaneInsert
<1> QED BY <1>1, <1>2, <1>3, <1>4, <1>5, <1>6 DEF Small, FindAlertTest

LEMMA FoldersLane ==
    ASSUME CatalogKnown, TestsReady, NEW r \in Requests, Folders(r)
    PROVE  Lane(r)
<1> USE TableNames
<1>1. CASE Read BY <1>1, LaneRead
<1>2. ASSUME NEW ids, NEW up, Update("folder", ids, [parent |-> up]) PROVE Lane(r) BY <1>2, LaneUpdate
<1>3. ASSUME NEW ids, NEW up, Update("test", ids, [folder |-> up]) PROVE Lane(r)
  <2>1. {"settings", "data"} \cap DOMAIN [folder |-> up] = {} OBVIOUS
  <2> QED BY <1>3, <2>1, LaneUpdate
<1>4. ASSUME NEW ids, Delete("folder", ids) PROVE Lane(r) BY <1>4, LaneDelete
<1>5. PlaceFolder(r) => Lane(r) BY <1>2 DEF PlaceFolder
<1>6. LiftFolders(r) => Lane(r) BY <1>2 DEF LiftFolders
<1>7. LiftTests(r) => Lane(r) BY <1>3 DEF LiftTests
<1>8. DeleteFolder(r) => Lane(r) BY <1>4 DEF DeleteFolder
<1>9. CheckMove(r) \/ FindFolder(r) => Read BY DEF CheckMove, FindFolder
<1> QED BY <1>1, <1>5, <1>6, <1>7, <1>8, <1>9 DEF Folders

LEMMA RunsLane ==
    ASSUME CatalogKnown, TestsReady, NEW r \in Requests, Runs(r)
    PROVE  Lane(r)
<1> USE TableNames
<1>1. CASE Read BY <1>1, LaneRead
<1>2. CASE AddJob(r)
  <2>1. db' = db BY <1>2 DEF AddJob
  <2> QED BY <2>1, LaneSame
<1>3. CASE InsertRun(r) /\ ~ Read
  <2>1. \E row : Insert("run", row) BY <1>3 DEF InsertRun
  <2> QED BY <2>1, LaneInsert
<1>4. CASE Execute(r) /\ ~ Read
  <2>1. \/ \E status : Update("run", {Req(r).id}, [status |-> status])
        \/ \E row : Insert("stepResult", row)
        \/ \E row : Insert("baseline", row)
    BY <1>4 DEF Execute
  <2>2. ASSUME NEW status, Update("run", {Req(r).id}, [status |-> status]) PROVE Lane(r)
    <3>1. "browser" \notin DOMAIN [status |-> status] OBVIOUS
    <3> QED BY <3>1, <2>2, LaneUpdate
  <2> QED BY <2>1, <2>2, LaneInsert
<1> QED BY <1>1, <1>2, <1>3, <1>4 DEF Runs, ReadTest, RetryReads, ListTests

LEMMA HandleLane ==
    ASSUME CatalogKnown, TestsReady, NEW r \in Requests, Handle(r)
    PROVE  Lane(r)
<1>1. Fails(r) => Lane(r) BY LaneRead DEF Fails
<1> QED BY <1>1, HomesLane, EditsLane, RemovalsLane, SmallLane, FoldersLane, RunsLane DEF Handle


(* What a test points at, or is about to, is a version of its own if it is there. *)
Owned(v, t) == v \in Ids("testVersion") => db.testVersion[v].of = t
PointsOwn ==
    /\ \A t \in Ids("test") : Owned(db.test[t].current, t)
    /\ \A r \in Requests :
          Req(r).op \in {"createTest", "updateTest"} /\ call[r].at = "current" => \A t \in call[r].seen : Owned(call[r].ids[1], t)

LEMMA OwnedStays ==
    ASSUME RowsHang, NEW r \in Requests, Handle(r), NEW v, NEW t, v # next, Owned(v, t)
    PROVE  Owned(v, t)'
<1>1. Effect(r) BY HandleEffect
<1>2. \A i \in Ids("testVersion")' : i # next => i \in Ids("testVersion") /\ db'.testVersion[i].of = db.testVersion[i].of
  BY <1>1, EffectGrows, TableNames
<1> QED BY <1>2 DEF Owned

LEMMA HeldVersion ==
    ASSUME RowsHang, NEW r \in Requests, Req(r).op \in {"createTest", "updateTest"}, call[r].at = "current"
    PROVE  call[r].ids[1] \in 1 .. next - 1
<1>1. HeldKnown(r) /\ CurrentKnown BY DEF RowsHang
<1>2. call[r].ids \in Seq(1 .. next - 1) /\ call[r].ids # << >> BY <1>1 DEF HeldKnown, CurrentKnown
<1>3. PICK q : q = call[r].ids OBVIOUS
<1> QED BY <1>2, <1>3, FirstOf

LEMMA PointsOwnStep ==
    ASSUME RowsHang, PointsOwn, NEW r \in Requests, Handle(r)
    PROVE  PointsOwn'
<1> USE TableNames
<1>0. CatalogKnown /\ RowsKnown /\ Effect(r) /\ next \in Nat BY HandleEffect DEF RowsHang, CatalogKnown
<1>1. CatalogKnown' BY <1>0, KnownStep DEF Next
<1>2. 0 \notin Ids("testVersion")'
  <2>1. Ids("testVersion")' \subseteq (1 .. next - 1)' BY <1>1 DEF CatalogKnown
  <2> QED BY <2>1
<1>3. ASSUME NEW t \in Ids("test")' PROVE Owned(db.test[t].current, t)'
  <2>1. CASE t \in Ids("test")
    <3>1. Owned(db.test[t].current, t) BY <2>1 DEF PointsOwn
    <3>2. db.test[t].current \in 0 .. next - 1 BY <2>1, <1>0 DEF RowsKnown
    <3>3. db.test[t].current # next BY <3>2, <1>0
    <3>4. CASE db'.test[t].current = db.test[t].current
      <4>1. PICK v : v = db.test[t].current OBVIOUS
      <4>2. Owned(v, t)' BY <3>1, <3>3, <4>1, OwnedStays
      <4> QED BY <4>1, <4>2, <3>4 DEF Owned
    <3>5. CASE Sets(r) /\ t \in call[r].seen /\ db'.test[t].current = call[r].ids[1]
      <4>1. PICK v : v = call[r].ids[1] OBVIOUS
      <4>2. v \in 1 .. next - 1 BY <3>5, <4>1, HeldVersion DEF Sets
      <4>3. Owned(v, t) BY <3>5, <4>1 DEF Sets, PointsOwn
      <4>4. v # next BY <4>2, <1>0
      <4>5. Owned(v, t)' BY <4>3, <4>4, OwnedStays
      <4> QED BY <4>1, <4>5, <3>5 DEF Owned
    <3>6. CASE db'.test[t].current = 0 BY <3>6, <1>2 DEF Owned
    <3> QED BY <2>1, <3>4, <3>5, <3>6, <1>0, CurrentMoves
  <2>2. CASE t \notin Ids("test")
    <3>1. t = next BY <2>2, <1>0, EffectGrows
    <3>2. Founded(r, "test", db'.test[t]) BY <3>1, <1>0, NewRow
    <3>3. db'.test[t].current = 0 BY <3>2 DEF Founded
    <3> QED BY <3>3, <1>2 DEF Owned
  <2> QED BY <2>1, <2>2
<1>4. Requests' = Requests /\ (\A s : Req(s)' = Req(s)) /\ \A s \in Requests \ {r} : call'[s] = call[s] BY Frame
<1>5. ASSUME NEW s \in Requests, Req(s).op \in {"createTest", "updateTest"}, call'[s].at = "current", NEW t \in call'[s].seen
      PROVE  Owned(call[s].ids[1], t)'
  <2>1. CASE s # r
    <3>1. call'[s] = call[s] BY <2>1, <1>4
    <3>2. PICK v : v = call[s].ids[1] OBVIOUS
    <3>3. v \in 1 .. next - 1 /\ Owned(v, t) BY <1>5, <3>1, <3>2, HeldVersion DEF PointsOwn
    <3>4. v # next BY <3>3, <1>0
    <3>5. Owned(v, t)' BY <3>3, <3>4, OwnedStays
    <3> QED BY <3>1, <3>2, <3>5 DEF Owned
  <2>2. CASE s = r
    <3>1. PICK u : call'[r].seen = {u} /\ call'[r].ids = << next >> /\ db'.testVersion[next].of = u
      BY <2>2, <1>5, EditGoes
    <3>2. t = u /\ call'[r].ids[1] = next BY <3>1, <2>2, <1>5
    <3> QED BY <3>1, <3>2, <2>2 DEF Owned
  <2> QED BY <2>1, <2>2
<1> QED BY <1>3, <1>4, <1>5 DEF PointsOwn


-----------------------------------------------------------------------------
(* What fan-outs and retries hold, and the jobs they have added. *)
Queueing(r) == Req(r).op \in Fanning \cup {"retry"}
Fans(r)     == Queueing(r) /\ call[r].at \in {"insert", "add"}
Waiting(r)  == Queueing(r) /\ call[r].at = "add"  \* its latest run has no job yet
Latest(r)   == Newest(call[r].seen)
Claimed(r)  == ToSet(call[r].ids) \cup (IF Fans(r) THEN call[r].seen ELSE {})
RunIs(i, v, b) == i \in Ids("run") => "browser" \in DOMAIN db.run[i] /\ db.run[i].browser = b /\ db.run[i].of = v
JobsKnown ==
    /\ \A j \in jobs : j.browser \notin Disabled /\ j.version \in 1 .. next - 1 /\ RunIs(j.run, j.version, j.browser)
    /\ \A j, k \in jobs : j.run = k.run => j = k
    /\ \A r \in Requests : Waiting(r) => \A j \in jobs : j.run # Latest(r)
    /\ \A r, s \in Requests : Waiting(s) /\ Queueing(r) /\ r # s => Latest(s) \notin Claimed(r)
BatchKnown(r) ==
    Fans(r) =>
        /\ Listing(call[r].batch) /\ \A p \in ToSet(call[r].batch) : Plan(p)
        /\ call[r].row = [version |-> call[r].row.version, flow |-> call[r].row.flow]
        /\ Waiting(r) => call[r].batch # << >> /\ RunIs(Latest(r), call[r].row.version, Head(call[r].batch).browser)

(* The tests of a request that it has passed, and those it has left. *)
Ends(all, left)   == Listing(left) /\ Len(left) <= Len(all) /\ \A i \in 1 .. Len(left) : left[i] = all[Len(all) - Len(left) + i]
Passed(all, left) == {all[m] : m \in 1 .. Len(all) - Len(left)}
Once(all, t)      == \A m, n \in DOMAIN all : all[m] = t /\ all[n] = t => m = n
NoneRemoved == \A s \in Requests : Req(s).op # "removeTest"
KeptTest(t) == t \in DOMAIN work.db.test /\ work.db.test[t].current # 0 /\ NoneRemoved
Unchanged(t) == db.test[t].settings = work.db.test[t].settings /\ db.test[t].data = work.db.test[t].data
KeptThere ==
    /\ NoneRemoved => DOMAIN work.db.test \subseteq Ids("test")
    /\ \A t \in DOMAIN work.db.test : t \in Ids("test") /\ Steady(t) => Unchanged(t)

(* What the jobs for some of its runs cover. *)
Queued(ids)   == {j \in jobs : j.run \in ids}
ForTest(M, t) == {j \in M : OwnVersion(t, j.version)}
Pairs(M)   == {[browser |-> j.browser, row |-> j.row] : j \in M}
AsAsked(t, S) == KeptTest(t) /\ Steady(t) => S = Asked(work.db.test[t])
Whole(t, S)   == Closed(S) /\ AsAsked(t, S)
Covered(M, t) ==
    /\ \A j, k \in ForTest(M, t) : j.version = k.version /\ \E l \in ForTest(M, t) : l.browser = j.browser /\ l.row = k.row
    /\ ForTest(M, t) # {} => AsAsked(t, Pairs(ForTest(M, t)))
Lost(M, P)       == {t \in P : KeptTest(t) /\ ForTest(M, t) = {}}
FewLost(M, P, n) == \E L : IsFiniteSet(L) /\ Cardinality(L) <= n /\ Lost(M, P) \subseteq L
Made(all, M, P, n) ==
    /\ \A j \in M : j.version \in Ids("testVersion") => db.testVersion[j.version].of \in P
    /\ \A t \in ToSet(all) : Once(all, t) => Covered(M, t)
    /\ FewLost(M, P, n)
HandKnown(r) ==
    LET c == call[r]
        t == Head(Left(r))
    IN  /\ ToSet(c.ids) \cap c.seen = {}
        /\ \A i \in c.seen : Queued({i}) # {} \/ (c.at = "add" /\ i = Latest(r))
        /\ \A j \in Queued(c.seen) : j.version = c.row.version
        /\ Whole(t, Pairs(Queued(c.seen)) \cup ToSet(c.batch)) /\ (c.seen # {} \/ c.batch # << >>)
        /\ Owned(c.row.version, t) /\ (KeptTest(t) => OwnVersion(t, c.row.version))
PlaceKnown(r) ==
    /\ Ends(Tests(r), Left(r))
    /\ call[r].at = "start" => call[r].ids = << >> /\ call[r].tests = << >>
    /\ call[r].at = "ok" => Left(r) = << >>
    /\ Fans(r) => Left(r) # << >>
ToldKnown(r) ==
    /\ \A m, n \in DOMAIN call[r].ids : call[r].ids[m] = call[r].ids[n] => m = n
    /\ \A i \in ToSet(call[r].ids) : Queued({i}) # {}
    /\ Made(Tests(r), Queued(ToSet(call[r].ids)), Passed(Tests(r), Left(r)), faults)
FanKnown(r) ==
    Req(r).op \in Fanning /\ call[r].at # "failed" =>
        PlaceKnown(r) /\ ToldKnown(r) /\ (Fans(r) => HandKnown(r))
QueueKnown ==
    /\ TestsReady /\ PointsOwn /\ JobsKnown /\ KeptThere
    /\ \A r \in Requests : BatchKnown(r) /\ FanKnown(r)


(* The tests that are passed, and the next. *)
LEMMA TestsListed ==
    ASSUME CatalogKnown, NEW r \in Requests, Req(r).op \in Fanning
    PROVE  Listing(Tests(r))
<1>1. CASE Req(r).op = "createRuns"
  <2>1. << Req(r).id >> \in Seq({Req(r).id}) OBVIOUS
  <2> QED BY <2>1, <1>1, ListingOf DEF Tests
<1>2. CASE Req(r).op = "createMany"
  <2>1. Req(r).op # "createRuns" BY <1>2
  <2> QED BY <2>1, <1>2, RequestsListed DEF Tests
<1> QED BY <1>1, <1>2 DEF Fanning

LEMMA PassedNone ==
    ASSUME NEW all, Listing(all)
    PROVE  /\ Ends(all, all) /\ Passed(all, all) = {}
           /\ Ends(all, << >>) /\ Passed(all, << >>) = ToSet(all)
<1>1. Len(all) \in Nat /\ DOMAIN all = 1 .. Len(all) BY ListDomain
<1>2. Len(all) - Len(all) = 0 /\ 1 .. 0 = {} BY <1>1
<1>3. \A i \in 1 .. Len(all) : Len(all) - Len(all) + i = i BY <1>1
<1>4. Ends(all, all) BY <1>1, <1>2, <1>3 DEF Ends
<1>5. Passed(all, all) = {} BY <1>2 DEF Passed
<1>6. Listing(<< >>)
  <2>1. << >> \in Seq({}) OBVIOUS
  <2> QED BY <2>1, ListingOf
<1>7. Len(<< >>) = 0 /\ Len(all) - 0 = Len(all) /\ 0 <= Len(all) BY <1>1
<1>8. Ends(all, << >>) BY <1>2, <1>6, <1>7 DEF Ends
<1>9. Passed(all, << >>) = ToSet(all) BY <1>1, <1>7 DEF Passed, ToSet
<1> QED BY <1>4, <1>5, <1>8, <1>9

LEMMA TailOf ==
    ASSUME NEW s, Listing(s), s # << >>
    PROVE  /\ Listing(Tail(s)) /\ Len(Tail(s)) = Len(s) - 1 /\ \A i \in 1 .. Len(s) - 1 : Tail(s)[i] = s[i + 1]
           /\ Head(s) = s[1] /\ ToSet(s) = {Head(s)} \cup ToSet(Tail(s)) /\ Len(s) \in Nat \ {0}
<1> DEFINE S == ToSet(s)
<1>1. s \in Seq(S) BY ListDomain
<1> HIDE DEF S
<1>2. Tail(s) \in Seq(S) /\ Len(Tail(s)) = Len(s) - 1 /\ Head(s) = s[1] /\ Len(s) \in Nat \ {0}
      /\ \A i \in 1 .. Len(s) - 1 : Tail(s)[i] = s[i + 1]
      /\ DOMAIN s = 1 .. Len(s) /\ DOMAIN Tail(s) = 1 .. Len(s) - 1
  BY <1>1
<1>3. Listing(Tail(s)) BY <1>2, ListingOf
<1>4. \A i \in DOMAIN s : s[i] \in {Head(s)} \cup ToSet(Tail(s))
  <2> SUFFICES ASSUME NEW i \in DOMAIN s PROVE s[i] \in {Head(s)} \cup ToSet(Tail(s)) OBVIOUS
  <2>1. CASE i = 1 BY <2>1, <1>2
  <2>2. CASE i # 1
    <3>1. i - 1 \in 1 .. Len(s) - 1 /\ (i - 1) + 1 = i BY <2>2, <1>2
    <3>2. Tail(s)[i - 1] = s[i] BY <3>1, <1>2
    <3> QED BY <3>1, <3>2, <1>2 DEF ToSet
  <2> QED BY <2>1, <2>2
<1>5. \A i \in DOMAIN Tail(s) : Tail(s)[i] \in ToSet(s)
  <2> SUFFICES ASSUME NEW i \in DOMAIN Tail(s) PROVE Tail(s)[i] \in ToSet(s) OBVIOUS
  <2>1. i + 1 \in DOMAIN s /\ Tail(s)[i] = s[i + 1] BY <1>2
  <2> QED BY <2>1 DEF ToSet
<1>6. Head(s) \in ToSet(s)
  <2>1. 1 \in DOMAIN s BY <1>2
  <2> QED BY <2>1, <1>2 DEF ToSet
<1>7. ToSet(s) \subseteq {Head(s)} \cup ToSet(Tail(s)) BY <1>4 DEF ToSet
<1>8. ToSet(Tail(s)) \subseteq ToSet(s) BY <1>5 DEF ToSet
<1>9. ToSet(s) = {Head(s)} \cup ToSet(Tail(s)) BY <1>6, <1>7, <1>8
<1> QED BY <1>2, <1>3, <1>9

LEMMA PassedNext ==
    ASSUME NEW all, Listing(all), NEW left, Ends(all, left), left # << >>
    PROVE  /\ Ends(all, Tail(left)) /\ Passed(all, Tail(left)) = Passed(all, left) \cup {Head(left)}
           /\ Head(left) \in ToSet(all) /\ (Once(all, Head(left)) => Head(left) \notin Passed(all, left))
<1> DEFINE n == Len(all)
           k == n - Len(left)
<1>1. n \in Nat /\ DOMAIN all = 1 .. n BY ListDomain
<1>2. Listing(left) /\ Len(left) <= n /\ \A i \in 1 .. Len(left) : left[i] = all[k + i] BY DEF Ends
<1>3. /\ Listing(Tail(left)) /\ Len(Tail(left)) = Len(left) - 1 /\ Len(left) \in Nat \ {0}
      /\ \A i \in 1 .. Len(left) - 1 : Tail(left)[i] = left[i + 1]
      /\ Head(left) = left[1]
  BY <1>2, TailOf
<1> HIDE DEF n
<1>4. k \in Nat /\ k + 1 \in 1 .. n /\ n - Len(Tail(left)) = k + 1 BY <1>1, <1>2, <1>3
<1>5. Head(left) = all[k + 1]
  <2>1. 1 \in 1 .. Len(left) BY <1>3
  <2> QED BY <2>1, <1>2, <1>3
<1>6. \A i \in 1 .. Len(Tail(left)) : Tail(left)[i] = all[n - Len(Tail(left)) + i]
  <2> SUFFICES ASSUME NEW i \in 1 .. Len(left) - 1 PROVE Tail(left)[i] = all[k + 1 + i] BY <1>3, <1>4
  <2>1. i + 1 \in 1 .. Len(left) /\ k + (i + 1) = k + 1 + i BY <1>3, <1>4
  <2> QED BY <2>1, <1>2, <1>3
<1>7. Ends(all, Tail(left)) BY <1>1, <1>2, <1>3, <1>6 DEF Ends, n
<1>8. Passed(all, Tail(left)) = {all[m] : m \in 1 .. k + 1} /\ Passed(all, left) = {all[m] : m \in 1 .. k}
  BY <1>4 DEF Passed, n
<1> HIDE DEF k
<1>9. 1 .. k + 1 = (1 .. k) \cup {k + 1} BY <1>4
<1>10. Passed(all, Tail(left)) = Passed(all, left) \cup {Head(left)} BY <1>5, <1>8, <1>9
<1>11. Head(left) \in ToSet(all) BY <1>1, <1>4, <1>5 DEF ToSet
<1>12. ASSUME Once(all, Head(left)), Head(left) \in Passed(all, left) PROVE FALSE
  <2>1. PICK m \in 1 .. k : all[m] = Head(left) BY <1>8, <1>12
  <2>2. m \in DOMAIN all /\ k + 1 \in DOMAIN all /\ m # k + 1 BY <1>1, <1>4
  <2> QED BY <2>1, <2>2, <1>5, <1>12 DEF Once
<1> QED BY <1>7, <1>10, <1>11, <1>12

LEMMA PassedSome ==
    ASSUME NEW all, Listing(all), NEW left, Ends(all, left)
    PROVE  Passed(all, left) \subseteq ToSet(all)
<1>1. Len(all) \in Nat /\ DOMAIN all = 1 .. Len(all) BY ListDomain
<1>2. Len(left) \in Nat BY ListDomain DEF Ends
<1>3. 1 .. Len(all) - Len(left) \subseteq DOMAIN all BY <1>1, <1>2
<1> QED BY <1>3 DEF Passed, ToSet


(* The steps of a fan-out or a retry. *)
Stops(r) ==    \* fails or is refused; or a retry that looks its run up
    Read /\ call'[r].ids = call[r].ids /\ call'[r].at \notin {"insert", "add"} /\ (Req(r).op = "retry" \/ call'[r].at = "failed")
Finishes(r) ==
    /\ Req(r).op \in Fanning /\ Read /\ call[r].at \in {"start", "test"} /\ Left(r) = << >>
    /\ call'[r].at = "ok" /\ call'[r].ids = call[r].ids /\ call'[r].tests = call[r].tests
Unfit(r) ==    \* the next test cannot be queued, or a statement for it fails
    \/ call[r].at \in {"start", "test"} /\ (Head(Left(r)) \notin Ids("test") \/ db.test[Head(Left(r))].current = 0)
    \/ call[r].at = "insert" /\ call[r].row.version \notin Ids("testVersion")
    \/ Left(r) # << >> /\ faults' = faults + 1
Skips(r) ==
    /\ Req(r).op \in Fanning /\ Read /\ Unfit(r)
    /\ call[r].at \in {"start", "test"} => Left(r) # << >>
    /\ call'[r].at = "test" /\ call'[r].ids = call[r].ids /\ call'[r].tests = Tail(Left(r))
Chooses(r) ==
    /\ Req(r).op \in Fanning /\ Read /\ call[r].at \in {"start", "test"} /\ Left(r) # << >>
    /\ call'[r].at = "insert" /\ call'[r].ids = call[r].ids /\ call'[r].tests = Left(r) /\ call'[r].seen = {}
    /\ \E t \in Ids("test") :
          /\ t = Head(Left(r)) /\ db.test[t].current # 0
          /\ call'[r].row = Shared(db.test[t], Req(r).flow) /\ call'[r].batch = Batch(db.test[t])
Picks(r) ==
    /\ Req(r).op = "retry" /\ Read /\ call[r].seen = {}
    /\ call'[r].at = "insert" /\ call'[r].ids = call[r].ids /\ call'[r].seen = {}
    /\ \E v, f, b : /\ b \notin Disabled /\ call'[r].row = [version |-> v, flow |-> f]
                    /\ call'[r].batch = << [row |-> << >>, browser |-> b] >>
Takes(r) ==
    /\ call[r].at = "insert" /\ call[r].batch # << >> /\ jobs' = jobs
    /\ Grown("run", [of |-> call[r].row.version, status |-> "queued", browser |-> Head(call[r].batch).browser])
    /\ call'[r].at = "add" /\ call'[r].seen = call[r].seen \cup {next} /\ call'[r].ids = call[r].ids
    /\ call'[r].tests = call[r].tests /\ call'[r].row = call[r].row /\ call'[r].batch = call[r].batch
Closes(r) ==
    /\ Req(r).op \in Fanning /\ Read /\ call[r].at = "insert" /\ call[r].batch = << >>
    /\ call'[r].at = "test" /\ call'[r].tests = Tail(call[r].tests) /\ call'[r].ids = call[r].ids \o SetToSeq(call[r].seen)
Queues(r) ==
    /\ call[r].at = "add" /\ db' = db /\ next' = next
    /\ jobs' = jobs \cup {[run |-> Latest(r)] ++ call[r].row ++ Head(call[r].batch)}
    /\ call'[r].at = (IF Req(r).op = "retry" THEN "ok" ELSE "insert")
    /\ call'[r].batch = Tail(call[r].batch) /\ call'[r].ids = call[r].ids /\ call'[r].seen = call[r].seen
    /\ call'[r].tests = call[r].tests /\ call'[r].row = call[r].row

LEMMA GoesTo ==
    ASSUME CatalogKnown, NEW r \in Requests, NEW place, Go(r, place)
    PROVE  /\ call'[r].at = place /\ call'[r].ids = call[r].ids /\ call'[r].seen = call[r].seen
           /\ call'[r].tests = call[r].tests /\ call'[r].row = call[r].row /\ call'[r].batch = call[r].batch
BY Kept

LEMMA SkipGoesOn ==
    ASSUME CatalogKnown, NEW r \in Requests, Req(r).op \in Fanning, Read, Unfit(r), Skip(r, Tail(Left(r))),
           call[r].at \in {"start", "test"} => Left(r) # << >>
    PROVE  Stops(r) \/ Skips(r)
<1>1. CASE Go(r, "failed") BY <1>1, GoesTo DEF Stops
<1>2. CASE GoWith(r, "test", [tests |-> Tail(Left(r))])
  <2> DEFINE what == [tests |-> Tail(Left(r))]
  <2>1. DOMAIN what = {"tests"} /\ what.tests = Tail(Left(r)) OBVIOUS
  <2>2. GoWith(r, "test", what) BY <1>2
  <2> HIDE DEF what
  <2>3. call'[r].at = "test" /\ call'[r].tests = Tail(Left(r)) /\ call'[r].ids = call[r].ids BY <2>1, <2>2, Carried
  <2> QED BY <2>3 DEF Skips
<1> QED BY <1>1, <1>2 DEF Skip

LEMMA ReadTestGoes ==
    ASSUME CatalogKnown, NEW r \in Requests, ReadTest(r)
    PROVE  Stops(r) \/ Finishes(r) \/ Skips(r) \/ Chooses(r)
<1>1. Req(r).op \in Fanning /\ Read /\ call[r].at \in {"start", "test"} BY DEF ReadTest, At
<1> DEFINE left == Left(r)
           test == db.test[Head(left)]
           what == [tests |-> left, seen |-> {}, row |-> Shared(test, Req(r).flow), batch |-> Batch(test)]
<1>2. \/ left = << >> /\ Go(r, "ok")
      \/ left # << >> /\ (Head(left) \notin Ids("test") \/ test.current = 0) /\ Skip(r, Tail(left))
      \/ left # << >> /\ Head(left) \in Ids("test") /\ test.current # 0 /\ GoWith(r, "insert", what)
  BY DEF ReadTest, Left
<1>3. CASE left = << >> /\ Go(r, "ok") BY <1>1, <1>3, GoesTo DEF Finishes
<1>4. CASE left # << >> /\ (Head(left) \notin Ids("test") \/ test.current = 0) /\ Skip(r, Tail(left))
  BY <1>1, <1>4, SkipGoesOn DEF Unfit
<1>5. CASE left # << >> /\ Head(left) \in Ids("test") /\ test.current # 0 /\ GoWith(r, "insert", what)
  <2>1. DOMAIN what = {"tests", "seen", "row", "batch"} OBVIOUS
  <2>2. what.tests = left /\ what.seen = {} OBVIOUS
  <2>3. what.row = Shared(test, Req(r).flow) /\ what.batch = Batch(test) OBVIOUS
  <2> HIDE DEF what
  <2>4. DOMAIN what \subseteq {"seen", "runs", "row", "tests", "batch", "ids"} /\ "row" \in DOMAIN what
        /\ "batch" \in DOMAIN what /\ "seen" \in DOMAIN what /\ "tests" \in DOMAIN what /\ "ids" \notin DOMAIN what
    BY <2>1
  <2>5. call'[r].at = "insert" /\ call'[r].ids = call[r].ids /\ call'[r].tests = what.tests /\ call'[r].seen = what.seen
        /\ call'[r].row = what.row /\ call'[r].batch = what.batch
    BY <1>5, <2>4, Carried
  <2> QED BY <1>1, <1>5, <2>2, <2>3, <2>5 DEF Chooses
<1> QED BY <1>2, <1>3, <1>4, <1>5

LEMMA InsertRunGoes ==
    ASSUME RowsHang, NEW r \in Requests, InsertRun(r)
    PROVE  Stops(r) \/ Skips(r) \/ Takes(r) \/ Closes(r)
<1>0. CatalogKnown /\ HeldKnown(r) BY DEF RowsHang
<1>1. Req(r).op \in Fanning \cup {"retry"} /\ call[r].at = "insert" BY DEF InsertRun, At
<1>2. Req(r).op = "retry" => call[r].batch # << >> BY <1>0, <1>1 DEF HeldKnown
<1>3. CASE call[r].batch = << >>
  <2> DEFINE what == [tests |-> Tail(call[r].tests), ids |-> call[r].ids \o SetToSeq(call[r].seen)]
  <2>1. DOMAIN what = {"tests", "ids"} /\ what.tests = Tail(call[r].tests) OBVIOUS
  <2>2. what.ids = call[r].ids \o SetToSeq(call[r].seen) OBVIOUS
  <2>3. GoWith(r, "test", what) /\ Read BY <1>3 DEF InsertRun
  <2> HIDE DEF what
  <2>4. DOMAIN what \subseteq {"seen", "runs", "row", "tests", "batch", "ids"} /\ "ids" \in DOMAIN what /\ "tests" \in DOMAIN what
    BY <2>1
  <2>5. call'[r].at = "test" /\ call'[r].ids = what.ids /\ call'[r].tests = what.tests BY <1>0, <2>3, <2>4, Carried
  <2> QED BY <1>1, <1>2, <1>3, <2>1, <2>2, <2>3, <2>5 DEF Closes
<1>4. CASE call[r].batch # << >>
  <2> DEFINE row == [of |-> call[r].row.version, status |-> "queued", browser |-> Head(call[r].batch).browser]
             what == [seen |-> call[r].seen \cup {next}]
  <2>1. \/ Insert("run", row) /\ GoWith(r, "add", what)
        \/ /\ ~ Insertable("run", row) /\ Read
           /\ IF Req(r).op = "retry" THEN Go(r, "failed") ELSE Skip(r, Tail(call[r].tests))
    BY <1>4 DEF InsertRun
  <2>2. DOMAIN what = {"seen"} /\ what.seen = call[r].seen \cup {next} OBVIOUS
  <2>3. row.of = call[r].row.version OBVIOUS
  <2> HIDE DEF what
  <2>4. CASE Insert("run", row) /\ GoWith(r, "add", what)
    <3>1. "run" \in Tables BY TableNames
    <3>2. Grown("run", row) /\ jobs' = jobs BY <2>4, <3>1, <1>0, InsertShape DEF Insert
    <3>3. call'[r].at = "add" /\ call'[r].ids = call[r].ids /\ call'[r].seen = call[r].seen \cup {next}
          /\ call'[r].tests = call[r].tests /\ call'[r].row = call[r].row /\ call'[r].batch = call[r].batch
      BY <2>2, <2>4, <1>0, Carried
    <3> QED BY <1>1, <1>4, <3>2, <3>3 DEF Takes
  <2>5. CASE ~ Insertable("run", row) /\ Read /\ Req(r).op = "retry" /\ Go(r, "failed")
    BY <2>5, <1>0, GoesTo DEF Stops
  <2>6. CASE ~ Insertable("run", row) /\ Read /\ Req(r).op # "retry" /\ Skip(r, Tail(call[r].tests))
    <3>1. call[r].row.version \notin Ids("testVersion") BY <2>3, <2>6 DEF Insertable, References
    <3>2. Left(r) = call[r].tests /\ Unfit(r) BY <1>1, <3>1 DEF Left, Unfit
    <3> QED BY <1>0, <1>1, <2>6, <3>2, SkipGoesOn
  <2> QED BY <2>1, <2>4, <2>5, <2>6
<1> QED BY <1>3, <1>4

LEMMA AddJobGoes ==
    ASSUME CatalogKnown, NEW r \in Requests, AddJob(r)
    PROVE  Queues(r)
<1> DEFINE what == [batch |-> Tail(call[r].batch)]
           place == IF Req(r).op = "retry" THEN "ok" ELSE "insert"
<1>1. DOMAIN what = {"batch"} /\ what.batch = Tail(call[r].batch) OBVIOUS
<1>2. GoWith(r, place, what) /\ db' = db /\ next' = next /\ call[r].at = "add"
      /\ jobs' = jobs \cup {[run |-> Newest(call[r].seen)] ++ call[r].row ++ Head(call[r].batch)}
  BY DEF AddJob, At
<1> HIDE DEF what, place
<1>3. DOMAIN what \subseteq {"seen", "runs", "row", "tests", "batch", "ids"} /\ "batch" \in DOMAIN what BY <1>1
<1>4. call'[r].at = place /\ call'[r].batch = what.batch BY <1>2, <1>3, Carried
<1>5. /\ call'[r].ids = call[r].ids /\ call'[r].seen = call[r].seen
      /\ call'[r].tests = call[r].tests /\ call'[r].row = call[r].row
  BY <1>1, <1>2, <1>3, Carried
<1> QED BY <1>1, <1>2, <1>4, <1>5 DEF Queues, Latest, place

LEMMA RetryGoes ==
    ASSUME RowsHang, NEW r \in Requests, RetryReads(r)
    PROVE  Stops(r) \/ Picks(r)
<1>0. CatalogKnown /\ HeldKnown(r) BY DEF RowsHang
<1>1. Req(r).op = "retry" /\ Read /\ call[r].at \in {"start", "version", "test"} BY DEF RetryReads, At
<1>2. call[r].seen = {} BY <1>0, <1>1 DEF HeldKnown
<1> DEFINE run == db.run[Req(r).id]
           flow == IF call[r].tests[1] \in Ids("test") THEN db.test[call[r].tests[1]].settings.flow ELSE 0
           browser == IF call[r].row[2] \in Disabled THEN "chromium" ELSE call[r].row[2]
           what == [row |-> [version |-> call[r].row[1], flow |-> flow], batch |-> << [row |-> << >>, browser |-> browser] >>]
<1>3. \/ Go(r, "refused")
      \/ \E x : GoWith(r, "version", [row |-> x])
      \/ \E x : GoWith(r, "test", [tests |-> x])
      \/ GoWith(r, "insert", what)
  BY DEF RetryReads, At
<1>4. CASE Go(r, "refused") BY <1>0, <1>1, <1>4, GoesTo DEF Stops
<1>5. ASSUME NEW x, GoWith(r, "version", [row |-> x]) PROVE Stops(r)
  <2>1. DOMAIN [row |-> x] = {"row"} OBVIOUS
  <2>2. call'[r].at = "version" /\ call'[r].ids = call[r].ids BY <1>0, <1>5, <2>1, Carried
  <2> QED BY <1>1, <2>2 DEF Stops
<1>6. ASSUME NEW x, GoWith(r, "test", [tests |-> x]) PROVE Stops(r)
  <2>1. DOMAIN [tests |-> x] = {"tests"} OBVIOUS
  <2>2. call'[r].at = "test" /\ call'[r].ids = call[r].ids BY <1>0, <1>6, <2>1, Carried
  <2> QED BY <1>1, <2>2 DEF Stops
<1>7. CASE GoWith(r, "insert", what)
  <2>1. browser \notin Disabled BY FanOutAssumption
  <2> HIDE DEF flow, browser
  <2>2. DOMAIN what = {"row", "batch"} OBVIOUS
  <2>3. what.row = [version |-> call[r].row[1], flow |-> flow] OBVIOUS
  <2>4. what.batch = << [row |-> << >>, browser |-> browser] >> OBVIOUS
  <2> HIDE DEF what
  <2>5. DOMAIN what \subseteq {"seen", "runs", "row", "tests", "batch", "ids"} /\ "row" \in DOMAIN what
        /\ "batch" \in DOMAIN what /\ "seen" \notin DOMAIN what /\ "ids" \notin DOMAIN what
    BY <2>2
  <2>6. call'[r].at = "insert" /\ call'[r].ids = call[r].ids /\ call'[r].seen = call[r].seen
        /\ call'[r].row = what.row /\ call'[r].batch = what.batch
    BY <1>0, <1>7, <2>5, Carried
  <2> QED BY <1>1, <1>2, <2>1, <2>3, <2>4, <2>6 DEF Picks
<1> HIDE DEF what
<1> QED BY <1>3, <1>4, <1>5, <1>6, <1>7

LEMMA FanGoes ==
    ASSUME RowsHang, NEW r \in Requests, Handle(r), Queueing(r)
    PROVE  Stops(r) \/ Finishes(r) \/ Skips(r) \/ Chooses(r) \/ Picks(r) \/ Takes(r) \/ Closes(r) \/ Queues(r)
<1>0. CatalogKnown BY DEF RowsHang
<1>1. Req(r).op \in {"createRuns", "createMany", "retry"} BY DEF Queueing, Fanning
<1>2. Runs(r) \/ Fails(r)
  BY <1>1, HandlerOf DEF InProject, InOrg, Patched, Dropped
<1>3. CASE Fails(r)
  <2>1. Read BY <1>3 DEF Fails
  <2>2. Go(r, "failed") => Stops(r)
    <3>1. Go(r, "failed") => call'[r].at = "failed" /\ call'[r].ids = call[r].ids BY <1>0, GoesTo
    <3> QED BY <2>1, <3>1 DEF Stops
  <2>3. CASE Req(r).op \in Fanning
    <3>1. Left(r) # << >> /\ Unfit(r) /\ Skip(r, Tail(Left(r))) BY <1>3, <2>3 DEF Fails, Queuing, Unfit
    <3> QED BY <1>0, <2>1, <2>3, <3>1, SkipGoesOn
  <2> QED BY <1>3, <2>2, <2>3 DEF Fails
<1>4. CASE Runs(r)
  <2>1. ~ ListTests(r) /\ ~ Execute(r) BY <1>1 DEF ListTests, Execute, At
  <2> QED BY <1>0, <1>4, <2>1, ReadTestGoes, InsertRunGoes, AddJobGoes, RetryGoes DEF Runs
<1> QED BY <1>2, <1>3, <1>4


(* The job that a step of a fan-out adds, and the runs it speaks for. *)
LEMMA LatestSeen ==
    ASSUME RowsHang, NEW r \in Requests, Waiting(r)
    PROVE  /\ Latest(r) \in call[r].seen /\ Latest(r) \in 1 .. next - 1 /\ Latest(r) \in Claimed(r) /\ Fans(r)
           /\ \A i \in call[r].seen : i <= Latest(r)
<1>1. HeldKnown(r) BY DEF RowsHang
<1>2. Req(r).op \in Fanning \cup {"retry"} /\ call[r].at = "add" /\ Fans(r) BY DEF Waiting, Fans, Queueing
<1>3. call[r].seen \subseteq 1 .. next - 1 /\ \E i \in call[r].seen : \A j \in call[r].seen : j <= i
  BY <1>1, <1>2 DEF HeldKnown
<1>4. Latest(r) \in call[r].seen /\ \A j \in call[r].seen : j <= Latest(r) BY <1>3 DEF Latest, Newest
<1> QED BY <1>2, <1>3, <1>4 DEF Claimed

LEMMA ClaimedRuns ==
    ASSUME RowsHang, NEW r \in Requests, Queueing(r)
    PROVE  Claimed(r) \subseteq 1 .. next - 1
<1>1. HeldKnown(r) BY DEF RowsHang
<1>2. call[r].ids \in Seq(1 .. next - 1) BY <1>1 DEF HeldKnown
<1>3. ToSet(call[r].ids) \subseteq 1 .. next - 1 BY <1>2, ListingOf
<1>4. Fans(r) => call[r].seen \subseteq 1 .. next - 1 BY <1>1 DEF HeldKnown, Fans, Queueing
<1> QED BY <1>3, <1>4 DEF Claimed

LEMMA ClosedIds ==
    ASSUME RowsHang, NEW r \in Requests, Fans(r)
    PROVE  /\ IsFiniteSet(call[r].seen)
           /\ LET ids == call[r].ids \o SetToSeq(call[r].seen) IN
              /\ ToSet(ids) = ToSet(call[r].ids) \cup call[r].seen
              /\ (\A m, n \in DOMAIN call[r].ids : call[r].ids[m] = call[r].ids[n] => m = n)
                 /\ ToSet(call[r].ids) \cap call[r].seen = {}
                 => \A m, n \in DOMAIN ids : ids[m] = ids[n] => m = n
<1>1. HeldKnown(r) BY DEF RowsHang
<1>2. call[r].ids \in Seq(1 .. next - 1) /\ IsFiniteSet(call[r].seen) /\ call[r].seen \subseteq 1 .. next - 1
  BY <1>1 DEF HeldKnown, Fans, Queueing
<1> DEFINE p == call[r].ids
           q == SetToSeq(call[r].seen)
           S == 1 .. next - 1
<1>3. q \in Seq(call[r].seen) /\ ToSet(q) = call[r].seen /\ \A i, j \in DOMAIN q : q[i] = q[j] => i = j BY <1>2, ListOfSet
<1>4. p \in Seq(S) /\ call[r].seen \subseteq S BY <1>2
<1> HIDE DEF p, q, S
<1>5. q \in Seq(S) BY <1>3, <1>4, SeqWider
<1>6. ToSet(p \o q) = ToSet(p) \cup ToSet(q) BY <1>4, <1>5, JoinedIn
<1>7. ASSUME \A m, n \in DOMAIN p : p[m] = p[n] => m = n, ToSet(p) \cap call[r].seen = {}
      PROVE  \A m, n \in DOMAIN (p \o q) : (p \o q)[m] = (p \o q)[n] => m = n
  <2> DEFINE a == Len(p)
             b == Len(q)
             pq == p \o q
  <2>1. /\ a \in Nat /\ b \in Nat /\ DOMAIN p = 1 .. a /\ DOMAIN q = 1 .. b /\ DOMAIN pq = 1 .. a + b
        /\ \A i \in 1 .. a : pq[i] = p[i]
    BY <1>4, <1>5
  <2>2. \A i \in 1 .. b : pq[a + i] = q[i] BY <1>4, <1>5
  <2> HIDE DEF a, b, pq
  <2>3. \A i \in 1 .. a + b : i <= a \/ (i - a \in 1 .. b /\ pq[i] = q[i - a])
    <3> SUFFICES ASSUME NEW i \in 1 .. a + b, ~ (i <= a) PROVE i - a \in 1 .. b /\ pq[i] = q[i - a] OBVIOUS
    <3>1. i - a \in 1 .. b /\ a + (i - a) = i BY <2>1
    <3> QED BY <3>1, <2>2
  <2>4. \A i \in 1 .. a, j \in 1 .. b : p[i] # q[j]
    <3>1. \A i \in 1 .. a : p[i] \in ToSet(p) BY <2>1 DEF ToSet
    <3>2. \A j \in 1 .. b : q[j] \in call[r].seen BY <2>1, <1>3 DEF ToSet
    <3> QED BY <3>1, <3>2, <1>7
  <2> SUFFICES ASSUME NEW m \in 1 .. a + b, NEW n \in 1 .. a + b, pq[m] = pq[n] PROVE m = n BY <2>1 DEF pq
  <2>5. CASE m <= a /\ n <= a
    <3>1. m \in 1 .. a /\ n \in 1 .. a BY <2>1, <2>5
    <3> QED BY <3>1, <2>1, <1>7
  <2>6. CASE m <= a /\ ~ (n <= a)
    <3>1. m \in 1 .. a BY <2>1, <2>6
    <3> QED BY <3>1, <2>1, <2>3, <2>4, <2>6
  <2>7. CASE ~ (m <= a) /\ n <= a
    <3>1. n \in 1 .. a BY <2>1, <2>7
    <3> QED BY <3>1, <2>1, <2>3, <2>4, <2>7
  <2>8. CASE ~ (m <= a) /\ ~ (n <= a)
    <3>1. m - a \in 1 .. b /\ n - a \in 1 .. b /\ q[m - a] = q[n - a] BY <2>3, <2>8
    <3>2. m - a = n - a BY <3>1, <2>1, <1>3
    <3> QED BY <3>2, <2>1
  <2> QED BY <2>5, <2>6, <2>7, <2>8
<1> QED BY <1>2, <1>3, <1>6, <1>7 DEF p, q

LEMMA ClaimedGoes ==
    ASSUME RowsHang, NEW r \in Requests, Handle(r), NEW s \in Requests, Queueing(s)
    PROVE  Claimed(s)' \subseteq Claimed(s) \cup {next} /\ (r # s => Claimed(s)' = Claimed(s))
<1>1. Queueing(s)' /\ (s # r => call'[s] = call[s]) BY Frame DEF Queueing
<1>2. r # s => Claimed(s)' = Claimed(s) BY <1>1, Frame DEF Claimed, Fans
<1>3. CASE r = s
  <2>1. Fans(r)' <=> call'[r].at \in {"insert", "add"} BY <1>1, <1>3 DEF Fans
  <2>2. Fans(r) <=> call[r].at \in {"insert", "add"} BY <1>3 DEF Fans
  <2>3. Stops(r) => Claimed(r)' \subseteq Claimed(r) BY <2>1 DEF Stops, Claimed
  <2>4. Finishes(r) => Claimed(r)' \subseteq Claimed(r) BY <2>1 DEF Finishes, Claimed
  <2>5. Skips(r) => Claimed(r)' \subseteq Claimed(r) BY <2>1 DEF Skips, Claimed
  <2>6. Chooses(r) => Claimed(r)' \subseteq Claimed(r) BY DEF Chooses, Claimed
  <2>7. Picks(r) => Claimed(r)' \subseteq Claimed(r) BY DEF Picks, Claimed
  <2>8. Takes(r) => Claimed(r)' \subseteq Claimed(r) \cup {next} BY <2>2 DEF Takes, Claimed
  <2>9. Queues(r) => Claimed(r)' \subseteq Claimed(r) BY <2>2 DEF Queues, Claimed
  <2>10. ASSUME Closes(r) PROVE Claimed(r)' \subseteq Claimed(r)
    <3>1. Fans(r) /\ ~ Fans(r)' BY <2>1, <2>2, <2>10 DEF Closes
    <3>2. ToSet(call'[r].ids) = ToSet(call[r].ids) \cup call[r].seen BY <3>1, <2>10, ClosedIds DEF Closes
    <3> QED BY <3>1, <3>2 DEF Claimed
  <2> QED BY <2>3, <2>4, <2>5, <2>6, <2>7, <2>8, <2>9, <2>10, <1>3, FanGoes
<1> QED BY <1>2, <1>3

LEMMA RunIsStays ==
    ASSUME RowsHang, TestsReady, NEW r \in Requests, Handle(r), NEW i \in 1 .. next - 1, NEW v, NEW b, RunIs(i, v, b)
    PROVE  RunIs(i, v, b)'
<1>1. CatalogKnown /\ Effect(r) BY HandleEffect DEF RowsHang
<1>2. next \in Nat /\ \A k \in Ids("run")' : k # next => k \in Ids("run") /\ db'.run[k].of = db.run[k].of
  BY <1>1, EffectGrows, TableNames
<1>3. BrowserStays BY <1>1, HandleLane DEF Lane
<1>4. i # next BY <1>2
<1>5. i \in Ids("run")' => i \in Ids("run") /\ db'.run[i].of = db.run[i].of BY <1>2, <1>4
<1> QED BY <1>3, <1>5 DEF RunIs, BrowserStays

LEMMA JobAdded ==
    ASSUME RowsHang, NEW r \in Requests, Queueing(r), BatchKnown(r), Queues(r)
    PROVE  \E j : /\ jobs' = jobs \cup {j} /\ Waiting(r)
                  /\ j.run = Latest(r) /\ j.version = call[r].row.version
                  /\ j.browser = Head(call[r].batch).browser /\ j.row = Head(call[r].batch).row
                  /\ j.browser \notin Disabled /\ RunIs(j.run, j.version, j.browser)
<1>1. Waiting(r) /\ Fans(r) BY DEF Queues, Waiting, Fans
<1>2. /\ Listing(call[r].batch) /\ call[r].batch # << >> /\ \A p \in ToSet(call[r].batch) : Plan(p)
      /\ call[r].row = [version |-> call[r].row.version, flow |-> call[r].row.flow]
      /\ RunIs(Latest(r), call[r].row.version, Head(call[r].batch).browser)
  BY <1>1 DEF BatchKnown
<1> DEFINE p == Head(call[r].batch)
           row == call[r].row
           job == [run |-> Latest(r)] ++ row ++ p
<1>3. p \in ToSet(call[r].batch) BY <1>2, TailOf
<1>4. p = [browser |-> p.browser, row |-> p.row] /\ p.browser \notin Disabled BY <1>2, <1>3 DEF Plan
<1>5. DOMAIN p = {"browser", "row"} BY <1>4
<1>6. DOMAIN row = {"version", "flow"} BY <1>2
<1>7. jobs' = jobs \cup {job} BY DEF Queues
<1> HIDE DEF p, row
<1>8. job.run = Latest(r) BY <1>5, <1>6 DEF ++
<1>9. job.version = row.version BY <1>5, <1>6 DEF ++
<1>10. job.browser = p.browser BY <1>5, <1>6 DEF ++
<1>11. job.row = p.row BY <1>5, <1>6 DEF ++
<1> HIDE DEF job
<1> QED BY <1>1, <1>2, <1>4, <1>7, <1>8, <1>9, <1>10, <1>11 DEF p, row


LEMMA LatestNext ==
    ASSUME RowsHang, NEW r \in Requests, Handle(r), Queueing(r), Waiting(r)'
    PROVE  Takes(r) /\ Latest(r)' = next /\ Fans(r) /\ next \in Nat /\ \A i \in call[r].seen : i # next /\ i < next
<1>0. CatalogKnown /\ HeldKnown(r) BY DEF RowsHang
<1>1. call'[r].at = "add" BY DEF Waiting
<1>2. Takes(r) BY <1>1, FanGoes DEF Stops, Finishes, Skips, Chooses, Picks, Closes, Queues
<1>3. Fans(r) /\ call'[r].seen = call[r].seen \cup {next} BY <1>2 DEF Takes, Fans
<1>4. call[r].seen \subseteq 1 .. next - 1 /\ next \in Nat BY <1>0, <1>3 DEF HeldKnown, Fans, Queueing, CatalogKnown
<1>5. \A i \in call[r].seen : i # next /\ i < next BY <1>4
<1> DEFINE S == call[r].seen \cup {next}
<1>6. \A i \in S : i <= next BY <1>4, <1>5
<1>7. \A i \in S : (\A j \in S : j <= i) => i = next BY <1>4, <1>5
<1>8. next \in S /\ \A j \in S : j <= next BY <1>6
<1>9. call'[r].seen = S BY <1>3
<1> HIDE DEF S
<1>10. Newest(S) = next BY <1>7, <1>8 DEF Newest
<1>11. Latest(r)' = next BY <1>9, <1>10 DEF Latest
<1> QED BY <1>2, <1>3, <1>4, <1>5, <1>11

LEMMA JobsNext ==
    ASSUME RowsHang, TestsReady, JobsKnown, NEW r \in Requests, BatchKnown(r), Handle(r)
    PROVE  JobsKnown'
<1> DEFINE Fit(j) == j.browser \notin Disabled /\ j.version \in 1 .. next - 1 /\ RunIs(j.run, j.version, j.browser)
<1>0. /\ next \in Nat /\ 1 .. next - 1 \subseteq 1 .. next' - 1
      /\ \A j \in jobs : j.run \in 1 .. next - 1
  BY HandleEffect, EffectGrows DEF RowsHang
<1>1. Requests' = Requests /\ \A s \in Requests : (Queueing(s)' <=> Queueing(s)) /\ (s # r => call'[s] = call[s])
  BY Frame DEF Queueing
<1>2. \A s \in Requests \ {r} : (Waiting(s)' <=> Waiting(s)) /\ Latest(s)' = Latest(s) BY <1>1 DEF Waiting, Latest
<1>3. \/ jobs' = jobs
      \/ Queueing(r) /\ ~ Waiting(r)' /\ \E j : /\ jobs' = jobs \cup {j} /\ Waiting(r) /\ j.run = Latest(r) /\ Fit(j)
  <2>1. CASE AddJob(r)
    <3>1. Queueing(r) BY <2>1 DEF AddJob, At, Queueing
    <3>2. CatalogKnown /\ HeldKnown(r) BY DEF RowsHang
    <3>3. Queues(r) BY <2>1, <3>2, AddJobGoes
    <3>4. PICK j : /\ jobs' = jobs \cup {j} /\ Waiting(r) /\ j.run = Latest(r) /\ j.version = call[r].row.version
                   /\ j.browser \notin Disabled /\ RunIs(j.run, j.version, j.browser)
      BY <3>1, <3>3, JobAdded
    <3>5. call[r].row.version \in 1 .. next - 1 BY <3>2, <3>4 DEF HeldKnown, Waiting, Queueing
    <3>6. ~ Waiting(r)' BY <3>3 DEF Queues, Waiting
    <3> QED BY <3>1, <3>4, <3>5, <3>6
  <2> QED BY <2>1, JobsGo
<1>4. \A j \in jobs : Fit(j) BY DEF JobsKnown
<1>5. \A j \in jobs' : Fit(j) /\ j.run \in 1 .. next - 1 BY <1>0, <1>3, <1>4, LatestSeen
<1>6. ASSUME NEW j \in jobs'
      PROVE  j.browser \notin Disabled /\ j.version \in 1 .. next' - 1 /\ RunIs(j.run, j.version, j.browser)'
  <2>1. Fit(j) /\ j.run \in 1 .. next - 1 BY <1>5
  <2>2. RunIs(j.run, j.version, j.browser)' BY <2>1, RunIsStays
  <2> QED BY <2>1, <2>2, <1>0
<1> HIDE DEF Fit
<1>7. \A j, k \in jobs' : j.run = k.run => j = k BY <1>3 DEF JobsKnown
<1>8. ASSUME NEW s \in Requests, Waiting(s)', NEW j \in jobs' PROVE j.run # Latest(s)'
  <2>1. CASE s # r
    <3>1. Waiting(s) /\ Latest(s)' = Latest(s) BY <1>2, <1>8, <2>1
    <3>2. CASE j \in jobs BY <3>1, <3>2 DEF JobsKnown
    <3>3. CASE j \notin jobs
      <4>1. Queueing(r) /\ Waiting(r) /\ j.run = Latest(r) BY <1>3, <3>3
      <4>2. Latest(s) \notin Claimed(r) BY <2>1, <3>1, <4>1 DEF JobsKnown
      <4> QED BY <3>1, <4>1, <4>2, LatestSeen
    <3> QED BY <3>2, <3>3
  <2>2. CASE s = r
    <3>1. Queueing(r) BY <1>1, <1>8, <2>2 DEF Waiting
    <3>2. Latest(r)' = next BY <1>8, <2>2, <3>1, LatestNext
    <3> QED BY <3>2, <2>2, <1>0, <1>5
  <2> QED BY <2>1, <2>2
<1>9. ASSUME NEW q \in Requests, NEW s \in Requests, Waiting(s)', Queueing(q), q # s PROVE Latest(s)' \notin Claimed(q)'
  <2>1. CASE s # r
    <3>1. Waiting(s) /\ Latest(s)' = Latest(s) BY <1>2, <1>9, <2>1
    <3>2. Latest(s) \notin Claimed(q) BY <3>1, <1>9 DEF JobsKnown
    <3>3. Latest(s) \in 1 .. next - 1 BY <3>1, LatestSeen
    <3>4. Latest(s) # next BY <3>3, <1>0
    <3> QED BY <3>1, <3>2, <3>4, <1>9, ClaimedGoes
  <2>2. CASE s = r
    <3>1. Queueing(r) BY <1>1, <1>9, <2>2 DEF Waiting
    <3>2. Latest(r)' = next BY <1>9, <2>2, <3>1, LatestNext
    <3>3. Claimed(q)' = Claimed(q) BY <1>9, <2>2, ClaimedGoes
    <3>4. Claimed(q) \subseteq 1 .. next - 1 BY <1>9, ClaimedRuns
    <3>5. next \notin 1 .. next - 1 BY <1>0
    <3> QED BY <3>2, <3>3, <3>4, <3>5, <2>2
  <2> QED BY <2>1, <2>2
<1> QED BY <1>1, <1>6, <1>7, <1>8, <1>9 DEF JobsKnown

LEMMA BatchNext ==
    ASSUME RowsHang, TestsReady, NEW r \in Requests, Handle(r), NEW s \in Requests, BatchKnown(s)
    PROVE  BatchKnown(s)'
<1>0. CatalogKnown /\ HeldKnown(s) BY DEF RowsHang
<1>1. (Queueing(s)' <=> Queueing(s)) /\ (s # r => call'[s] = call[s]) BY Frame DEF Queueing
<1>2. CASE s # r
  <2>1. (Fans(s)' <=> Fans(s)) /\ (Waiting(s)' <=> Waiting(s)) /\ Latest(s)' = Latest(s) /\ call'[s] = call[s]
    BY <1>1, <1>2 DEF Fans, Waiting, Latest
  <2> DEFINE v == call[s].row.version
             b == Head(call[s].batch).browser
  <2>2. Waiting(s) => RunIs(Latest(s), v, b)'
    <3>1. SUFFICES ASSUME Waiting(s) PROVE RunIs(Latest(s), v, b)' OBVIOUS
    <3>2. Latest(s) \in 1 .. next - 1 /\ Fans(s) BY <3>1, LatestSeen
    <3>3. RunIs(Latest(s), v, b) BY <3>1, <3>2 DEF BatchKnown
    <3>4. PICK i, x, y : i = Latest(s) /\ x = v /\ y = b OBVIOUS
    <3>5. RunIs(i, x, y)' BY <3>2, <3>3, <3>4, RunIsStays
    <3>6. Latest(s)' = i /\ v' = x /\ b' = y BY <3>4, <2>1
    <3> QED BY <3>5, <3>6 DEF RunIs
  <2> QED BY <2>1, <2>2 DEF BatchKnown
<1>3. CASE s = r /\ Fans(r)'
  <2>1. Queueing(r) /\ call'[r].at \in {"insert", "add"} BY <1>1, <1>3 DEF Fans
  <2>2. Chooses(r) \/ Picks(r) \/ Takes(r) \/ Queues(r)
    BY <2>1, FanGoes DEF Stops, Finishes, Skips, Closes
  <2>3. Waiting(r)' => Takes(r) /\ Latest(r)' = next BY <2>1, LatestNext
  <2>4. CASE Chooses(r)
    <3>1. PICK t \in Ids("test") : call'[r].row = Shared(db.test[t], Req(r).flow) /\ call'[r].batch = Batch(db.test[t])
      BY <2>4 DEF Chooses
    <3>2. Ready(db.test[t]) BY DEF TestsReady
    <3>3. Listing(call'[r].batch) /\ \A p \in ToSet(call'[r].batch) : Plan(p) BY <3>1, <3>2, BatchOf DEF Ready
    <3>4. call'[r].row = [version |-> call'[r].row.version, flow |-> call'[r].row.flow] BY <3>1 DEF Shared
    <3>5. ~ Waiting(r)' BY <2>4 DEF Chooses, Waiting
    <3> QED BY <3>3, <3>4, <3>5, <1>3 DEF BatchKnown
  <2>5. CASE Picks(r)
    <3>1. PICK v, f, b : /\ b \notin Disabled /\ call'[r].row = [version |-> v, flow |-> f]
                         /\ call'[r].batch = << [row |-> << >>, browser |-> b] >>
      BY <2>5 DEF Picks
    <3> DEFINE p == [row |-> << >>, browser |-> b]
    <3>2. Plan(p) BY <3>1 DEF Plan
    <3> HIDE DEF p
    <3>3. << p >> \in Seq({p}) OBVIOUS
    <3>4. Listing(<< p >>) /\ ToSet(<< p >>) \subseteq {p} BY <3>3, ListingOf
    <3>5. call'[r].batch = << p >> BY <3>1 DEF p
    <3>6. call'[r].row = [version |-> call'[r].row.version, flow |-> call'[r].row.flow] BY <3>1
    <3>7. ~ Waiting(r)' BY <2>5 DEF Picks, Waiting
    <3>8. Listing(call'[r].batch) /\ \A q \in ToSet(call'[r].batch) : Plan(q) BY <3>2, <3>4, <3>5
    <3> QED BY <3>6, <3>7, <3>8, <1>3 DEF BatchKnown
  <2>6. CASE Takes(r)
    <3>1. Fans(r) /\ call'[r].row = call[r].row /\ call'[r].batch = call[r].batch /\ call[r].batch # << >> /\ call'[r].at = "add"
      BY <2>1, <2>6 DEF Takes, Fans
    <3>2. Latest(r)' = next BY <2>1, <2>3, <3>1, <1>1, <1>3 DEF Waiting
    <3> DEFINE row == [of |-> call[r].row.version, status |-> "queued", browser |-> Head(call[r].batch).browser]
    <3>3. "browser" \in DOMAIN row /\ row.browser = Head(call[r].batch).browser /\ row.of = call[r].row.version OBVIOUS
    <3>4. Grown("run", row) BY <2>6 DEF Takes
    <3> HIDE DEF row
    <3>5. db'.run[next] = row BY <3>4 DEF Grown
    <3>6. RunIs(Latest(r), call[r].row.version, Head(call[r].batch).browser)' BY <3>1, <3>2, <3>3, <3>5 DEF RunIs
    <3> QED BY <3>1, <3>6, <1>3 DEF BatchKnown
  <2>7. CASE Queues(r)
    <3>1. Fans(r) /\ Waiting(r) /\ call'[r].row = call[r].row /\ call'[r].batch = Tail(call[r].batch) /\ call'[r].at = "insert"
      BY <2>1, <2>7 DEF Queues, Fans, Waiting
    <3>2. Listing(call[r].batch) /\ call[r].batch # << >> BY <3>1, <1>3 DEF BatchKnown
    <3>3. Listing(Tail(call[r].batch)) /\ ToSet(Tail(call[r].batch)) \subseteq ToSet(call[r].batch) BY <3>2, TailOf
    <3>4. Listing(call'[r].batch) /\ \A q \in ToSet(call'[r].batch) : Plan(q) BY <3>1, <3>3, <1>3 DEF BatchKnown
    <3>5. call'[r].row = [version |-> call'[r].row.version, flow |-> call'[r].row.flow] BY <3>1, <1>3 DEF BatchKnown
    <3>6. ~ Waiting(r)' BY <3>1 DEF Waiting
    <3> QED BY <3>4, <3>5, <3>6, <1>3 DEF BatchKnown
  <2> QED BY <2>2, <2>4, <2>5, <2>6, <2>7
<1>4. CASE s = r /\ ~ Fans(r)' BY <1>4 DEF BatchKnown
<1> QED BY <1>2, <1>3, <1>4


(* A version keeps its test for as long as it is there. *)
LEMMA VersionBefore ==
    ASSUME RowsHang, NEW r \in Requests, Handle(r), NEW v \in 1 .. next - 1
    PROVE  /\ v \in Ids("testVersion")' => v \in Ids("testVersion") /\ db'.testVersion[v].of = db.testVersion[v].of
           /\ \A t : /\ OwnVersion(t, v)' => OwnVersion(t, v)
                     /\ NoneRemoved /\ OwnVersion(t, v) => OwnVersion(t, v)'
<1>1. Effect(r) BY HandleEffect
<1>2. next \in Nat /\ \A k \in Ids("testVersion")' : k # next => k \in Ids("testVersion") /\ db'.testVersion[k].of = db.testVersion[k].of
  BY <1>1, EffectGrows, TableNames
<1>3. v # next BY <1>2
<1>4. v \in Ids("testVersion")' => v \in Ids("testVersion") /\ db'.testVersion[v].of = db.testVersion[v].of BY <1>2, <1>3
<1>5. \A t : OwnVersion(t, v)' => OwnVersion(t, v) BY <1>4 DEF OwnVersion
<1>6. ASSUME NEW t, NoneRemoved, OwnVersion(t, v) PROVE OwnVersion(t, v)' BY <1>1, <1>6, VersionStays DEF NoneRemoved
<1> QED BY <1>4, <1>5, <1>6

LEMMA KeptStays ==
    ASSUME RowsHang, NEW r \in Requests, Handle(r)
    PROVE  (NoneRemoved' <=> NoneRemoved) /\ \A t : KeptTest(t)' <=> KeptTest(t)
<1>1. work' = work /\ Requests' = Requests /\ \A s : Req(s)' = Req(s) BY Frame
<1>2. NoneRemoved' <=> NoneRemoved BY <1>1 DEF NoneRemoved
<1> QED BY <1>1, <1>2 DEF KeptTest

LEMMA AskedStays ==
    ASSUME RowsHang, NEW r \in Requests, Handle(r), NEW t, NEW S
    PROVE  (Steady(t)' <=> Steady(t)) /\ (AsAsked(t, S)' <=> AsAsked(t, S)) /\ (Whole(t, S)' <=> Whole(t, S))
<1>1. work' = work /\ Requests' = Requests /\ \A s : Req(s)' = Req(s) BY Frame
<1>2. Steady(t)' <=> Steady(t) BY <1>1 DEF Steady
<1>3. AsAsked(t, S)' <=> AsAsked(t, S) BY <1>1, <1>2, KeptStays DEF AsAsked, Asked
<1> QED BY <1>2, <1>3 DEF Whole, Closed

(* The settings and the data of a test change by requests that are for that. *)
LEMMA SteadyNext ==
    ASSUME RowsHang, TestsReady, NEW r \in Requests, Handle(r), NEW t \in DOMAIN work.db.test, t \in Ids("test")', Steady(t)
    PROVE  /\ t \in Ids("test")
           /\ db'.test[t].settings = db.test[t].settings /\ db'.test[t].data = db.test[t].data
<1>0. CatalogKnown /\ OrderKnown /\ DOMAIN db = Tables /\ "test" \in Tables BY TableNames DEF RowsHang, CatalogKnown
<1>1. Statement(r) BY <1>0, HandleSteps DEF Steps
<1>2. t # next
  <2>1. t \in 1 .. FirstFree - 1 BY <1>0, WorkFacts
  <2>2. FirstFree <= next /\ next \in Nat /\ FirstFree \in Int
    <3>1. next \in Nat /\ FirstFree <= next BY <1>0 DEF CatalogKnown
    <3>2. PICK w \in Workloads, enforced \in BOOLEAN : work = [enforced |-> enforced] ++ w BY <1>0 DEF CatalogKnown
    <3>3. FirstFree \in Int BY <3>2, WorkKnown, CardKnown DEF FirstFree
    <3> QED BY <3>1, <3>3
  <2> QED BY <2>1, <2>2
<1>3. CASE db' = db BY <1>3 DEF Ids
<1>4. ASSUME NEW u \in Tables, NEW row, Insert(u, row)
      PROVE  t \in Ids("test") /\ db'.test[t] = db.test[t]
  <2>1. Grown(u, row) BY <1>0, <1>4, InsertShape
  <2> QED BY <1>0, <1>2, <2>1 DEF Grown, Ids
<1>5. ASSUME NEW u \in Tables, NEW ids, Delete(u, ids)
      PROVE  t \in Ids("test") /\ db'.test[t] = db.test[t]
  <2>1. Shrunk(u, ids) BY <1>0, <1>5, DeleteShape
  <2> QED BY <1>0, <2>1 DEF Shrunk, Ids
<1>6. ASSUME NEW u \in Tables \ {"test"}, NEW ids, NEW patch, Update(u, ids, patch)
      PROVE  t \in Ids("test") /\ db'.test[t] = db.test[t]
  <2>1. db'.test = db.test BY <1>0, <1>6 DEF Update
  <2> QED BY <2>1 DEF Ids
<1>7. ASSUME NEW ids, NEW patch, Update("test", ids, patch), \A i \in ids : DOMAIN patch \subseteq Touches(r, i)
      PROVE  /\ t \in Ids("test")
             /\ db'.test[t].settings = db.test[t].settings /\ db'.test[t].data = db.test[t].data
  <2>1. DOMAIN db'.test = DOMAIN db.test
        /\ \A i \in DOMAIN db.test : db'.test[i] = IF i \in ids THEN patch ++ db.test[i] ELSE db.test[i]
    BY <1>0, <1>7 DEF Update
  <2>2. t \in Ids("test") BY <2>1 DEF Ids
  <2>3. CASE t \notin ids BY <2>1, <2>2, <2>3 DEF Ids
  <2>4. CASE t \in ids
    <3>1. "settings" \notin Touches(r, t) /\ "data" \notin Touches(r, t) BY DEF Touches, Steady
    <3>2. "settings" \notin DOMAIN patch /\ "data" \notin DOMAIN patch BY <1>7, <2>4, <3>1
    <3>3. {"settings", "data"} \subseteq DOMAIN db.test[t] BY <2>2 DEF TestsReady, Ready
    <3>4. db'.test[t] = patch ++ db.test[t] BY <2>1, <2>2, <2>4 DEF Ids
    <3>5. \A k \in {"settings", "data"} : (patch ++ db.test[t])[k] = db.test[t][k] BY <3>2, <3>3 DEF ++
    <3> QED BY <2>2, <3>4, <3>5
  <2> QED BY <2>3, <2>4
<1> QED BY <1>1, <1>3, <1>4, <1>5, <1>6, <1>7 DEF Statement

LEMMA KeptNext ==
    ASSUME RowsHang, TestsReady, KeptThere, NEW r \in Requests, Handle(r)
    PROVE  KeptThere'
<1>0. work' = work /\ CatalogKnown BY Frame DEF RowsHang
<1>1. NoneRemoved' => DOMAIN work.db.test \subseteq Ids("test")'
  <2>1. NoneRemoved' <=> NoneRemoved BY KeptStays
  <2>2. Lane(r) BY <1>0, HandleLane
  <2> QED BY <2>1, <2>2 DEF KeptThere, NoneRemoved, Lane
<1>2. ASSUME NEW t \in DOMAIN work.db.test, t \in Ids("test")', Steady(t)' PROVE Unchanged(t)'
  <2>1. Steady(t) BY <1>2, AskedStays
  <2>2. /\ t \in Ids("test")
        /\ db'.test[t].settings = db.test[t].settings /\ db'.test[t].data = db.test[t].data
    BY <1>2, <2>1, SteadyNext
  <2>3. Unchanged(t) BY <2>1, <2>2 DEF KeptThere
  <2> QED BY <1>0, <2>2, <2>3 DEF Unchanged
<1> QED BY <1>0, <1>1, <1>2 DEF KeptThere

LEMMA MadeStays ==
    ASSUME RowsHang, NEW r \in Requests, Handle(r), NEW all, NEW M, NEW P, NEW n, Made(all, M, P, n),
           \A j \in M : j.version \in 1 .. next - 1
    PROVE  Made(all, M, P, n)'
<1>1. \A j \in M : \A t : OwnVersion(t, j.version)' => OwnVersion(t, j.version) BY VersionBefore
<1>2. \A t : \A j \in ForTest(M, t)' : j \in ForTest(M, t) /\ OwnVersion(t, j.version)' BY <1>1 DEF ForTest
<1>3. ASSUME NEW j \in M, j.version \in Ids("testVersion")' PROVE db'.testVersion[j.version].of \in P
  <2>1. j.version \in Ids("testVersion") /\ db'.testVersion[j.version].of = db.testVersion[j.version].of BY <1>3, VersionBefore
  <2> QED BY <2>1 DEF Made
<1>4. ASSUME NEW t \in ToSet(all), Once(all, t), NEW j \in ForTest(M, t)', NEW k \in ForTest(M, t)'
      PROVE  j.version = k.version /\ \E l \in ForTest(M, t)' : l.browser = j.browser /\ l.row = k.row
  <2>1. Covered(M, t) BY <1>4 DEF Made
  <2>2. j \in ForTest(M, t) /\ k \in ForTest(M, t) /\ OwnVersion(t, j.version)' BY <1>2
  <2>3. j.version = k.version BY <2>1, <2>2 DEF Covered
  <2>4. PICK l \in ForTest(M, t) : l.browser = j.browser /\ l.row = k.row BY <2>1, <2>2 DEF Covered
  <2>5. l.version = j.version BY <2>1, <2>2, <2>4 DEF Covered
  <2>6. l \in ForTest(M, t)' BY <2>2, <2>4, <2>5 DEF ForTest
  <2> QED BY <2>3, <2>4, <2>6
<1>5. FewLost(M, P, n)'
  <2>1. ASSUME NEW t \in P, KeptTest(t), NEW j \in ForTest(M, t) PROVE ForTest(M, t)' # {}
    <3>1. j \in M /\ OwnVersion(t, j.version)' BY <2>1, VersionBefore DEF ForTest, KeptTest
    <3> QED BY <3>1 DEF ForTest
  <2>2. \A t : KeptTest(t)' <=> KeptTest(t) BY KeptStays
  <2>3. Lost(M, P)' \subseteq Lost(M, P) BY <2>1, <2>2 DEF Lost
  <2>4. PICK L : IsFiniteSet(L) /\ Cardinality(L) <= n /\ Lost(M, P) \subseteq L BY DEF Made, FewLost
  <2>5. Lost(M, P)' \subseteq L BY <2>3, <2>4
  <2> QED BY <2>4, <2>5 DEF FewLost
<1>6. ASSUME NEW t \in ToSet(all), Once(all, t), ForTest(M, t)' # {} PROVE AsAsked(t, Pairs(ForTest(M, t)))'
  <2>1. Covered(M, t) BY <1>6 DEF Made
  <2>2. AsAsked(t, Pairs(ForTest(M, t))) BY <1>2, <1>6, <2>1 DEF Covered
  <2>3. CASE KeptTest(t)
    <3>1. ForTest(M, t)' = ForTest(M, t) BY <2>3, VersionBefore DEF ForTest, KeptTest
    <3>2. PICK S : S = Pairs(ForTest(M, t)) OBVIOUS
    <3>3. AsAsked(t, S)' BY <2>2, <3>2, AskedStays
    <3>4. Pairs(ForTest(M, t))' = S BY <3>1, <3>2 DEF Pairs
    <3> QED BY <3>3, <3>4 DEF AsAsked
  <2>4. CASE ~ KeptTest(t) BY <2>4, KeptStays DEF AsAsked
  <2> QED BY <2>3, <2>4
<1>7. \A t \in ToSet(all) : Once(all, t) => Covered(M, t)' BY <1>4, <1>6 DEF Covered
<1> QED BY <1>3, <1>5, <1>7 DEF Made

LEMMA MadeSkip ==
    ASSUME NEW all, NEW M, NEW P, NEW n, NEW t, Made(all, M, P, n), ~ KeptTest(t)
    PROVE  Made(all, M, P \cup {t}, n)
<1>1. Lost(M, P \cup {t}) \subseteq Lost(M, P) BY DEF Lost
<1>2. FewLost(M, P \cup {t}, n) BY <1>1 DEF Made, FewLost
<1> QED BY <1>2 DEF Made

(* A fault costs one test at most. *)
LEMMA MadeFault ==
    ASSUME NEW all, NEW M, NEW P, NEW n \in Nat, NEW t, Made(all, M, P, n)
    PROVE  Made(all, M, P \cup {t}, n + 1)
<1>1. PICK L : IsFiniteSet(L) /\ Cardinality(L) <= n /\ Lost(M, P) \subseteq L BY DEF Made, FewLost
<1>2. IsFiniteSet(L \cup {t}) /\ Cardinality(L \cup {t}) <= Cardinality(L) + 1 /\ Cardinality(L) \in Nat
      /\ Cardinality(L \cup {t}) \in Nat
  <2>1. Cardinality(L) \in Nat BY <1>1, FS_CardinalityType
  <2>2. IsFiniteSet(L \cup {t}) /\ (Cardinality(L \cup {t}) = Cardinality(L) \/ Cardinality(L \cup {t}) = Cardinality(L) + 1)
    BY <1>1, FS_AddElement
  <2> QED BY <2>1, <2>2
<1>3. Cardinality(L \cup {t}) <= n + 1 BY <1>1, <1>2
<1>4. Lost(M, P \cup {t}) \subseteq L \cup {t} BY <1>1 DEF Lost
<1>5. FewLost(M, P \cup {t}, n + 1) BY <1>2, <1>3, <1>4 DEF FewLost
<1> QED BY <1>5 DEF Made

LEMMA MadeGrows ==
    ASSUME NEW all, NEW M, NEW P, NEW n \in Nat, Made(all, M, P, n)', NEW m \in Nat, n <= m
    PROVE  Made(all, M, P, m)'
<1>1. PICK L : IsFiniteSet(L) /\ Cardinality(L) <= n /\ Lost(M, P)' \subseteq L BY DEF Made, FewLost
<1>2. Cardinality(L) \in Nat BY <1>1, FS_CardinalityType
<1>3. Cardinality(L) <= m BY <1>1, <1>2
<1>4. FewLost(M, P, m)' BY <1>1, <1>3 DEF FewLost
<1> QED BY <1>4 DEF Made

LEMMA CoveredSame ==
    ASSUME NEW M, NEW N, NEW t, ForTest(N, t) = ForTest(M, t), Covered(M, t)
    PROVE  Covered(N, t)
<1>1. PICK F : F = ForTest(M, t) OBVIOUS
<1>2. ForTest(N, t) = F BY <1>1
<1>3. /\ \A j, k \in F : j.version = k.version /\ \E l \in F : l.browser = j.browser /\ l.row = k.row
      /\ F # {} => AsAsked(t, Pairs(F))
  BY <1>1 DEF Covered
<1> QED BY <1>2, <1>3 DEF Covered

LEMMA MadeMore ==
    ASSUME NEW all, NEW M, NEW P, NEW n, NEW t, NEW S, NEW v, Made(all, M, P, n),
           \A j \in S : j.version = v, Owned(v, t), KeptTest(t) => OwnVersion(t, v),
           Once(all, t) => t \notin P, Whole(t, Pairs(S)), S # {}
    PROVE  Made(all, M \cup S, P \cup {t}, n)
<1>1. ASSUME NEW j \in M \cup S, j.version \in Ids("testVersion") PROVE db.testVersion[j.version].of \in P \cup {t}
  <2>1. CASE j \in M BY <1>1, <2>1 DEF Made
  <2>2. CASE j \in S BY <1>1, <2>2 DEF Owned
  <2> QED BY <2>1, <2>2
<1>2. ASSUME NEW u \in ToSet(all), Once(all, u) PROVE Covered(M \cup S, u)
  <2>1. CASE u = t
    <3>1. \A j \in M : ~ OwnVersion(t, j.version) BY <1>2, <2>1 DEF Made, OwnVersion
    <3>2. ForTest(M \cup S, t) \subseteq S BY <3>1 DEF ForTest
    <3>a. AsAsked(t, Pairs(ForTest(M \cup S, t)))
      <4>1. KeptTest(t) => ForTest(M \cup S, t) = S BY <3>2 DEF ForTest
      <4>2. AsAsked(t, Pairs(S)) BY DEF Whole
      <4> QED BY <4>1, <4>2 DEF AsAsked
    <3> SUFFICES ASSUME NEW j \in ForTest(M \cup S, t), NEW k \in ForTest(M \cup S, t)
                 PROVE  j.version = k.version /\ \E l \in ForTest(M \cup S, t) : l.browser = j.browser /\ l.row = k.row
      BY <2>1, <3>a DEF Covered
    <3>3. j \in S /\ k \in S /\ j.version = v /\ k.version = v /\ OwnVersion(t, v) BY <3>2 DEF ForTest
    <3> DEFINE p == [browser |-> j.browser, row |-> j.row]
               q == [browser |-> k.browser, row |-> k.row]
    <3>4. p \in Pairs(S) /\ q \in Pairs(S) BY <3>3 DEF Pairs
    <3>5. [browser |-> p.browser, row |-> q.row] \in Pairs(S) BY <3>4 DEF Whole, Closed
    <3>6. p.browser = j.browser /\ q.row = k.row OBVIOUS
    <3>7. [browser |-> j.browser, row |-> k.row] \in Pairs(S) BY <3>5, <3>6
    <3>8. PICK l \in S : [browser |-> j.browser, row |-> k.row] = [browser |-> l.browser, row |-> l.row] BY <3>7 DEF Pairs
    <3>9. l.browser = j.browser /\ l.row = k.row BY <3>8
    <3>10. l \in ForTest(M \cup S, t) BY <3>3, <3>8 DEF ForTest
    <3> QED BY <3>3, <3>9, <3>10
  <2>2. CASE u # t
    <3>1. \A j \in S : ~ OwnVersion(u, j.version) BY <2>2 DEF Owned, OwnVersion
    <3>2. ForTest(M \cup S, u) = ForTest(M, u) BY <3>1 DEF ForTest
    <3>3. Covered(M, u) BY <1>2 DEF Made
    <3> QED BY <3>2, <3>3, CoveredSame
  <2> QED BY <2>1, <2>2
<1>3. FewLost(M \cup S, P \cup {t}, n)
  <2>1. \A u : ForTest(M, u) # {} => ForTest(M \cup S, u) # {} BY DEF ForTest
  <2>2. KeptTest(t) => ForTest(M \cup S, t) # {} BY DEF ForTest
  <2>3. Lost(M \cup S, P \cup {t}) \subseteq Lost(M, P) BY <2>1, <2>2 DEF Lost
  <2> QED BY <2>3 DEF Made, FewLost
<1> QED BY <1>1, <1>2, <1>3 DEF Made

(* The jobs of the runs that a request claims are added by it alone. *)
LEMMA QueuedStays ==
    ASSUME RowsHang, JobsKnown, NEW r \in Requests, BatchKnown(r), Handle(r), NEW s \in Requests, r # s, Queueing(s),
           NEW A, A \subseteq Claimed(s)
    PROVE  {j \in jobs' : j.run \in A} = Queued(A)
<1>1. CASE jobs' = jobs BY <1>1 DEF Queued
<1>2. CASE AddJob(r)
  <2>1. CatalogKnown /\ Queueing(r) BY <1>2 DEF RowsHang, AddJob, At, Queueing
  <2>2. Queues(r) BY <1>2, <2>1, AddJobGoes
  <2>3. PICK j : jobs' = jobs \cup {j} /\ Waiting(r) /\ j.run = Latest(r) BY <2>1, <2>2, JobAdded
  <2>4. Latest(r) \notin Claimed(s) BY <2>3 DEF JobsKnown
  <2> QED BY <2>3, <2>4 DEF Queued
<1> QED BY <1>1, <1>2, JobsGo


LEMMA FaultsGrow ==
    ASSUME RowsHang, NEW r \in Requests, Handle(r)
    PROVE  faults \in Nat /\ faults' \in Nat /\ faults <= faults'
<1>1. faults' = faults \/ faults' = faults + 1 BY DEF Handle, Fails
<1>2. faults \in Nat BY Frame
<1> QED BY <1>1, <1>2

LEMMA FanBeside ==
    ASSUME RowsHang, JobsKnown, NEW r \in Requests, BatchKnown(r), Handle(r), NEW s \in Requests, r # s, FanKnown(s)
    PROVE  FanKnown(s)'
<1>0. HeldKnown(s) /\ \A j \in jobs : j.version \in 1 .. next - 1 BY DEF RowsHang, JobsKnown
<1>1. /\ call'[s] = call[s] /\ Req(s)' = Req(s) BY Frame
<1> SUFFICES ASSUME Req(s).op \in Fanning, call[s].at # "failed"
             PROVE  PlaceKnown(s)' /\ ToldKnown(s)' /\ (Fans(s)' => HandKnown(s)')
  BY <1>1 DEF FanKnown
<1>2. Queueing(s) /\ PlaceKnown(s) /\ ToldKnown(s) /\ (Fans(s) => HandKnown(s)) BY DEF FanKnown, Queueing
<1>3. Tests(s)' = Tests(s) /\ Left(s)' = Left(s) /\ (Fans(s)' <=> Fans(s)) BY <1>1 DEF Tests, Left, Fans, Queueing
<1>4. PlaceKnown(s)' BY <1>1, <1>2, <1>3 DEF PlaceKnown
<1>5. \A A : A \subseteq Claimed(s) => Queued(A)' = Queued(A)
  <2> SUFFICES ASSUME NEW A, A \subseteq Claimed(s) PROVE Queued(A)' = Queued(A) OBVIOUS
  <2>1. {j \in jobs' : j.run \in A} = Queued(A) BY <1>2, QueuedStays
  <2> QED BY <2>1 DEF Queued
<1>6. PICK c : c = call[s] OBVIOUS
<1>7. call'[s] = c BY <1>1, <1>6
<1>8. ToSet(c.ids) \subseteq Claimed(s) BY <1>6 DEF Claimed
<1>9. \A i \in ToSet(c.ids) : Queued({i})' = Queued({i}) BY <1>5, <1>8
<1>10. PICK M : M = Queued(ToSet(c.ids)) OBVIOUS
<1>11. Queued(ToSet(call[s].ids))' = M BY <1>5, <1>7, <1>8, <1>10 DEF Queued
<1>12. PICK all, P : all = Tests(s) /\ P = Passed(Tests(s), Left(s)) OBVIOUS
<1>b. PICK n, m : n = faults /\ m = faults' OBVIOUS
<1>c. n \in Nat /\ m \in Nat /\ n <= m BY <1>b, FaultsGrow
<1>13. Made(all, M, P, n) BY <1>2, <1>6, <1>10, <1>12, <1>b DEF ToldKnown
<1>14. \A j \in M : j.version \in 1 .. next - 1 BY <1>0, <1>10 DEF Queued
<1>d. Made(all, M, P, n)' BY <1>13, <1>14, MadeStays
<1>15. Made(all, M, P, m)' BY <1>c, <1>d, MadeGrows
<1>16. all = Tests(s)' /\ P = Passed(Tests(s), Left(s))' BY <1>3, <1>12 DEF Passed
<1>17. Made(Tests(s), Queued(ToSet(call[s].ids)), Passed(Tests(s), Left(s)), faults)' BY <1>11, <1>15, <1>16, <1>b DEF Made
<1>18. ToldKnown(s)' BY <1>2, <1>6, <1>7, <1>9, <1>17 DEF ToldKnown
<1>19. ASSUME Fans(s) PROVE HandKnown(s)'
  <2>1. HandKnown(s) /\ c.seen \subseteq Claimed(s) /\ Latest(s)' = Latest(s) BY <1>2, <1>6, <1>7, <1>19 DEF Claimed, Latest
  <2>2. \A i \in c.seen : Queued({i})' = Queued({i}) BY <1>5, <2>1
  <2>3. PICK N : N = Queued(c.seen) OBVIOUS
  <2>4. Queued(c.seen)' = N BY <1>5, <2>1, <2>3
  <2>5. PICK v, t : v = c.row.version /\ t = Head(Left(s)) OBVIOUS
  <2>6. v \in 1 .. next - 1 BY <1>0, <1>6, <1>19, <2>5 DEF HeldKnown, Fans, Queueing
  <2>7. next \in Nat BY DEF RowsHang, CatalogKnown
  <2>8. v # next BY <2>6, <2>7
  <2>9. Owned(v, t)' BY <1>6, <2>1, <2>5, <2>8, OwnedStays DEF HandKnown
  <2>10. KeptTest(t)' => OwnVersion(t, v)'
    <3>1. KeptTest(t) => NoneRemoved /\ OwnVersion(t, v) BY <1>6, <2>1, <2>5 DEF HandKnown, KeptTest
    <3> QED BY <2>6, <3>1, VersionBefore, KeptStays
  <2>11. ToSet(c.ids) \cap c.seen = {} BY <1>6, <2>1 DEF HandKnown
  <2>12. \A i \in c.seen : Queued({i}) # {} \/ (c.at = "add" /\ i = Latest(s)) BY <1>6, <2>1 DEF HandKnown
  <2>13. (\A j \in N : j.version = v) /\ Whole(t, Pairs(N) \cup ToSet(c.batch)) /\ (c.seen # {} \/ c.batch # << >>)
    BY <1>6, <2>1, <2>3, <2>5 DEF HandKnown
  <2>14. Queued(call[s].seen)' = N BY <1>7, <2>4 DEF Queued
  <2>15. \A i \in call'[s].seen : Queued({i})' # {} \/ (call'[s].at = "add" /\ i = Latest(s)') BY <1>7, <2>1, <2>2, <2>12
  <2>16. call'[s].row.version = v /\ Head(Left(s))' = t BY <1>3, <1>7, <2>5
  <2>17. /\ \A j \in Queued(call[s].seen)' : j.version = call'[s].row.version
         /\ Whole(Head(Left(s)), Pairs(Queued(call[s].seen)) \cup ToSet(call[s].batch))'
         /\ (call'[s].seen # {} \/ call'[s].batch # << >>)
    <3>1. PICK S : S = Pairs(N) \cup ToSet(c.batch) OBVIOUS
    <3>2. Whole(t, S)' BY <2>13, <3>1, AskedStays
    <3>3. (Pairs(Queued(call[s].seen)) \cup ToSet(call[s].batch))' = S BY <1>7, <2>14, <3>1 DEF Pairs
    <3>4. Whole(Head(Left(s)), Pairs(Queued(call[s].seen)) \cup ToSet(call[s].batch))' BY <2>16, <3>2, <3>3 DEF Whole, Closed, AsAsked, KeptTest, Steady, Asked
    <3> QED BY <1>7, <2>13, <2>14, <2>16, <3>4
  <2>18. Owned(call[s].row.version, Head(Left(s)))' BY <2>9, <2>16 DEF Owned
  <2>19. KeptTest(Head(Left(s)))' => OwnVersion(Head(Left(s)), call[s].row.version)'
    <3>1. KeptTest(Head(Left(s)))' => KeptTest(t)' BY <2>16 DEF KeptTest
    <3>2. OwnVersion(t, v)' => OwnVersion(Head(Left(s)), call[s].row.version)' BY <2>16 DEF OwnVersion
    <3> QED BY <3>1, <3>2, <2>10
  <2>20. (ToSet(call[s].ids) \cap call[s].seen = {})' BY <1>7, <2>11
  <2> QED BY <2>15, <2>17, <2>18, <2>19, <2>20 DEF HandKnown
<1> QED BY <1>3, <1>4, <1>18, <1>19


(* What a request holds while it goes on, for whichever of its own steps it takes. *)
Fanned(r) ==
    /\ RowsHang /\ TestsReady /\ PointsOwn /\ JobsKnown /\ KeptThere /\ BatchKnown(r)
    /\ r \in Requests /\ Handle(r) /\ Req(r).op \in Fanning
    /\ PlaceKnown(r) /\ ToldKnown(r) /\ (Fans(r) => HandKnown(r))

LEMMA FannedFacts ==
    ASSUME NEW r, Fanned(r)
    PROVE  /\ r \in Requests /\ CatalogKnown /\ HeldKnown(r) /\ Queueing(r) /\ Listing(Tests(r)) /\ Tests(r)' = Tests(r)
           /\ Ends(Tests(r), Left(r)) /\ next \in Nat
           /\ \A j \in jobs : j.version \in 1 .. next - 1 /\ j.run \in 1 .. next - 1
           /\ call'[r].at # "start" /\ Left(r)' = call'[r].tests
           /\ \E n \in Nat : n = faults /\ n <= faults'
<1>6. \E n \in Nat : n = faults /\ n <= faults' BY FaultsGrow DEF Fanned
<1>1. r \in Requests /\ CatalogKnown /\ HeldKnown(r) /\ Queueing(r) /\ next \in Nat BY DEF Fanned, RowsHang, Queueing, CatalogKnown
<1>2. Listing(Tests(r)) BY <1>1, TestsListed DEF Fanned
<1>3. Req(r)' = Req(r) /\ call'[r].at # "start" BY Frame DEF Fanned
<1>4. Ends(Tests(r), Left(r)) BY DEF Fanned, PlaceKnown
<1>5. \A j \in jobs : j.version \in 1 .. next - 1 /\ j.run \in 1 .. next - 1 BY DEF Fanned, JobsKnown, RowsHang
<1> QED BY <1>1, <1>2, <1>3, <1>4, <1>5, <1>6 DEF Tests, Left

(* The runs it tells of stay what they are. *)
LEMMA ToldSame ==
    ASSUME NEW r, Fanned(r), call'[r].ids = call[r].ids,
           NEW P, NEW n \in Nat, Made(Tests(r), Queued(ToSet(call[r].ids)), P, n), n <= faults', P = Passed(Tests(r), Left(r))',
           {j \in jobs' : j.run \in ToSet(call[r].ids)} = Queued(ToSet(call[r].ids)), jobs \subseteq jobs'
    PROVE  ToldKnown(r)'
<1>1. /\ r \in Requests /\ RowsHang /\ Handle(r) /\ ToldKnown(r) /\ Tests(r)' = Tests(r)
      /\ \A j \in jobs : j.version \in 1 .. next - 1
  BY FannedFacts DEF Fanned
<1>2. PICK all, M : all = Tests(r) /\ M = Queued(ToSet(call[r].ids)) OBVIOUS
<1>3. Made(all, M, P, n) /\ \A j \in M : j.version \in 1 .. next - 1 BY <1>1, <1>2 DEF Queued
<1>a. Made(all, M, P, n)' BY <1>1, <1>3, MadeStays
<1>b. PICK m : m = faults' OBVIOUS
<1>c. m \in Nat BY <1>1, <1>b, FaultsGrow
<1>4. Made(all, M, P, m)' BY <1>a, <1>b, <1>c, MadeGrows
<1>5. Queued(ToSet(call[r].ids))' = M BY <1>2 DEF Queued
<1>6. all = Tests(r)' BY <1>1, <1>2
<1>7. Made(Tests(r), Queued(ToSet(call[r].ids)), Passed(Tests(r), Left(r)), faults)' BY <1>4, <1>5, <1>6, <1>b DEF Made
<1>8. \A i : Queued({i}) # {} => Queued({i})' # {} BY DEF Queued
<1> QED BY <1>1, <1>7, <1>8 DEF ToldKnown

LEMMA FinishesFan ==
    ASSUME NEW r, Fanned(r), Finishes(r)
    PROVE  PlaceKnown(r)' /\ ToldKnown(r)' /\ ~ Fans(r)'
<1>1. /\ Left(r) = << >> /\ call'[r].at = "ok" /\ call'[r].ids = call[r].ids /\ call'[r].tests = call[r].tests
      /\ call[r].at \in {"start", "test"} /\ jobs' = jobs
  BY DEF Finishes, Read
<1>2. call[r].tests = << >> BY <1>1 DEF Fanned, PlaceKnown, Left
<1>3. Left(r)' = << >> /\ Tests(r)' = Tests(r) BY <1>1, <1>2, FannedFacts
<1>4. ~ Fans(r)' BY <1>1 DEF Fans
<1>5. Ends(Tests(r), << >>) BY <1>1, FannedFacts
<1>6. PlaceKnown(r)' BY <1>1, <1>3, <1>4, <1>5 DEF PlaceKnown
<1>7. PICK P : P = Passed(Tests(r), Left(r)) OBVIOUS
<1>a. PICK n \in Nat : n = faults /\ n <= faults' BY FannedFacts
<1>8. Made(Tests(r), Queued(ToSet(call[r].ids)), P, n) BY <1>7, <1>a DEF Fanned, ToldKnown
<1>9. P = Passed(Tests(r), Left(r))' BY <1>1, <1>3, <1>7 DEF Passed
<1>10. ToldKnown(r)' BY <1>1, <1>8, <1>9, <1>a, ToldSame DEF Queued
<1> QED BY <1>4, <1>6, <1>10

LEMMA CurrentKept ==
    ASSUME NEW r, Fanned(r), NEW t, KeptTest(t)
    PROVE  t \in Ids("test") /\ db.test[t].current # 0 /\ OwnVersion(t, db.test[t].current)
<1>1. NoneRemoved /\ t \in DOMAIN work.db.test BY DEF KeptTest
<1>2. t \in Ids("test") BY <1>1 DEF Fanned, KeptThere
<1>3. CurrentKnown /\ CatalogKnown BY DEF Fanned, RowsHang
<1>4. \A s \in Requests : ~ Removing(s, t) BY <1>1 DEF NoneRemoved, Removing
<1>5. OwnVersion(t, db.test[t].current) BY <1>1, <1>2, <1>3, <1>4 DEF CurrentKnown, Disturbed
<1>6. Ids("testVersion") \subseteq 1 .. next - 1 BY <1>3, TableNames DEF CatalogKnown
<1>7. 0 \notin Ids("testVersion") BY <1>6
<1> QED BY <1>2, <1>5, <1>7 DEF OwnVersion

LEMMA SkipsFan ==
    ASSUME NEW r, Fanned(r), Skips(r)
    PROVE  PlaceKnown(r)' /\ ToldKnown(r)' /\ ~ Fans(r)'
<1>1. /\ call'[r].at = "test" /\ call'[r].ids = call[r].ids /\ call'[r].tests = Tail(Left(r)) /\ jobs' = jobs /\ Unfit(r)
  BY DEF Skips, Read
<1>2. Left(r) # << >>
  <2>1. call[r].at \in {"start", "test"} \/ Fans(r) \/ Left(r) # << >> BY <1>1, FannedFacts DEF Unfit, Fans, Fanned
  <2> QED BY <2>1 DEF Skips, Fanned, PlaceKnown
<1>3. Left(r)' = Tail(Left(r)) /\ Tests(r)' = Tests(r) BY <1>1, FannedFacts
<1>4. ~ Fans(r)' BY <1>1 DEF Fans
<1>5. Ends(Tests(r), Tail(Left(r))) /\ Passed(Tests(r), Tail(Left(r))) = Passed(Tests(r), Left(r)) \cup {Head(Left(r))}
  BY <1>2, FannedFacts, PassedNext
<1>6. PlaceKnown(r)' BY <1>1, <1>3, <1>4, <1>5 DEF PlaceKnown
<1>7. PICK P, t : P = Passed(Tests(r), Left(r)) /\ t = Head(Left(r)) OBVIOUS
<1>a. PICK n \in Nat : n = faults /\ n <= faults' BY FannedFacts
<1>8. Made(Tests(r), Queued(ToSet(call[r].ids)), P, n) BY <1>7, <1>a DEF Fanned, ToldKnown
<1>9. ~ KeptTest(t) \/ faults' = n + 1
  <2>1. CASE t \notin Ids("test") \/ db.test[t].current = 0 BY <2>1, CurrentKept
  <2>2. CASE call[r].at = "insert" /\ call[r].row.version \notin Ids("testVersion")
    <3>1. HandKnown(r) BY <2>2, FannedFacts DEF Fanned, Fans
    <3> QED BY <2>2, <3>1, <1>7 DEF HandKnown, OwnVersion
  <2> QED BY <1>1, <1>7, <1>a, <2>1, <2>2 DEF Unfit, Fanned
<1>10. PICK m \in Nat : Made(Tests(r), Queued(ToSet(call[r].ids)), P \cup {t}, m) /\ m <= faults'
  <2>1. CASE ~ KeptTest(t) BY <1>a, <1>8, <2>1, MadeSkip
  <2>2. CASE faults' = n + 1 BY <1>8, <2>2, MadeFault
  <2> QED BY <1>9, <2>1, <2>2
<1>11. P \cup {t} = Passed(Tests(r), Left(r))' BY <1>3, <1>5, <1>7 DEF Passed
<1>12. ToldKnown(r)' BY <1>1, <1>10, <1>11, ToldSame DEF Queued
<1> QED BY <1>4, <1>6, <1>12

LEMMA ChoosesFan ==
    ASSUME NEW r, Fanned(r), Chooses(r)
    PROVE  PlaceKnown(r)' /\ ToldKnown(r)' /\ HandKnown(r)'
<1>1. /\ call'[r].at = "insert" /\ call'[r].ids = call[r].ids /\ call'[r].tests = Left(r) /\ call'[r].seen = {}
      /\ Left(r) # << >> /\ db' = db /\ jobs' = jobs
  BY DEF Chooses, Read
<1>2. PICK t \in Ids("test") :
        /\ t = Head(Left(r)) /\ db.test[t].current # 0
        /\ call'[r].row = Shared(db.test[t], Req(r).flow) /\ call'[r].batch = Batch(db.test[t])
  BY DEF Chooses
<1>3. Left(r)' = Left(r) /\ Tests(r)' = Tests(r) /\ Ends(Tests(r), Left(r)) BY <1>1, FannedFacts
<1>4. PlaceKnown(r)' BY <1>1, <1>3 DEF PlaceKnown
<1>5. PICK P : P = Passed(Tests(r), Left(r)) OBVIOUS
<1>d. PICK n \in Nat : n = faults /\ n <= faults' BY FannedFacts
<1>6. Made(Tests(r), Queued(ToSet(call[r].ids)), P, n) BY <1>5, <1>d DEF Fanned, ToldKnown
<1>7. P = Passed(Tests(r), Left(r))' BY <1>3, <1>5 DEF Passed
<1>8. ToldKnown(r)' BY <1>1, <1>6, <1>7, <1>d, ToldSame DEF Queued
<1>9. PICK v : v = db.test[t].current OBVIOUS
<1>10. call'[r].row.version = v BY <1>2, <1>9 DEF Shared
<1>11. Ready(db.test[t]) BY DEF Fanned, TestsReady
<1>12. /\ call'[r].batch # << >> /\ Closed(ToSet(call'[r].batch))
       /\ ToSet(call'[r].batch) = Asked(db.test[t])
  BY <1>2, <1>11, BatchOf DEF Ready
<1>13. Queued(call[r].seen)' = {} BY <1>1 DEF Queued
<1>14. (Pairs(Queued(call[r].seen)) \cup ToSet(call[r].batch))' = ToSet(call'[r].batch) BY <1>13 DEF Pairs
<1>15. PICK S : S = ToSet(call'[r].batch) OBVIOUS
<1>a. Whole(t, S)
  <2>1. KeptTest(t) /\ Steady(t) => Unchanged(t) BY DEF Fanned, KeptThere, KeptTest
  <2>2. Unchanged(t) => Asked(db.test[t]) = Asked(work.db.test[t]) BY DEF Unchanged, Asked
  <2> QED BY <1>12, <1>15, <2>1, <2>2 DEF Whole, AsAsked
<1>b. Whole(t, S)' BY <1>a, AskedStays DEF Fanned
<1>16. Owned(v, t)' BY <1>1, <1>9 DEF Fanned, PointsOwn, Owned, Ids
<1>17. KeptTest(t) => OwnVersion(t, v) BY <1>9, CurrentKept
<1>18. KeptTest(t)' => OwnVersion(t, v)'
  <2>1. KeptTest(t)' <=> KeptTest(t) BY KeptStays DEF Fanned
  <2>2. OwnVersion(t, v) => OwnVersion(t, v)' BY <1>1 DEF OwnVersion, Ids
  <2> QED BY <2>1, <2>2, <1>17
<1>19. Head(Left(r))' = t BY <1>2, <1>3
<1>c. Whole(Head(Left(r)), Pairs(Queued(call[r].seen)) \cup ToSet(call[r].batch))'
  BY <1>14, <1>15, <1>b, <1>19 DEF Whole, Closed, AsAsked, KeptTest, Steady, Asked
<1>20. Owned(call[r].row.version, Head(Left(r)))' BY <1>10, <1>16, <1>19 DEF Owned
<1>21. KeptTest(Head(Left(r)))' => OwnVersion(Head(Left(r)), call[r].row.version)'
  <2>1. KeptTest(Head(Left(r)))' => KeptTest(t)' BY <1>19 DEF KeptTest
  <2>2. OwnVersion(t, v)' => OwnVersion(Head(Left(r)), call[r].row.version)' BY <1>10, <1>19 DEF OwnVersion
  <2> QED BY <2>1, <2>2, <1>18
<1>22. HandKnown(r)' BY <1>1, <1>12, <1>13, <1>c, <1>20, <1>21 DEF HandKnown
<1> QED BY <1>4, <1>8, <1>22


(* A batch under way: after its next run, after that run's job, and at its end. *)
LEMMA HandNext ==
    ASSUME NEW r, Fanned(r), HandKnown(r), Fans(r), db'.testVersion = db.testVersion,
           call'[r].row = call[r].row, call'[r].tests = call[r].tests
    PROVE  /\ Left(r) = call[r].tests /\ Left(r)' = Left(r) /\ Left(r) # << >>
           /\ Owned(call[r].row.version, Head(Left(r)))'
           /\ KeptTest(Head(Left(r)))' => OwnVersion(Head(Left(r)), call[r].row.version)'
<1>1. Left(r) = call[r].tests BY DEF Fans, Left
<1>2. Left(r)' = Left(r) BY <1>1, FannedFacts
<1>3. Left(r) # << >> BY DEF Fanned, PlaceKnown
<1>4. PICK v, t : v = call[r].row.version /\ t = Head(Left(r)) OBVIOUS
<1>5. Owned(v, t) /\ (KeptTest(t) => OwnVersion(t, v)) BY <1>4 DEF HandKnown
<1>6. Owned(v, t)' /\ (OwnVersion(t, v) => OwnVersion(t, v)') BY <1>5 DEF Owned, OwnVersion, Ids
<1>7. KeptTest(t)' <=> KeptTest(t) BY KeptStays DEF Fanned
<1>8. call'[r].row.version = v /\ Head(Left(r))' = t BY <1>2, <1>4
<1>9. Owned(call[r].row.version, Head(Left(r)))' BY <1>6, <1>8 DEF Owned
<1>10. KeptTest(Head(Left(r)))' => KeptTest(t)' BY <1>8 DEF KeptTest
<1>11. OwnVersion(t, v)' => OwnVersion(Head(Left(r)), call[r].row.version)' BY <1>8 DEF OwnVersion
<1> QED BY <1>1, <1>2, <1>3, <1>5, <1>6, <1>7, <1>9, <1>10, <1>11

LEMMA WholeNext ==
    ASSUME NEW r, RowsHang, r \in Requests, Handle(r), Left(r)' = Left(r),
           Whole(Head(Left(r)), Pairs(Queued(call[r].seen)) \cup ToSet(call[r].batch)),
           (Pairs(Queued(call[r].seen)) \cup ToSet(call[r].batch))' = Pairs(Queued(call[r].seen)) \cup ToSet(call[r].batch)
    PROVE  Whole(Head(Left(r)), Pairs(Queued(call[r].seen)) \cup ToSet(call[r].batch))'
<1>1. PICK t, S : t = Head(Left(r)) /\ S = Pairs(Queued(call[r].seen)) \cup ToSet(call[r].batch) OBVIOUS
<1>2. Whole(t, S)' BY <1>1, AskedStays
<1>3. Head(Left(r))' = t /\ (Pairs(Queued(call[r].seen)) \cup ToSet(call[r].batch))' = S BY <1>1
<1> QED BY <1>2, <1>3 DEF Whole, Closed, AsAsked, KeptTest, Steady, Asked

LEMMA TakesFan ==
    ASSUME NEW r, Fanned(r), Takes(r)
    PROVE  PlaceKnown(r)' /\ ToldKnown(r)' /\ HandKnown(r)'
<1>1. /\ call[r].at = "insert" /\ call'[r].at = "add" /\ call'[r].seen = call[r].seen \cup {next}
      /\ call'[r].ids = call[r].ids /\ call'[r].tests = call[r].tests /\ call'[r].row = call[r].row
      /\ call'[r].batch = call[r].batch /\ jobs' = jobs
  BY DEF Takes
<1>2. Fans(r) /\ HandKnown(r) BY <1>1, FannedFacts DEF Fans, Fanned
<1>3. \E row : Grown("run", row) BY DEF Takes
<1>4. db'.testVersion = db.testVersion BY <1>3, TableNames DEF Grown
<1>5. /\ Left(r)' = Left(r) /\ Left(r) # << >> /\ Owned(call[r].row.version, Head(Left(r)))'
      /\ KeptTest(Head(Left(r)))' => OwnVersion(Head(Left(r)), call[r].row.version)'
  BY <1>1, <1>2, <1>4, HandNext
<1>6. Tests(r)' = Tests(r) /\ Ends(Tests(r), Left(r)) BY FannedFacts
<1>7. PlaceKnown(r)' BY <1>1, <1>5, <1>6 DEF PlaceKnown
<1>8. PICK P : P = Passed(Tests(r), Left(r)) OBVIOUS
<1>a. PICK n \in Nat : n = faults /\ n <= faults' BY FannedFacts
<1>9. Made(Tests(r), Queued(ToSet(call[r].ids)), P, n) BY <1>8, <1>a DEF Fanned, ToldKnown
<1>10. P = Passed(Tests(r), Left(r))' BY <1>5, <1>6, <1>8 DEF Passed
<1>11. ToldKnown(r)' BY <1>1, <1>9, <1>10, <1>a, ToldSame DEF Queued
<1>12. /\ next \in Nat /\ call[r].ids \in Seq(1 .. next - 1) /\ \A j \in jobs : j.run \in 1 .. next - 1
  BY FannedFacts DEF HeldKnown
<1>13. next \notin 1 .. next - 1 BY <1>12
<1>14. next \notin ToSet(call[r].ids)
  <2>1. ToSet(call[r].ids) \subseteq 1 .. next - 1 BY <1>12, ListingOf
  <2> QED BY <2>1, <1>13
<1>15. Queued(call[r].seen)' = Queued(call[r].seen) BY <1>1, <1>12, <1>13 DEF Queued
<1>16. Waiting(r)' /\ Latest(r)' = next
  <2>1. Queueing(r)' BY FannedFacts, Frame DEF Fanned, Queueing
  <2>2. Waiting(r)' BY <2>1, <1>1 DEF Waiting
  <2> QED BY <2>2, LatestNext, FannedFacts DEF Fanned
<1>17. \A i \in call[r].seen : Queued({i}) # {} BY <1>1, <1>2 DEF HandKnown
<1>18. \A i \in call'[r].seen : Queued({i})' # {} \/ (call'[r].at = "add" /\ i = Latest(r)')
  BY <1>1, <1>16, <1>17 DEF Queued
<1>19. /\ ToSet(call[r].ids) \cap call[r].seen = {}
       /\ \A j \in Queued(call[r].seen) : j.version = call[r].row.version
       /\ Whole(Head(Left(r)), Pairs(Queued(call[r].seen)) \cup ToSet(call[r].batch))
  BY <1>2 DEF HandKnown
<1>20. (ToSet(call[r].ids) \cap call[r].seen = {})' BY <1>1, <1>14, <1>19
<1>21. \A j \in Queued(call[r].seen)' : j.version = call'[r].row.version BY <1>1, <1>15, <1>19
<1>22. Whole(Head(Left(r)), Pairs(Queued(call[r].seen)) \cup ToSet(call[r].batch))'
  <2>1. (Pairs(Queued(call[r].seen)) \cup ToSet(call[r].batch))' = Pairs(Queued(call[r].seen)) \cup ToSet(call[r].batch)
    BY <1>1, <1>15 DEF Pairs
  <2> QED BY <1>2, <1>5, <1>19, <2>1, WholeNext DEF Fanned
<1>23. call'[r].seen # {} BY <1>1
<1> QED BY <1>5, <1>7, <1>11, <1>18, <1>20, <1>21, <1>22, <1>23 DEF HandKnown

LEMMA QueuesFan ==
    ASSUME NEW r, Fanned(r), Queues(r)
    PROVE  PlaceKnown(r)' /\ ToldKnown(r)' /\ HandKnown(r)'
<1>0. Req(r).op # "retry" BY DEF Fanned, Fanning
<1>1. /\ call[r].at = "add" /\ call'[r].at = "insert" /\ call'[r].seen = call[r].seen
      /\ call'[r].ids = call[r].ids /\ call'[r].tests = call[r].tests /\ call'[r].row = call[r].row
      /\ call'[r].batch = Tail(call[r].batch) /\ db' = db
  BY <1>0 DEF Queues
<1>2. Fans(r) /\ HandKnown(r) /\ r \in Requests /\ Queueing(r) BY <1>1, FannedFacts DEF Fans, Fanned
<1>3. PICK j : /\ jobs' = jobs \cup {j} /\ Waiting(r)
               /\ j.run = Latest(r) /\ j.version = call[r].row.version
               /\ j.browser = Head(call[r].batch).browser /\ j.row = Head(call[r].batch).row
  BY <1>2, JobAdded DEF Fanned
<1>4. Latest(r) \in call[r].seen BY <1>2, <1>3, LatestSeen DEF Fanned
<1>5. /\ Left(r)' = Left(r) /\ Left(r) # << >> /\ Owned(call[r].row.version, Head(Left(r)))'
      /\ KeptTest(Head(Left(r)))' => OwnVersion(Head(Left(r)), call[r].row.version)'
  BY <1>1, <1>2, HandNext
<1>6. Tests(r)' = Tests(r) /\ Ends(Tests(r), Left(r)) BY FannedFacts
<1>7. PlaceKnown(r)' BY <1>1, <1>5, <1>6 DEF PlaceKnown
<1>8. /\ ToSet(call[r].ids) \cap call[r].seen = {}
      /\ \A i \in call[r].seen : Queued({i}) # {} \/ i = Latest(r)
      /\ \A k \in Queued(call[r].seen) : k.version = call[r].row.version
      /\ Whole(Head(Left(r)), Pairs(Queued(call[r].seen)) \cup ToSet(call[r].batch))
  BY <1>2 DEF HandKnown
<1>9. {k \in jobs' : k.run \in ToSet(call[r].ids)} = Queued(ToSet(call[r].ids)) BY <1>3, <1>4, <1>8 DEF Queued
<1>10. PICK P : P = Passed(Tests(r), Left(r)) OBVIOUS
<1>a. PICK n \in Nat : n = faults /\ n <= faults' BY FannedFacts
<1>11. Made(Tests(r), Queued(ToSet(call[r].ids)), P, n) BY <1>10, <1>a DEF Fanned, ToldKnown
<1>12. P = Passed(Tests(r), Left(r))' BY <1>5, <1>6, <1>10 DEF Passed
<1>13. ToldKnown(r)' BY <1>1, <1>3, <1>9, <1>11, <1>12, <1>a, ToldSame
<1>14. Queued(call[r].seen)' = Queued(call[r].seen) \cup {j} BY <1>1, <1>3, <1>4 DEF Queued
<1>15. \A i \in call'[r].seen : Queued({i})' # {} BY <1>1, <1>3, <1>8 DEF Queued
<1>16. \A k \in Queued(call[r].seen)' : k.version = call'[r].row.version BY <1>1, <1>3, <1>8, <1>14
<1>17. Pairs(Queued(call[r].seen))' \cup ToSet(call'[r].batch) = Pairs(Queued(call[r].seen)) \cup ToSet(call[r].batch)
  <2>1. /\ Listing(call[r].batch) /\ call[r].batch # << >> /\ \A p \in ToSet(call[r].batch) : Plan(p)
    BY <1>2, <1>3 DEF Fanned, BatchKnown
  <2>2. ToSet(call[r].batch) = {Head(call[r].batch)} \cup ToSet(Tail(call[r].batch)) BY <2>1, TailOf
  <2>3. Plan(Head(call[r].batch)) BY <2>1, <2>2
  <2>4. Head(call[r].batch) = [browser |-> j.browser, row |-> j.row] BY <2>3, <1>3 DEF Plan
  <2>5. Pairs(Queued(call[r].seen))' = {[browser |-> k.browser, row |-> k.row] : k \in Queued(call[r].seen) \cup {j}}
    BY <1>14 DEF Pairs
  <2>6. Pairs(Queued(call[r].seen))' = Pairs(Queued(call[r].seen)) \cup {[browser |-> j.browser, row |-> j.row]}
    BY <2>5 DEF Pairs
  <2> QED BY <2>2, <2>4, <2>6, <1>1
<1>18. Whole(Head(Left(r)), Pairs(Queued(call[r].seen)) \cup ToSet(call[r].batch))' BY <1>2, <1>5, <1>8, <1>17, WholeNext DEF Fanned
<1>19. (ToSet(call[r].ids) \cap call[r].seen = {})' BY <1>1, <1>8
<1>20. call'[r].seen # {} BY <1>1, <1>4
<1> QED BY <1>5, <1>7, <1>13, <1>15, <1>16, <1>18, <1>19, <1>20 DEF HandKnown

LEMMA ClosesFan ==
    ASSUME NEW r, Fanned(r), Closes(r)
    PROVE  PlaceKnown(r)' /\ ToldKnown(r)' /\ ~ Fans(r)'
<1>1. /\ call[r].at = "insert" /\ call[r].batch = << >> /\ call'[r].at = "test" /\ call'[r].tests = Tail(call[r].tests)
      /\ call'[r].ids = call[r].ids \o SetToSeq(call[r].seen) /\ db' = db /\ jobs' = jobs
  BY DEF Closes, Read
<1>2. Fans(r) /\ HandKnown(r) /\ r \in Requests BY <1>1, FannedFacts DEF Fans, Fanned
<1>3. Left(r) = call[r].tests /\ Left(r) # << >> BY <1>1, <1>2 DEF Left, Fanned, PlaceKnown
<1>4. Left(r)' = Tail(Left(r)) /\ Tests(r)' = Tests(r) BY <1>1, <1>3, FannedFacts
<1>5. ~ Fans(r)' BY <1>1 DEF Fans
<1>6. /\ Ends(Tests(r), Tail(Left(r))) /\ Passed(Tests(r), Tail(Left(r))) = Passed(Tests(r), Left(r)) \cup {Head(Left(r))}
      /\ (Once(Tests(r), Head(Left(r))) => Head(Left(r)) \notin Passed(Tests(r), Left(r)))
  BY <1>3, FannedFacts, PassedNext
<1>7. PlaceKnown(r)' BY <1>1, <1>4, <1>5, <1>6 DEF PlaceKnown
<1>8. PICK P, t, v, all : P = Passed(Tests(r), Left(r)) /\ t = Head(Left(r)) /\ v = call[r].row.version /\ all = Tests(r) OBVIOUS
<1>9. PICK M, S : M = Queued(ToSet(call[r].ids)) /\ S = Queued(call[r].seen) OBVIOUS
<1>a. PICK few, more : few = faults /\ more = faults' OBVIOUS
<1>b. few \in Nat /\ more \in Nat /\ few <= more BY <1>2, <1>a, FaultsGrow DEF Fanned
<1>10. Made(all, M, P, few) BY <1>8, <1>9, <1>a DEF Fanned, ToldKnown
<1>11. /\ ToSet(call[r].ids) \cap call[r].seen = {} /\ call[r].seen # {}
       /\ \A i \in call[r].seen : Queued({i}) # {}
       /\ \A j \in S : j.version = v
       /\ Owned(v, t) /\ (KeptTest(t) => OwnVersion(t, v))
  BY <1>1, <1>2, <1>8, <1>9 DEF HandKnown
<1>12. Whole(t, Pairs(S))
  <2>1. ToSet(<< >>) = {} BY DEF ToSet
  <2>2. Whole(t, Pairs(S) \cup ToSet(call[r].batch)) BY <1>2, <1>8, <1>9 DEF HandKnown
  <2>3. Pairs(S) \cup ToSet(call[r].batch) = Pairs(S) BY <2>1, <1>1
  <2> QED BY <2>2, <2>3
<1>13. S # {}
  <2>1. PICK i \in call[r].seen : TRUE BY <1>11
  <2>2. Queued({i}) # {} BY <2>1, <1>11
  <2> QED BY <2>1, <2>2, <1>9 DEF Queued
<1>14. Made(all, M \cup S, P \cup {t}, few) BY <1>6, <1>8, <1>10, <1>11, <1>12, <1>13, MadeMore
<1>15. \A j \in M \cup S : j.version \in 1 .. next - 1 BY <1>9, FannedFacts DEF Queued
<1>c. Made(all, M \cup S, P \cup {t}, few)' BY <1>2, <1>14, <1>15, MadeStays DEF Fanned
<1>16. Made(all, M \cup S, P \cup {t}, more)' BY <1>b, <1>c, MadeGrows
<1>17. /\ ToSet(call'[r].ids) = ToSet(call[r].ids) \cup call[r].seen
       /\ (\A m, n \in DOMAIN call[r].ids : call[r].ids[m] = call[r].ids[n] => m = n)
          => \A m, n \in DOMAIN call'[r].ids : call'[r].ids[m] = call'[r].ids[n] => m = n
  <2>1. RowsHang BY DEF Fanned
  <2> QED BY <2>1, <1>1, <1>2, <1>11, ClosedIds
<1>18. Queued(ToSet(call[r].ids))' = M \cup S BY <1>1, <1>9, <1>17 DEF Queued
<1>19. Passed(Tests(r), Left(r))' = P \cup {t} BY <1>4, <1>6, <1>8 DEF Passed
<1>20. Tests(r)' = all BY <1>4, <1>8
<1>21. Made(Tests(r), Queued(ToSet(call[r].ids)), Passed(Tests(r), Left(r)), faults)' BY <1>16, <1>18, <1>19, <1>20, <1>a DEF Made
<1>22. /\ \A m, n \in DOMAIN call[r].ids : call[r].ids[m] = call[r].ids[n] => m = n
       /\ \A i \in ToSet(call[r].ids) : Queued({i}) # {}
  BY DEF Fanned, ToldKnown
<1>23. \A i \in ToSet(call'[r].ids) : Queued({i})' # {} BY <1>1, <1>11, <1>17, <1>22 DEF Queued
<1>24. ToldKnown(r)' BY <1>17, <1>21, <1>22, <1>23 DEF ToldKnown
<1> QED BY <1>5, <1>7, <1>24


(* Together. *)
AllQueued == RowsHang /\ QueueKnown

LEMMA AllQueuedInit == Init => AllQueued
<1> SUFFICES ASSUME Init PROVE QueueKnown BY RowsHangInit DEF AllQueued
<1>0. RowsHang /\ CatalogKnown BY RowsHangInit DEF RowsHang
<1>1. PICK w \in Workloads, enforced \in BOOLEAN : work = [enforced |-> enforced] ++ w /\ db = w.db BY DEF Init
<1>2. db = work.db BY <1>1, WorkKnown
<1>3. TestsReady BY <1>0, <1>2, RequestsListed DEF TestsReady, Ids
<1>4. jobs = {} /\ \A r \in Requests : call[r] = NewCall BY DEF Init
<1>5. \A r \in Requests : /\ call[r].at = "start" /\ call[r].seen = {} /\ call[r].ids = << >> /\ call[r].tests = << >>
                          /\ ~ Fans(r) /\ ~ Waiting(r)
  BY <1>4 DEF NewCall, Fans, Waiting
<1>6. PointsOwn
  <2>1. \A t \in Ids("test") : Owned(db.test[t].current, t) BY <1>0, <1>2, WorkFacts DEF Ids, Owned
  <2> QED BY <2>1, <1>5 DEF PointsOwn
<1>7. JobsKnown BY <1>4, <1>5 DEF JobsKnown
<1>8. KeptThere BY <1>2 DEF KeptThere, Unchanged, Ids
<1>9. ASSUME NEW r \in Requests PROVE BatchKnown(r) /\ FanKnown(r)
  <2>1. BatchKnown(r) BY <1>5 DEF BatchKnown
  <2>2. ASSUME Req(r).op \in Fanning PROVE PlaceKnown(r) /\ ToldKnown(r)
    <3>1. Listing(Tests(r)) BY <1>0, <2>2, TestsListed
    <3>2. Left(r) = Tests(r) BY <1>5 DEF Left
    <3>3. Ends(Tests(r), Left(r)) /\ Passed(Tests(r), Left(r)) = {} BY <3>1, <3>2, PassedNone
    <3>4. PlaceKnown(r) BY <1>5, <3>3 DEF PlaceKnown
    <3>5. Queued(ToSet(call[r].ids)) = {} BY <1>4 DEF Queued
    <3>6. Made(Tests(r), {}, {}, faults)
      <4>1. faults = 0 BY DEF Init
      <4>2. IsFiniteSet({}) /\ Cardinality({}) <= faults BY <4>1, FS_EmptySet
      <4>3. FewLost({}, {}, faults) BY <4>2 DEF FewLost, Lost
      <4> QED BY <4>3 DEF Made, Covered, ForTest
    <3>7. DOMAIN call[r].ids = {} BY <1>5
    <3>8. ToSet(call[r].ids) = {} BY <3>7 DEF ToSet
    <3>9. ToldKnown(r) BY <3>3, <3>5, <3>6, <3>7, <3>8 DEF ToldKnown
    <3> QED BY <3>4, <3>9
  <2> QED BY <2>1, <2>2, <1>5 DEF FanKnown
<1> QED BY <1>3, <1>6, <1>7, <1>8, <1>9 DEF QueueKnown

LEMMA FanNext ==
    ASSUME AllQueued, NEW r \in Requests, Handle(r)
    PROVE  FanKnown(r)'
<1>0. RowsHang /\ ~ Answered(r) /\ Req(r)' = Req(r) BY Frame DEF AllQueued
<1> SUFFICES ASSUME Req(r).op \in Fanning, call'[r].at # "failed"
             PROVE  PlaceKnown(r)' /\ ToldKnown(r)' /\ (Fans(r)' => HandKnown(r)')
  BY <1>0 DEF FanKnown
<1>1. PlaceKnown(r) /\ ToldKnown(r) /\ (Fans(r) => HandKnown(r)) BY <1>0 DEF AllQueued, QueueKnown, FanKnown, Answered
<1>2. Fanned(r) BY <1>1 DEF Fanned, AllQueued, QueueKnown
<1>3. ~ Stops(r) /\ ~ Picks(r) BY DEF Stops, Picks, Fanning
<1>4. Finishes(r) \/ Skips(r) \/ Chooses(r) \/ Takes(r) \/ Closes(r) \/ Queues(r)
  BY <1>0, <1>3, FanGoes DEF Queueing
<1> QED BY <1>2, <1>4, FinishesFan, SkipsFan, ChoosesFan, TakesFan, ClosesFan, QueuesFan

LEMMA AllQueuedStep == AllQueued /\ [Next]_vars => AllQueued'
<1> SUFFICES ASSUME AllQueued, [Next]_vars PROVE AllQueued' OBVIOUS
<1>0. RowsHang /\ QueueKnown /\ RowsHang' BY RowsHangStep DEF AllQueued
<1>1. ASSUME NEW r \in Requests, Handle(r) PROVE QueueKnown'
  <2>1. CatalogKnown /\ TestsReady /\ PointsOwn /\ JobsKnown /\ KeptThere /\ \A s \in Requests : BatchKnown(s) /\ FanKnown(s)
    BY <1>0 DEF RowsHang, QueueKnown
  <2>2. work' = work /\ Requests' = Requests /\ \A s : Req(s)' = Req(s) BY <1>0, <1>1, Frame
  <2>3. Lane(r) BY <1>1, <2>1, HandleLane
  <2>4. TestsReady' BY <2>3 DEF Lane, TestsReady
  <2>5. PointsOwn' BY <1>0, <1>1, <2>1, PointsOwnStep
  <2>6. JobsKnown' BY <1>0, <1>1, <2>1, JobsNext
  <2>7. KeptThere' BY <1>0, <1>1, <2>1, KeptNext
  <2>8. \A s \in Requests : BatchKnown(s)' BY <1>0, <1>1, <2>1, BatchNext
  <2>9. ASSUME NEW s \in Requests PROVE FanKnown(s)'
    <3>1. CASE s = r BY <1>1, <3>1, FanNext
    <3>2. CASE s # r BY <1>0, <1>1, <2>1, <3>2, FanBeside
    <3> QED BY <3>1, <3>2
  <2> QED BY <2>2, <2>4, <2>5, <2>6, <2>7, <2>8, <2>9 DEF QueueKnown
<1>2. CASE UNCHANGED vars
  <2>1. work' = work /\ db' = db /\ jobs' = jobs /\ call' = call /\ faults' = faults /\ next' = next BY <1>2 DEF vars
  <2>2. Requests' = Requests /\ \A s : Req(s)' = Req(s) BY <2>1 DEF Requests, Req
  <2>3. \A t : Ids(t)' = Ids(t) BY <2>1 DEF Ids
  <2>4. TestsReady' BY <1>0, <2>1, <2>3 DEF QueueKnown, TestsReady
  <2>5. PointsOwn' BY <1>0, <2>1, <2>2, <2>3 DEF QueueKnown, PointsOwn, Owned
  <2>6. \A s : /\ (Fans(s)' <=> Fans(s)) /\ (Waiting(s)' <=> Waiting(s)) /\ (Queueing(s)' <=> Queueing(s)) /\ Latest(s)' = Latest(s)
               /\ Tests(s)' = Tests(s) /\ Left(s)' = Left(s)
    BY <2>1, <2>2 DEF Fans, Waiting, Queueing, Latest, Tests, Left
  <2>7. \A s : Claimed(s)' = Claimed(s) BY <2>1, <2>6 DEF Claimed
  <2>8. \A i, v, b : RunIs(i, v, b)' <=> RunIs(i, v, b) BY <2>1, <2>3 DEF RunIs
  <2>9. JobsKnown' BY <1>0, <2>1, <2>2, <2>6, <2>7, <2>8 DEF QueueKnown, JobsKnown
  <2>10. NoneRemoved' <=> NoneRemoved BY <2>2 DEF NoneRemoved
  <2>a. \A t, S : (Steady(t)' <=> Steady(t)) /\ (KeptTest(t)' <=> KeptTest(t)) /\ (Unchanged(t)' <=> Unchanged(t))
                 /\ (AsAsked(t, S)' <=> AsAsked(t, S)) /\ (Whole(t, S)' <=> Whole(t, S))
    BY <2>1, <2>2, <2>10 DEF Steady, KeptTest, Unchanged, AsAsked, Asked, Whole, Closed
  <2>11. KeptThere' BY <1>0, <2>1, <2>3, <2>10, <2>a DEF QueueKnown, KeptThere
  <2>12. ASSUME NEW s \in Requests PROVE BatchKnown(s)'
    <3>1. BatchKnown(s) BY <1>0 DEF QueueKnown
    <3>2. Waiting(s)' => RunIs(Latest(s), call[s].row.version, Head(call[s].batch).browser)' 
      <4>1. Waiting(s) => Fans(s) BY DEF Waiting, Fans
      <4>2. Waiting(s) => RunIs(Latest(s), call[s].row.version, Head(call[s].batch).browser) BY <3>1, <4>1 DEF BatchKnown
      <4> QED BY <4>2, <2>1, <2>3, <2>6 DEF RunIs
    <3> QED BY <3>1, <3>2, <2>1, <2>6 DEF BatchKnown
  <2>13. ASSUME NEW s \in Requests PROVE FanKnown(s)'
    <3>1. FanKnown(s) BY <1>0 DEF QueueKnown
    <3>2. \A t, v : (OwnVersion(t, v)' <=> OwnVersion(t, v)) /\ (Owned(v, t)' <=> Owned(v, t)) /\ (KeptTest(t)' <=> KeptTest(t))
      BY <2>1, <2>3, <2>10 DEF OwnVersion, Owned, KeptTest
    <3>3. PlaceKnown(s)' <=> PlaceKnown(s) BY <2>1, <2>6 DEF PlaceKnown
    <3>4. \A A : Queued(A)' = Queued(A) BY <2>1 DEF Queued
    <3>5. \A M, t : ForTest(M, t)' = ForTest(M, t) BY <3>2 DEF ForTest
    <3>a. \A M, t : Covered(M, t) => Covered(M, t)'
      <4>1. SUFFICES ASSUME NEW M, NEW t, Covered(M, t) PROVE Covered(M, t)' OBVIOUS
      <4>2. PICK F : F = ForTest(M, t) OBVIOUS
      <4>3. ForTest(M, t)' = F BY <3>5, <4>2
      <4>4. F # {} => AsAsked(t, Pairs(F))' BY <2>a, <4>1, <4>2 DEF Covered, Pairs
      <4>5. AsAsked(t, Pairs(F))' => AsAsked(t, Pairs(ForTest(M, t)))' BY <4>3 DEF AsAsked, Pairs
      <4> QED BY <4>1, <4>2, <4>3, <4>4, <4>5 DEF Covered
    <3>b. \A M, P : Lost(M, P)' = Lost(M, P) BY <3>2, <3>5 DEF Lost
    <3>c. \A M, P, n : FewLost(M, P, n) => FewLost(M, P, n)' BY <3>b DEF FewLost
    <3>6. \A all, M, P, n : Made(all, M, P, n) => Made(all, M, P, n)' BY <2>1, <2>3, <3>2, <3>5, <3>a, <3>c DEF Made
    <3>7. ToldKnown(s) => ToldKnown(s)'
      <4>1. SUFFICES ASSUME ToldKnown(s) PROVE ToldKnown(s)' OBVIOUS
      <4>2. PICK all, M, P, n : /\ all = Tests(s) /\ M = Queued(ToSet(call[s].ids)) /\ P = Passed(Tests(s), Left(s))
                                /\ n = faults
        OBVIOUS
      <4>3. Made(all, M, P, n)' BY <3>6, <4>1, <4>2 DEF ToldKnown
      <4>4. Tests(s)' = all /\ Queued(ToSet(call[s].ids))' = M /\ Passed(Tests(s), Left(s))' = P
        BY <2>1, <2>6, <4>2 DEF Queued, Passed
      <4>5. Made(Tests(s), Queued(ToSet(call[s].ids)), Passed(Tests(s), Left(s)), faults)' BY <2>1, <4>2, <4>3, <4>4 DEF Made
      <4> QED BY <4>1, <4>5, <3>4, <2>1 DEF ToldKnown
    <3>8. HandKnown(s) => HandKnown(s)'
      <4>1. SUFFICES ASSUME HandKnown(s) PROVE HandKnown(s)' OBVIOUS
      <4>2. Owned(call[s].row.version, Head(Left(s)))' BY <4>1, <2>1, <2>3, <2>6 DEF HandKnown, Owned
      <4>3. KeptTest(Head(Left(s)))' => OwnVersion(Head(Left(s)), call[s].row.version)'
        BY <4>1, <2>1, <2>3, <2>6, <2>10 DEF HandKnown, KeptTest, OwnVersion
      <4>4. Queued(call[s].seen)' = Queued(call[s].seen) BY <2>1 DEF Queued
      <4>5. Whole(Head(Left(s)), Pairs(Queued(call[s].seen)) \cup ToSet(call[s].batch))'
        <5>1. PICK t, S : t = Head(Left(s)) /\ S = Pairs(Queued(call[s].seen)) \cup ToSet(call[s].batch) OBVIOUS
        <5>2. Whole(t, S)' BY <4>1, <5>1, <2>a DEF HandKnown
        <5>3. Head(Left(s))' = t /\ (Pairs(Queued(call[s].seen)) \cup ToSet(call[s].batch))' = S
          BY <5>1, <4>4, <2>1, <2>6 DEF Pairs
        <5> QED BY <5>2, <5>3 DEF Whole, Closed, AsAsked, KeptTest, Steady, Asked
      <4> QED BY <4>1, <4>2, <4>3, <4>4, <4>5, <3>4, <2>1, <2>6 DEF HandKnown
    <3> QED BY <3>1, <3>3, <3>7, <3>8, <2>1, <2>2, <2>6 DEF FanKnown
  <2>14. QueueKnown' BY <2>2, <2>4, <2>5, <2>9, <2>11, <2>12, <2>13 DEF QueueKnown
  <2> QED BY <1>0, <2>14 DEF AllQueued
<1> QED BY <1>0, <1>1, <1>2 DEF Next, AllQueued


LEMMA AllQueuedKeeps == AllQueued => FanOutComplete
<1> SUFFICES ASSUME AllQueued PROVE FanOutComplete OBVIOUS
<1>0. RowsHang /\ QueueKnown BY DEF AllQueued
<1>1. JobsKnown BY <1>0 DEF QueueKnown
<1>2. \A j \in jobs : j.browser \notin Disabled BY <1>1 DEF JobsKnown
<1>3. ASSUME NEW r \in Requests, Req(r).op \in Fanning, Ok(r)
      PROVE  LET made == {j \in jobs : j.run \in ToSet(call[r].ids)}
                 of(t) == {j \in made : j.version \in Ids("testVersion") /\ db.testVersion[j.version].of = t}
                 once(t) == \A m, n \in DOMAIN Tests(r) : Tests(r)[m] = t /\ Tests(r)[n] = t => m = n
                 kept(t) == t \in DOMAIN work.db.test /\ work.db.test[t].current # 0
                            /\ \A s \in Requests : Req(s).op # "removeTest"
             IN  /\ Cardinality(made) = Len(call[r].ids)
                 /\ Cardinality({t \in ToSet(Tests(r)) : kept(t) /\ of(t) = {}}) <= faults
                 /\ \A t \in ToSet(Tests(r)) : once(t) => \A j, k \in of(t) :
                       /\ j.version = k.version
                       /\ \E l \in of(t) : l.browser = j.browser /\ l.row = k.row
                 /\ \A t \in ToSet(Tests(r)) : once(t) /\ kept(t) /\ Steady(t) /\ of(t) # {} =>
                       {[browser |-> j.browser, row |-> j.row] : j \in of(t)} = Asked(work.db.test[t])
                 /\ \A j \in made : j.run \in Ids("run") => db.run[j.run].browser = j.browser /\ db.run[j.run].of = j.version
  <2> DEFINE ids  == call[r].ids
             made == {j \in jobs : j.run \in ToSet(ids)}
             all  == Tests(r)
  <2>0. made = Queued(ToSet(ids)) BY DEF Queued
  <2>1. PlaceKnown(r) /\ ToldKnown(r) BY <1>0, <1>3 DEF QueueKnown, FanKnown, Ok
  <2>2. Left(r) = << >> BY <2>1, <1>3 DEF PlaceKnown, Ok
  <2>3. Listing(all) BY <1>0, <1>3, TestsListed DEF RowsHang
  <2>4. Passed(all, Left(r)) = ToSet(all) BY <2>2, <2>3, PassedNone
  <2>5. Made(all, made, ToSet(all), faults) BY <2>0, <2>1, <2>4 DEF ToldKnown
  <2>6. Cardinality(made) = Len(ids)
    <3>1. ids \in Seq(1 .. next - 1) BY <1>0 DEF RowsHang, HeldKnown
    <3>2. Len(ids) \in Nat /\ DOMAIN ids = 1 .. Len(ids) BY <3>1
    <3>3. \A m, n \in 1 .. Len(ids) : ids[m] = ids[n] => m = n BY <2>1, <3>2 DEF ToldKnown
    <3>4. \A n \in 1 .. Len(ids) : \E j \in jobs : j.run = ids[n] BY <2>1, <3>2 DEF ToldKnown, Queued, ToSet
    <3> DEFINE f == [n \in 1 .. Len(ids) |-> CHOOSE j \in jobs : j.run = ids[n]]
    <3>5. \A n \in 1 .. Len(ids) : f[n] \in jobs /\ f[n].run = ids[n] BY <3>4
    <3>6. \A n \in 1 .. Len(ids) : f[n] \in made BY <3>2, <3>5 DEF Queued, ToSet
    <3>7. \A j \in made : \E n \in 1 .. Len(ids) : f[n] = j
      <4>1. SUFFICES ASSUME NEW j \in made PROVE \E n \in 1 .. Len(ids) : f[n] = j OBVIOUS
      <4>2. PICK n \in 1 .. Len(ids) : j.run = ids[n] BY <3>2 DEF Queued, ToSet
      <4>3. j \in jobs /\ f[n] \in jobs /\ f[n].run = j.run BY <3>5, <4>2 DEF Queued
      <4>4. f[n] = j BY <1>1, <4>3 DEF JobsKnown
      <4> QED BY <4>4
    <3>8. DOMAIN f = 1 .. Len(ids) /\ f \in [1 .. Len(ids) -> made]
      <4>1. f = [n \in 1 .. Len(ids) |-> f[n]] OBVIOUS
      <4> HIDE DEF f, made
      <4> QED BY <4>1, <3>6
    <3> HIDE DEF f, made
    <3>9. IsInjective(f) BY <3>3, <3>5, <3>8 DEF IsInjective
    <3>10. f \in Bijection(1 .. Len(ids), made) BY <3>7, <3>8, <3>9 DEF Bijection, Injection, Surjection
    <3>11. ExistsBijection(1 .. Len(ids), made) BY <3>10 DEF ExistsBijection
    <3>12. IsFiniteSet(1 .. Len(ids)) /\ Cardinality(1 .. Len(ids)) = Len(ids) BY <3>2, FS_Interval
    <3> QED BY <3>11, <3>12, FS_Bijection
  <2>8. \A t : ForTest(made, t) = {j \in made : j.version \in Ids("testVersion") /\ db.testVersion[j.version].of = t}
    BY DEF ForTest, OwnVersion
  <2>9. \A j \in made : j.run \in Ids("run") => db.run[j.run].browser = j.browser /\ db.run[j.run].of = j.version
    BY <1>1 DEF JobsKnown, RunIs
  <2>11. \A t \in ToSet(all) : Once(all, t) => Covered(made, t) BY <2>5 DEF Made
  <2> DEFINE of(t) == {j \in made : j.version \in Ids("testVersion") /\ db.testVersion[j.version].of = t}
  <2> DEFINE kept(t) == t \in DOMAIN work.db.test /\ work.db.test[t].current # 0 /\ \A s \in Requests : Req(s).op # "removeTest"
             lost == {t \in ToSet(all) : kept(t) /\ of(t) = {}}
  <2>12. Cardinality(lost) <= faults
    <3>1. \A t : kept(t) <=> KeptTest(t) BY DEF KeptTest, NoneRemoved
    <3> HIDE DEF kept, of, made, all
    <3>2. \A t : of(t) = ForTest(made, t) BY <2>8 DEF of
    <3>3. lost = Lost(made, ToSet(all)) BY <3>1, <3>2 DEF Lost
    <3>4. PICK L : IsFiniteSet(L) /\ Cardinality(L) <= faults /\ Lost(made, ToSet(all)) \subseteq L BY <2>5 DEF Made, FewLost
    <3> HIDE DEF lost
    <3>5. IsFiniteSet(lost) /\ Cardinality(lost) <= Cardinality(L) BY <3>3, <3>4, FS_Subset
    <3>6. Cardinality(lost) \in Nat /\ Cardinality(L) \in Nat BY <3>4, <3>5, FS_CardinalityType
    <3>7. faults \in Nat BY <1>0, WorkFacts DEF RowsHang, OrderKnown
    <3> QED BY <3>4, <3>5, <3>6, <3>7
  <2>13. ASSUME NEW t \in ToSet(all), \A m, n \in DOMAIN all : all[m] = t /\ all[n] = t => m = n, NEW j \in of(t), NEW k \in of(t)
         PROVE  j.version = k.version /\ \E l \in of(t) : l.browser = j.browser /\ l.row = k.row
    <3> HIDE DEF of, made
    <3>1. of(t) = ForTest(made, t) BY <2>8 DEF of
    <3>2. Covered(made, t) BY <2>11, <2>13 DEF Once
    <3> QED BY <3>1, <3>2, <2>13 DEF Covered
  <2>14. ASSUME NEW t \in ToSet(all), \A m, n \in DOMAIN all : all[m] = t /\ all[n] = t => m = n,
                t \in DOMAIN work.db.test, work.db.test[t].current # 0, \A s \in Requests : Req(s).op # "removeTest", Steady(t), of(t) # {}
         PROVE  {[browser |-> j.browser, row |-> j.row] : j \in of(t)} = Asked(work.db.test[t])
    <3> HIDE DEF of, made
    <3>1. of(t) = ForTest(made, t) BY <2>8 DEF of
    <3>2. Covered(made, t) BY <2>11, <2>14 DEF Once
    <3>3. KeptTest(t) BY <2>14 DEF KeptTest, NoneRemoved
    <3>4. Pairs(ForTest(made, t)) = Asked(work.db.test[t]) BY <2>14, <3>1, <3>2, <3>3 DEF Covered, AsAsked
    <3> QED BY <3>1, <3>4 DEF Pairs
  <2>15. /\ \A t \in ToSet(all) : (\A m, n \in DOMAIN all : all[m] = t /\ all[n] = t => m = n) =>
               \A j, k \in of(t) : j.version = k.version /\ \E l \in of(t) : l.browser = j.browser /\ l.row = k.row
         /\ \A t \in ToSet(all) :
               /\ \A m, n \in DOMAIN all : all[m] = t /\ all[n] = t => m = n
               /\ t \in DOMAIN work.db.test /\ work.db.test[t].current # 0 /\ \A s \in Requests : Req(s).op # "removeTest"
               /\ Steady(t) /\ of(t) # {}
               => {[browser |-> j.browser, row |-> j.row] : j \in of(t)} = Asked(work.db.test[t])
    <3> HIDE DEF of, all, made
    <3> QED BY <2>13, <2>14
  <2> QED BY <2>6, <2>9, <2>12, <2>15
<1> QED BY <1>2, <1>3 DEF FanOutComplete

(* What runs.create, the REST execute endpoint and createMany answer with is
   complete, whatever fails below: every run named has one job; the jobs of a test
   named once are for one version of it, with each row of data in each of the
   browsers, and these are what the test asks for unless somebody changes that
   meanwhile; each run is of the version and the browser of its job; and no more
   tests that are kept are left out than there were faults (enqueueTestRuns and its
   callers). *)
THEOREM RunsAllQueued == Spec => []FanOutComplete
<1>1. Init => AllQueued BY AllQueuedInit
<1>2. AllQueued /\ [Next]_vars => AllQueued' BY AllQueuedStep
<1>3. AllQueued => FanOutComplete BY AllQueuedKeeps
<1> QED BY <1>1, <1>2, <1>3, PTL DEF Spec
=============================================================================
