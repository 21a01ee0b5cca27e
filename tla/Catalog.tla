------------------------------ MODULE Catalog ------------------------------
(***************************************************************************)
(* The tRPC handlers of the web application (server/routers.ts) over the   *)
(* database of packages/db.  No handler runs in a transaction: each step   *)
(* here is one statement, and the handlers of any number of requests       *)
(* interleave.  The worker's own statements on a run are one more handler. *)
(*                                                                         *)
(* A table is a function from ids to rows.  Ids grow, so they also order   *)
(* rows by createdAt.  A row's `of` is its only foreign key (0: none).     *)
(***************************************************************************)
EXTENDS DataRows, FiniteSets, Records

CONSTANTS Workloads,  \* what may happen: [db, requests, faults]
          Disabled    \* DISABLED_BROWSERS

VARIABLES work,      \* the workload that happens, and whether foreign keys are enforced
          db, jobs,  \* the tables, and the jobs added to the queue
          call,      \* each request: where its handler is and what it holds
          before,    \* <<r, s>>: request r was answered before s began
          faults, next

vars == << work, db, jobs, call, before, faults, next >>

-----------------------------------------------------------------------------
(* schema.ts: what each table refers to. *)
References ==
    [ org |-> "none", apiKey |-> "none", project |-> "org", secret |-> "org",
      test |-> "project", folder |-> "project", alert |-> "project", action |-> "project",
      loginFlow |-> "project", testVersion |-> "test", baseline |-> "test", schedule |-> "test",
      run |-> "testVersion", stepResult |-> "run",
      captureRun |-> "loginFlow", captureStep |-> "captureRun" ]
Tables == DOMAIN References

(* Each workload starts from the tables of a database whose ids are 1, 2, and so
   on.  Ids are random in the code: a client cannot name a row before it is made,
   so the id a request names is one of these, or 0 for a row there never was.  A
   schedule is asked for, and a run is executed, of a test that there was. *)
NamesNoRow == {"createTest", "createFolder", "createAction", "createFlow", "createSecret",
               "createApiKey", "createMany", "listFolders", "listTests"}
InitialIds(w) == UNION {DOMAIN w.db[t] : t \in Tables}
ASSUME WorkloadsAssumption ==
    \A w \in Workloads :
        /\ DOMAIN w = {"db", "requests", "faults"} /\ w.faults \in Nat
        /\ DOMAIN w.db = Tables
        /\ IsFiniteSet(InitialIds(w)) /\ InitialIds(w) = 1 .. Cardinality(InitialIds(w))
        /\ \A t \in Tables : \A i \in DOMAIN w.db[t] :
              "of" \in DOMAIN w.db[t][i] /\ (References[t] # "none" => w.db[t][i].of \in DOMAIN w.db[References[t]])
        /\ \A t \in DOMAIN w.db.test :
              /\ "current" \in DOMAIN w.db.test[t] /\ w.db.test[t].current \in DOMAIN w.db.testVersion
              /\ w.db.testVersion[w.db.test[t].current].of = t
        /\ \A r \in DOMAIN w.requests :
              w.requests[r].op \notin NamesNoRow => w.requests[r].id \in 0 .. Cardinality(InitialIds(w))
        /\ \A r \in DOMAIN w.requests :
              /\ w.requests[r].op = "createSchedule" => w.requests[r].id \in DOMAIN w.db.test
              /\ w.requests[r].op = "execute" =>
                    w.requests[r].id \in DOMAIN w.db.run /\ w.requests[r].test \in DOMAIN w.db.test

Ids(table)         == DOMAIN db[table]
Select(table, col, values) == {i \in Ids(table) : db[table][i][col] \in values}
Oldest(table)      == CHOOSE i \in Ids(table) : \A j \in Ids(table) : i <= j   \* findFirst()

Insertable(table, row) ==
    work.enforced /\ References[table] # "none" => row.of \in Ids(References[table])
Deletable(table, ids) ==
    work.enforced => \A t \in Tables : References[t] = table => Select(t, "of", ids) = {}

Insert(table, row) ==
    /\ db' = [db EXCEPT ![table] = Entry(next, row) ++ @]
    /\ next' = next + 1 /\ UNCHANGED jobs
Delete(table, ids) ==
    /\ db' = [db EXCEPT ![table] = Restrict(@, DOMAIN @ \ ids)]
    /\ UNCHANGED << jobs, next >>
Update(table, ids, patch) ==
    /\ db' = [db EXCEPT ![table] = [i \in DOMAIN @ |-> IF i \in ids THEN patch ++ @[i] ELSE @[i]]]
    /\ UNCHANGED << jobs, next >>
Read == UNCHANGED << db, jobs, next >>

-----------------------------------------------------------------------------
Requests == DOMAIN work.requests
Req(r)   == work.requests[r]
Answered(r) == call[r].at \in {"ok", "refused", "failed"}
InFlight(r) == call[r].at # "start" /\ ~ Answered(r)

NewCall == [at |-> "start", seen |-> {}, runs |-> {}, row |-> << >>, tests |-> << >>, batch |-> << >>, ids |-> << >>]

Init ==
    /\ \E w \in Workloads, enforced \in BOOLEAN :
        /\ work = [enforced |-> enforced] ++ w
        /\ db = w.db
        /\ next = 1 + Cardinality(InitialIds(w))
    /\ jobs = {} /\ before = {} /\ faults = 0
    /\ call = [r \in Requests |-> NewCall]

(* A statement of r's handler: from one place to the next. *)
At(r, ops, place) == Req(r).op \in ops /\ call[r].at = place
Go(r, place)      == call' = [call EXCEPT ![r].at = place]
GoWith(r, place, what) == call' = [call EXCEPT ![r] = [at |-> place] ++ what ++ @]

Invalid(r) == \E k \in {"dsl", "json"} \cap DOMAIN Req(r) : Req(r)[k] = "invalid"
Refuse(r)  == Go(r, "refused") /\ Read

-----------------------------------------------------------------------------
(* ensureDefaultProject and ensureDefaultOrg *)
InProject == {"createTest", "createFolder", "createAction", "createFlow", "listFolders"}
InOrg     == {"createSecret"}

(* The organisation is not looked up by itself: another one is made for the
   project even if one exists. *)
FindProject(r) ==
    /\ At(r, InProject, "start")
    /\ IF Invalid(r) THEN Refuse(r)
       ELSE IF Ids("project") # {} THEN GoWith(r, "home", [seen |-> {Oldest("project")}]) /\ Read
       ELSE Go(r, "makeOrg") /\ Read

FindOrg(r) ==
    /\ At(r, InOrg, "start")
    /\ IF Ids("org") # {} THEN GoWith(r, "home", [seen |-> {Oldest("org")}]) ELSE Go(r, "makeOrg")
    /\ Read

MakeOrg(r) ==
    /\ At(r, InProject \cup InOrg, "makeOrg")
    /\ Insert("org", [of |-> 0])
    /\ GoWith(r, IF Req(r).op \in InOrg THEN "home" ELSE "makeProject", [seen |-> {next}])

MakeProject(r) ==
    /\ At(r, InProject, "makeProject")
    /\ \E org \in call[r].seen : Insert("project", [of |-> org])
    /\ GoWith(r, "home", [seen |-> {next}])

(* A TOTP seed is stored without spaces, in upper case. *)
Stored(r) == IF Req(r).kind = "totp" THEN "normalised" ELSE "as typed"

(* The insert of folders, actions, login flows and secrets. *)
CreateAtHome(r) ==
    /\ At(r, InOrg \cup (InProject \ {"createTest", "listFolders"}), "home")
    /\ \E home \in call[r].seen :
        CASE Req(r).op = "createFolder" ->
                Insert("folder", [of |-> home, name |-> Req(r).name, parent |-> Req(r).parent, collapsed |-> FALSE])
          [] Req(r).op = "createAction" -> Insert("action", [of |-> home, name |-> Req(r).name, dsl |-> Req(r).dsl])
          [] Req(r).op = "createFlow" ->
                Insert("loginFlow", [of |-> home, name |-> Req(r).name, dsl |-> Req(r).dsl, session |-> FALSE])
          [] Req(r).op = "createSecret" -> Insert("secret", [of |-> home, value |-> Stored(r)])
    /\ Go(r, "ok")

ListFolders(r) ==  \* the folders of the default project
    /\ At(r, {"listFolders"}, "home")
    /\ GoWith(r, "ok", [seen |-> Select("folder", "of", call[r].seen)]) /\ Read

-----------------------------------------------------------------------------
(* tests.create, update and the insert of a version *)
InsertTest(r) ==
    /\ At(r, {"createTest"}, "home")
    /\ \E home \in call[r].seen :
        Insert("test", [of |-> home, name |-> Req(r).name, folder |-> 0, current |-> 0,
                        settings |-> [browsers |-> << >>, flow |-> 0], data |-> << >>])
    /\ GoWith(r, "version", [seen |-> {next}])

FindTest(r) ==
    /\ At(r, {"updateTest"}, "start")
    /\ IF Req(r).id \in Ids("test")
       THEN GoWith(r, "name", [seen |-> {Req(r).id}, row |-> db.test[Req(r).id]])
       ELSE Go(r, "refused")
    /\ Read

(* The row that was read is written back with the new name. *)
RenameTestWriteBack(r) ==
    /\ At(r, {"updateTest"}, "name")
    /\ IF "name" \in DOMAIN Req(r) THEN Update("test", {Req(r).id}, [name |-> Req(r).name] ++ call[r].row) ELSE Read
    /\ Go(r, IF "dsl" \in DOMAIN Req(r) THEN "validate" ELSE "ok")

RenameTest(r) ==
    /\ At(r, {"updateTest"}, "name")
    /\ IF "name" \in DOMAIN Req(r) THEN Update("test", {Req(r).id}, [name |-> Req(r).name]) ELSE Read
    /\ Go(r, IF "dsl" \in DOMAIN Req(r) THEN "validate" ELSE "ok")

ValidateEdit(r) ==
    /\ At(r, {"updateTest"}, "validate")
    /\ Go(r, IF Invalid(r) THEN "refused" ELSE "version") /\ Read

InsertVersion(r) ==
    /\ At(r, {"createTest", "updateTest"}, "version")
    /\ \E t \in call[r].seen :
        LET row == [of |-> t, dsl |-> Req(r).dsl] IN
        IF Insertable("testVersion", row)
        THEN Insert("testVersion", row) /\ GoWith(r, "current", [ids |-> << next >>])
        ELSE Go(r, "failed") /\ Read

SetCurrent(r) ==
    /\ At(r, {"createTest", "updateTest"}, "current")
    /\ Update("test", call[r].seen, [current |-> call[r].ids[1]])
    /\ Go(r, "ok")

-----------------------------------------------------------------------------
(* tests.remove, statement by statement.  Each entry says where the handler
   goes next, what it deletes, and by which rows. *)
TestVersions(r) == Select("testVersion", "of", {Req(r).id})

ReadVersions(r) ==
    /\ At(r, {"removeTest"}, "start")
    /\ GoWith(r, IF TestVersions(r) = {} THEN "baselines" ELSE "readRuns", [seen |-> TestVersions(r)]) /\ Read

ReadRuns(r) ==
    /\ At(r, {"removeTest"}, "readRuns")
    /\ GoWith(r, "steps", [runs |-> Select("run", "of", call[r].seen)]) /\ Read

(* The baselines are forgotten. *)
DeletePartsButBaselines(r) ==
    [ steps     |-> << "stepResult", Select("stepResult", "of", call[r].runs), "runs" >>,
      runs      |-> << "run", Select("run", "of", call[r].seen), "schedules" >>,
      schedules |-> << "schedule", Select("schedule", "of", {Req(r).id}), "clear" >>,
      versions  |-> << "testVersion", TestVersions(r), "row" >>,
      row       |-> << "test", Ids("test") \cap {Req(r).id}, "ok" >> ]

DeleteParts(r) ==
    [ steps     |-> << "stepResult", Select("stepResult", "of", call[r].runs), "runs" >>,
      runs      |-> << "run", Select("run", "of", call[r].seen), "baselines" >>,
      baselines |-> << "baseline", Select("baseline", "of", {Req(r).id}), "schedules" >>,
      schedules |-> << "schedule", Select("schedule", "of", {Req(r).id}), "clear" >>,
      versions  |-> << "testVersion", TestVersions(r), "row" >>,
      row       |-> << "test", Ids("test") \cap {Req(r).id}, "ok" >> ]

RemovePart(r, parts) ==
    /\ call[r].at \in DOMAIN parts
    /\ LET part == parts[call[r].at] IN
        IF Deletable(part[1], part[2]) THEN Delete(part[1], part[2]) /\ Go(r, part[3])
        ELSE Go(r, "failed") /\ Read

ClearCurrent(r) ==
    /\ At(r, {"removeTest"}, "clear")
    /\ Update("test", {Req(r).id}, [current |-> 0]) /\ Go(r, "versions")

RemoveTest(r) == \/ ReadVersions(r) \/ ReadRuns(r) \/ ClearCurrent(r)
                 \/ Req(r).op = "removeTest" /\ RemovePart(r, DeleteParts(r))

(* loginFlows.remove, and runs.remove: the steps, the objects, the row. *)
ReadCaptures(r) ==
    /\ At(r, {"removeFlow"}, "start")
    /\ LET runs == Select("captureRun", "of", {Req(r).id}) IN
        GoWith(r, IF runs = {} THEN "flow" ELSE "captureSteps", [seen |-> runs]) /\ Read

FlowParts(r) ==
    [ captureSteps |-> << "captureStep", Select("captureStep", "of", call[r].seen), "captureRuns" >>,
      captureRuns  |-> << "captureRun", Select("captureRun", "of", {Req(r).id}), "flow" >>,
      flow         |-> << "loginFlow", Ids("loginFlow") \cap {Req(r).id}, "ok" >> ]

RunParts(r) ==
    [ start |-> << "stepResult", Select("stepResult", "of", {Req(r).id}), "run" >>,
      run   |-> << "run", Ids("run") \cap {Req(r).id}, "ok" >> ]

RemoveFlow(r) == \/ ReadCaptures(r)
                 \/ Req(r).op = "removeFlow" /\ RemovePart(r, FlowParts(r))
RemoveRun(r)  == Req(r).op = "removeRun" /\ RemovePart(r, RunParts(r))

-----------------------------------------------------------------------------
(* The handlers of one update or one delete. *)
Patched == [ updateSettings |-> "test", moveTest |-> "test", setData |-> "test",
             renameFolder |-> "folder", setCollapsed |-> "folder",
             updateAction |-> "action", updateFlow |-> "loginFlow" ]

Rows(q) == IF q.json = "valid" THEN q.rows ELSE ParseDataRows(q.text)  \* what setData stores

(* updateFlow drops the captured session with the steps it belonged to. *)
Patch(r) ==
    LET q == Req(r) IN
    CASE q.op = "updateSettings" -> [settings |-> q.settings]
      [] q.op = "moveTest"       -> [folder |-> q.folder]
      [] q.op = "setData"        -> [data |-> Rows(q)]
      [] q.op = "renameFolder"   -> [name |-> q.name]
      [] q.op = "setCollapsed"   -> [collapsed |-> q.collapsed]
      [] OTHER -> Restrict(q, DOMAIN q \cap {"name", "dsl"})
                  ++ (IF q.op = "updateFlow" /\ "dsl" \in DOMAIN q THEN [session |-> FALSE] ELSE << >>)

PatchRow(r) ==
    /\ At(r, DOMAIN Patched, "start")
    /\ IF Invalid(r) THEN Refuse(r)
       ELSE /\ IF Patch(r) # << >> THEN Update(Patched[Req(r).op], {Req(r).id}, Patch(r)) ELSE Read
            /\ Go(r, "ok")

Dropped == [ removeAction |-> "action", removeSchedule |-> "schedule", removeSecret |-> "secret",
             removeApiKey |-> "apiKey", removeAlert |-> "alert" ]

DropRow(r) ==
    /\ At(r, DOMAIN Dropped, "start")
    /\ LET table == Dropped[Req(r).op] IN Delete(table, Ids(table) \cap {Req(r).id})
    /\ Go(r, "ok")

(* schedules.create relies on the foreign key; alerts.create looks the test up
   for its project; apiKeys.create makes a key of its own. *)
CreateSchedule(r) ==
    /\ At(r, {"createSchedule"}, "start")
    /\ IF Insertable("schedule", [of |-> Req(r).id]) THEN Insert("schedule", [of |-> Req(r).id]) /\ Go(r, "ok")
       ELSE Go(r, "failed") /\ Read

CreateApiKey(r) == At(r, {"createApiKey"}, "start") /\ Insert("apiKey", [of |-> 0, key |-> next]) /\ Go(r, "ok")

FindAlertTest(r) ==
    /\ At(r, {"createAlert"}, "start")
    /\ IF Req(r).id \in Ids("test") THEN GoWith(r, "alert", [seen |-> {db.test[Req(r).id].of}]) ELSE Go(r, "failed")
    /\ Read

InsertAlert(r) ==
    /\ At(r, {"createAlert"}, "alert")
    /\ \E project \in call[r].seen : Insert("alert", [of |-> project]) /\ Go(r, "ok")

Small(r) == PatchRow(r) \/ DropRow(r) \/ CreateSchedule(r) \/ CreateApiKey(r) \/ FindAlertTest(r) \/ InsertAlert(r)

-----------------------------------------------------------------------------
(* The folder tree: parent 0 is the top level. *)
ParentIn(tree, f) == IF f \in DOMAIN tree THEN tree[f].parent ELSE 0
(* The way up from f, with f: the least set with it and the parent of each member. *)
Upward(tree, S) == \A g \in S : ParentIn(tree, g) \in S
Above(tree, f) ==
    LET reach == {f, 0} \cup {tree[g].parent : g \in DOMAIN tree}
    IN  {g \in reach : \A S \in SUBSET reach : f \in S /\ Upward(tree, S) => g \in S}
OnTheTree(tree, f) == 0 \in Above(tree, f) /\ Above(tree, f) \subseteq DOMAIN tree \cup {0}

(* The folder that a request files something in. *)
FilesInto(q) ==
    IF q.op \in {"createFolder", "moveFolder"} THEN q.parent ELSE IF q.op = "moveTest" THEN q.folder ELSE 0

(* What a workload starts from is one tree of folders with the tests in them, all of
   the oldest project; what is filed goes to a folder that there was. *)
Listed == {"folder", "action", "loginFlow", "test"}
ASSUME TreesAssumption ==
    \A w \in Workloads :
        /\ \A f \in DOMAIN w.db.folder : "parent" \in DOMAIN w.db.folder[f] /\ OnTheTree(w.db.folder, f)
        /\ \A t \in DOMAIN w.db.test :
              "folder" \in DOMAIN w.db.test[t] /\ w.db.test[t].folder \in DOMAIN w.db.folder \cup {0}
        /\ \A t \in Listed : \A i \in DOMAIN w.db[t] : \A p \in DOMAIN w.db.project : w.db[t][i].of <= p
        /\ \A r \in DOMAIN w.requests : FilesInto(w.requests[r]) \in DOMAIN w.db.folder \cup {0}

(* Only the new parent itself is looked at. *)
CheckMoveParentOnly(r) ==
    /\ At(r, {"moveFolder"}, "start")
    /\ Go(r, IF Req(r).parent = Req(r).id THEN "refused" ELSE "place") /\ Read

(* The walk up ends at the top level, at a folder that is gone, or at the folder
   that moves; on a cycle that an overlapping move has made it goes on for ever. *)
CheckMove(r) ==
    /\ At(r, {"moveFolder"}, "start")
    /\ Above(db.folder, Req(r).parent) \cap {0, Req(r).id} # {}
    /\ Go(r, IF Req(r).parent # 0 /\ Req(r).id \in Above(db.folder, Req(r).parent) \ {0} THEN "refused" ELSE "place")
    /\ Read

PlaceFolder(r) ==
    /\ At(r, {"moveFolder"}, "place")
    /\ Update("folder", {Req(r).id}, [parent |-> Req(r).parent]) /\ Go(r, "ok")

FindFolder(r) ==
    /\ At(r, {"removeFolder"}, "start")
    /\ IF Req(r).id \in Ids("folder") THEN GoWith(r, "folders", [seen |-> {db.folder[Req(r).id].parent}]) ELSE Go(r, "ok")
    /\ Read

LiftFolders(r) ==
    /\ At(r, {"removeFolder"}, "folders")
    /\ \E up \in call[r].seen : Update("folder", Select("folder", "parent", {Req(r).id}), [parent |-> up])
    /\ Go(r, "tests")

LiftTests(r) ==
    /\ At(r, {"removeFolder"}, "tests")
    /\ \E up \in call[r].seen : Update("test", Select("test", "folder", {Req(r).id}), [folder |-> up])
    /\ Go(r, "delete")

DeleteFolder(r) ==
    /\ At(r, {"removeFolder"}, "delete")
    /\ Delete("folder", {Req(r).id}) /\ Go(r, "ok")

Folders(r) == CheckMove(r) \/ PlaceFolder(r) \/ FindFolder(r) \/ LiftFolders(r) \/ LiftTests(r) \/ DeleteFolder(r)

-----------------------------------------------------------------------------
(* Runs: enqueueTestRuns for one test (create) or several (createMany), and
   retry. *)
Fanning == {"createRuns", "createMany"}

(* The requested browsers that are not disabled; without one of those, chromium. *)
Able(settings) ==
    LET asked == IF settings.browsers = << >> THEN << "chromium" >> ELSE settings.browsers
    IN  FlattenSeq([n \in DOMAIN asked |-> IF asked[n] \in Disabled THEN << >> ELSE << asked[n] >>])

Browsers(settings) == IF Able(settings) = << >> THEN << "chromium" >> ELSE Able(settings)

(* Browsers, rows of data and the tests of createMany are lists, and chromium is
   never disabled. *)
Listing(s) == s \in Seq(ToSet(s))
ASSUME FanOutAssumption ==
    /\ "chromium" \notin Disabled
    /\ \A w \in Workloads :
        /\ \A t \in DOMAIN w.db.test :
              /\ {"settings", "data"} \subseteq DOMAIN w.db.test[t]
              /\ Listing(w.db.test[t].data) /\ Listing(w.db.test[t].settings.browsers)
        /\ \A r \in DOMAIN w.requests :
              LET q == w.requests[r] IN
              /\ q.op = "updateSettings" => Listing(q.settings.browsers)
              /\ q.op = "setData" => "json" \in DOMAIN q /\ (q.json = "invalid" \/ Listing(Rows(q)))
              /\ q.op = "createMany" => Listing(q.tests)

(* A run for each browser and each row, or for each browser if there is none. *)
Batch(row) ==
    LET seeds == IF row.data = << >> THEN << << >> >> ELSE row.data
    IN  FlattenSeq([b \in DOMAIN Browsers(row.settings) |-> [s \in DOMAIN seeds |->
            [browser |-> Browsers(row.settings)[b], row |-> seeds[s]]]])

(* What the jobs of a batch share. *)
Shared(row, override) ==
    [version |-> row.current, flow |-> IF override # 0 THEN override ELSE row.settings.flow]

Tests(r) == IF Req(r).op = "createRuns" THEN << Req(r).id >> ELSE Req(r).tests
Left(r)  == IF call[r].at = "start" THEN Tests(r) ELSE call[r].tests

(* The runs that were queued before the error are told of. *)
SkipTellingSome(r, rest) ==
    IF Req(r).op = "createRuns" THEN Go(r, "failed")
    ELSE LET some == IF call[r].at \in {"insert", "add"} THEN SetToSeq(call[r].seen) ELSE << >>
         IN  GoWith(r, "test", [tests |-> rest, ids |-> call[r].ids \o some])

(* createMany goes on with the next test. *)
Skip(r, rest) == IF Req(r).op = "createRuns" THEN Go(r, "failed") ELSE GoWith(r, "test", [tests |-> rest])

ReadTest(r) ==
    /\ At(r, Fanning, call[r].at) /\ call[r].at \in {"start", "test"}
    /\ IF Left(r) = << >> THEN Go(r, "ok")
       ELSE IF Head(Left(r)) \notin Ids("test") THEN Skip(r, Tail(Left(r)))
       ELSE IF db.test[Head(Left(r))].current = 0 THEN Skip(r, Tail(Left(r)))
       ELSE LET test == db.test[Head(Left(r))]
            IN  GoWith(r, "insert", [tests |-> Left(r), seen |-> {}, row |-> Shared(test, Req(r).flow), batch |-> Batch(test)])
    /\ Read

InsertRun(r) ==
    /\ At(r, Fanning \cup {"retry"}, "insert")
    /\ IF call[r].batch = << >>
       THEN /\ GoWith(r, "test", [tests |-> Tail(call[r].tests), ids |-> call[r].ids \o SetToSeq(call[r].seen)])
            /\ Read
       ELSE LET row == [of |-> call[r].row.version, status |-> "queued", browser |-> Head(call[r].batch).browser]
            IN  IF Insertable("run", row)
                THEN Insert("run", row) /\ GoWith(r, "add", [seen |-> call[r].seen \cup {next}])
                ELSE (IF Req(r).op = "retry" THEN Go(r, "failed") ELSE Skip(r, Tail(call[r].tests))) /\ Read

Newest(ids) == CHOOSE i \in ids : \A j \in ids : j <= i

AddJob(r) ==
    /\ At(r, Fanning \cup {"retry"}, "add")
    /\ jobs' = jobs \cup {[run |-> Newest(call[r].seen)] ++ call[r].row ++ Head(call[r].batch)}
    /\ GoWith(r, IF Req(r).op = "retry" THEN "ok" ELSE "insert", [batch |-> Tail(call[r].batch)])
    /\ UNCHANGED << db, next >>

(* retry: the data row is not kept with the run, so the retry has none. *)
RetryReads(r) ==
    LET run == db.run[Req(r).id]
        may(place) == At(r, {"retry"}, place)
    IN
    /\ \/ may("start") /\ IF Req(r).id \notin Ids("run") THEN Go(r, "refused")
                          ELSE GoWith(r, "version", [row |-> << run.of, run.browser >>])
       \/ may("version") /\ IF call[r].row[1] \notin Ids("testVersion") THEN Go(r, "refused")
                            ELSE GoWith(r, "test", [tests |-> << db.testVersion[call[r].row[1]].of >>])
       \/ may("test") /\ LET flow == IF call[r].tests[1] \in Ids("test") THEN db.test[call[r].tests[1]].settings.flow ELSE 0
                             old  == call[r].row[2]
                         IN  GoWith(r, "insert", [row |-> [version |-> call[r].row[1], flow |-> flow],
                                batch |-> << [row |-> << >>, browser |-> IF old \in Disabled THEN "chromium" ELSE old] >>])
    /\ Read

(* tests.list: three queries; the newest run says a test's last status. *)
ListTests(r) ==
    /\ At(r, {"listTests"}, call[r].at)
    /\ \/ call[r].at = "start" /\ GoWith(r, "versions", [seen |-> Ids("test")])
       \/ call[r].at = "versions" /\ GoWith(r, "runs", [row |-> db.testVersion])
       \/ call[r].at = "runs"
          /\ LET of(t) == {i \in Ids("run") : db.run[i].of \in DOMAIN call[r].row /\ call[r].row[db.run[i].of].of = t}
             IN  GoWith(r, "ok", [row |-> [t \in call[r].seen |-> IF of(t) = {} THEN 0 ELSE Newest(of(t))]])
    /\ Read

(* The worker on a run that exists when it begins: mark it, insert a step row
   and, when its check finds none, a baseline. *)
Execute(r) ==
    LET run  == Req(r).id
        step == [of |-> run]
        base == [of |-> Req(r).test]
        put(table, row, place) == IF Insertable(table, row) THEN Insert(table, row) /\ Go(r, place)
                                  ELSE Go(r, "failed") /\ Read
    IN  \/ At(r, {"execute"}, "start") /\ Update("run", {run}, [status |-> "running"]) /\ Go(r, "check")
        \/ At(r, {"execute"}, "check") 
           /\ IF Select("baseline", "of", {Req(r).test}) = {} THEN put("baseline", base, "step") ELSE Go(r, "step") /\ Read
        \/ At(r, {"execute"}, "step") /\ put("stepResult", step, "finish")
        \/ At(r, {"execute"}, "finish") /\ Update("run", {run}, [status |-> "passed"]) /\ Go(r, "ok")

Runs(r) == ReadTest(r) \/ InsertRun(r) \/ AddJob(r) \/ RetryReads(r) \/ ListTests(r) \/ Execute(r)
Homes(r) == FindProject(r) \/ FindOrg(r) \/ MakeOrg(r) \/ MakeProject(r) \/ CreateAtHome(r) \/ ListFolders(r)
Edits(r) == InsertTest(r) \/ FindTest(r) \/ RenameTest(r) \/ ValidateEdit(r) \/ InsertVersion(r) \/ SetCurrent(r)

(* A statement or the queue fails.  createMany catches what goes wrong with one
   test, wherever it does, and goes on with the next: the runs already queued for
   that test stay, and it tells of none of them. *)
Queuing(r) == Left(r) # << >> /\ (call[r].at = "insert" => call[r].batch # << >>)
Fails(r) ==
    /\ faults < work.faults /\ faults' = faults + 1
    /\ IF Req(r).op \in Fanning THEN Queuing(r) /\ Skip(r, Tail(Left(r))) ELSE InFlight(r) /\ Go(r, "failed")
    /\ Read

Handle(r) ==
    /\ ~ Answered(r)
    /\ \/ (Homes(r) \/ Edits(r) \/ RemoveTest(r) \/ RemoveFlow(r) \/ RemoveRun(r)
           \/ Small(r) \/ Folders(r) \/ Runs(r)) /\ UNCHANGED faults
       \/ Fails(r)
    /\ before' = IF call[r].at = "start" THEN before \cup {<< s, r >> : s \in {s \in Requests : Answered(s)}} ELSE before
    /\ UNCHANGED work

Next == \E r \in Requests : Handle(r)
Spec == Init /\ [][Next]_vars
-----------------------------------------------------------------------------
TypeOK ==
    /\ \A t \in Tables : Ids(t) \subseteq 1 .. next - 1
    /\ \A t \in Tables \ {"org", "apiKey"} : \A i \in Ids(t) : db[t][i].of \in Nat \ {0}
    /\ \A r \in Requests : call[r].ids \in Seq(1 .. next - 1) /\ DOMAIN call[r] = DOMAIN NewCall
    /\ \A j \in jobs : j.run \in 1 .. next - 1
    /\ before \subseteq Requests \X Requests /\ faults \in 0 .. work.faults

Done == \A r \in Requests : Answered(r)
Ok(r) == call[r].at = "ok"
Overlap(r, s) == r # s /\ {<< r, s >>, << s, r >>} \cap before = {}
Alone(r) == \A s \in Requests : ~ Overlap(r, s)

(* The tree of folders stays a tree and every folder and test stays on it
   (routers.ts:266-268 and 283-284), unless two moves or removals of folders
   overlapped, or something was filed in a folder while or after it was removed. *)
Reorganised ==
    \E r, s \in Requests :
        /\ Req(s).op \in {"moveFolder", "removeFolder"}
        /\ \/ Req(r).op \in {"moveFolder", "removeFolder"} /\ Overlap(r, s)
           \/ Req(s).op = "removeFolder" /\ FilesInto(Req(r)) = Req(s).id /\ << r, s >> \notin before
EverythingReachable ==
    Done /\ ~ Reorganised =>
        /\ \A f \in Ids("folder") : OnTheTree(db.folder, f)
        /\ \A t \in Ids("test") : OnTheTree(db.folder, db.test[t].folder)

(* Documented, and not true: a move "rejects making a folder its own ancestor, which
   would orphan a subtree into a cycle" (routers.ts:266-267).  The check and the
   update are two statements; each of two moves can pass before the other is made. *)
NeverOwnAncestor ==
    \A f \in Ids("folder") : db.folder[f].parent # 0 => f \notin Above(db.folder, db.folder[f].parent)

(* A test points at a version that exists and is its own, whatever edits and
   runs overlap.  Only one that a request has begun to remove, or failed to
   create, may point nowhere; only where a removal overlaps an edit may it point
   at a version that is gone. *)
CurrentVersionOwned ==
    \A t \in Ids("test") :
        LET v == db.test[t].current
            removing == {r \in Requests : Req(r).op = "removeTest" /\ Req(r).id = t /\ call[r].at # "start"}
        IN  \/ v \in Ids("testVersion") /\ db.testVersion[v].of = t
            \/ v = 0 /\ (removing # {} \/ t \notin DOMAIN work.db.test)
            \/ \E r \in removing : ~ Alone(r)

(* No row refers to a row that is gone, keys enforced or not, unless a removal
   overlapped another request or came before one. *)
Removals == {"removeTest", "removeRun", "removeFlow"}
NothingDangles ==
    Done /\ faults = 0 =>
        \/ \A t \in Tables : References[t] # "none" =>
              \A i \in Ids(t) : db[t][i].of \in Ids(References[t])
        \/ ~ work.enforced /\ \E r, s \in Requests : Req(r).op \in Removals /\ r # s /\ << s, r >> \notin before

(* Removing a test, a run or a flow deletes in an order that no foreign key
   refuses: it succeeds whenever nothing overlaps it. *)
RemovalSucceeds ==
    \A r \in Requests :
        Req(r).op \in Removals /\ Answered(r) /\ Alone(r) /\ faults = 0 => Ok(r)

(* What is created belongs to the project whose folders, actions and flows are
   listed, unless the first requests ever overlapped and each made a project
   (routers.ts:67-74). *)
CreatedIsListed ==
    \/ \A t \in Listed :
          \A i \in Ids(t) : db[t][i].of = Oldest("project")
    \/ \E r, s \in Requests : {Req(r).op, Req(s).op} \subseteq InProject /\ Overlap(r, s)

(* What a test asks to be run: each able browser, or chromium, with each row, if any. *)
Asked(row) ==
    LET able == ToSet(row.settings.browsers) \ Disabled
    IN  {[browser |-> b, row |-> w] : b \in IF able = {} THEN {"chromium"} ELSE able,
                                     w \in IF row.data = << >> THEN {<< >>} ELSE ToSet(row.data)}
Steady(t) == \A s \in Requests : Req(s).op \in {"updateSettings", "setData"} => Req(s).id # t

(* An answered fan-out has one job for each run it tells of.  The runs it tells of
   for a test are all there, whatever failed meanwhile: every browser with every row
   of data, of one version, and what the test asks for unless somebody changes that
   meanwhile.  It is never none at all, but for a test that cannot be queued, or one
   for each fault: such a test of createMany costs the others nothing.  (A client
   may name a test twice.)  No job, a retry's neither, is for a disabled browser. *)
FanOutComplete ==
    /\ \A j \in jobs : j.browser \notin Disabled
    /\ \A r \in Requests :
           LET made == {j \in jobs : j.run \in ToSet(call[r].ids)}
               of(t) == {j \in made : j.version \in Ids("testVersion") /\ db.testVersion[j.version].of = t}
               once(t) == \A m, n \in DOMAIN Tests(r) : Tests(r)[m] = t /\ Tests(r)[n] = t => m = n
               kept(t) == t \in DOMAIN work.db.test /\ work.db.test[t].current # 0
                          /\ \A s \in Requests : Req(s).op # "removeTest"
           IN  Req(r).op \in Fanning /\ Ok(r) =>
                   /\ Cardinality(made) = Len(call[r].ids)
                   /\ Cardinality({t \in ToSet(Tests(r)) : kept(t) /\ of(t) = {}}) <= faults
                   /\ \A t \in ToSet(Tests(r)) : once(t) => \A j, k \in of(t) :
                         /\ j.version = k.version
                         /\ \E l \in of(t) : l.browser = j.browser /\ l.row = k.row
                   /\ \A t \in ToSet(Tests(r)) : once(t) /\ kept(t) /\ Steady(t) /\ of(t) # {} =>
                         {[browser |-> j.browser, row |-> j.row] : j \in of(t)} = Asked(work.db.test[t])
                   /\ \A j \in made : j.run \in Ids("run") => db.run[j.run].browser = j.browser /\ db.run[j.run].of = j.version

(* Documented, and not true: what createMany cannot enqueue it skips (routers.ts:335),
   and what it answers are "the ids of the created run rows" (94).  When createMany is
   all that queues runs, it tells of each run it has queued.  A test whose second
   browser or row fails is left out with its first one queued. *)
EveryRunTold ==
    \A r \in Requests :
        Req(r).op = "createMany" /\ Ok(r) /\ (\A s \in Requests \ {r} : Req(s).op \notin Fanning \cup {"retry"}) =>
            {j.run : j \in jobs} \subseteq ToSet(call[r].ids)

(* Edits of one test that touch different columns all last: renaming it, filing
   it, its settings and its data do not undo each other. *)
Writes(r) ==
    IF Req(r).op \in {"updateSettings", "moveTest", "setData"} THEN Patch(r)
    ELSE IF Req(r).op = "updateTest" /\ "name" \in DOMAIN Req(r) THEN [name |-> Req(r).name] ELSE << >>
NoLostColumn ==
    Done /\ faults = 0 =>
        \A r \in {r \in Requests : Ok(r)} : \A col \in DOMAIN Writes(r) :
            Req(r).id \in Ids("test")
            /\ (\A s \in Requests \ {r} : Req(s).op # "removeFolder" /\ (Req(s).op = Req(r).op => Req(s).id # Req(r).id))
            => db.test[Req(r).id][col] = Writes(r)[col]

(* A refused request has changed nothing, but that tests.update has already
   written the name that came with steps it refuses (routers.ts:198-200). *)
RefusedChangesNothing ==
    (\A r \in Requests : call[r].at \in {"start", "refused"}) =>
        /\ [db EXCEPT !.test = << >>] = [work.db EXCEPT !.test = << >>]
        /\ \A t \in DOMAIN work.db.test : t \in Ids("test") /\ \A col \in DOMAIN db.test[t] \ {"name"} :
              db.test[t][col] = work.db.test[t][col]

(* A table pasted from a spreadsheet is stored as it reads there: commas and
   quotes inside cells, empty cells and all. *)
PastedTableStored ==
    \A r \in Requests :
        Req(r).op = "setData" /\ Ok(r) /\ "table" \in DOMAIN Req(r) => db.test[Req(r).id].data = Meant(Req(r).table)

(* The rows hang together: a test points at a version of its own, nothing points at
   a row that is gone, and a removal is never refused by what it leaves. *)
CatalogInv == TypeOK /\ CurrentVersionOwned /\ NothingDangles /\ RemovalSucceeds

(* Whatever was made can be found again: it belongs to the project that is listed
   and hangs on the tree of folders. *)
EverythingListed == EverythingReachable /\ CreatedIsListed

(* A request changes what it is answered for, no more and no less: forms that save
   other columns do not undo it, and a refused one leaves nothing behind. *)
UpdatesKept == NoLostColumn /\ RefusedChangesNothing
=============================================================================
