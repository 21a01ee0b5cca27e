--------------------------------- MODULE Pages ---------------------------------
(***************************************************************************)
(* The pages of apps/web/src/components and pages/runs/[id].astro against  *)
(* the server: the home page (TestList, TestRowMenu, PromptModal); of a    *)
(* test's page the button RunNow, the list RecentRuns and the settings     *)
(* (TestSettings); and a run's page (its poller and RunActions).  Each is  *)
(* a setup of its own: the components share nothing but the server.        *)
(*                                                                         *)
(* What a page has under way is a set of tasks: an async function at one   *)
(* of its awaits, or a timer.  A task asks the server one thing or two at  *)
(* once; each is served at some time between the request and the answer,   *)
(* and what the page does next is done to the page of that later time.     *)
(***************************************************************************)
EXTENDS Integers, FiniteSets, Sequences, FiniteSetsExt, Records

CONSTANTS Setups,    \* what may happen: the page, what the server holds, what the user
                     \* (may) and the rest of the world (others) do; how many runs a
                     \* request makes of a test, one per browser and data row (fan); and
                     \* how often, bounds of the model: acts, turns (of the others), faults
          Disabled   \* DISABLED_BROWSERS

VARIABLES setup,  \* the setup that happens
          db,     \* what the server holds: tests, folders, runs, the test's settings
          ui,     \* the page's signals
          tasks,  \* what the page has under way
          count,  \* acts of the user, acts of others and faults so far
          hist    \* history, for the properties

vars == << setup, db, ui, tasks, count, hist >>

Page == setup.page

-----------------------------------------------------------------------------
(* The server, as the pages see it.  A test is filed under a folder, or 0; a
   folder is under a folder, or 0; a run has a test, a status, step rows and perhaps
   a triage. *)
Active(status) == status \in {"queued", "running"}
RunsOf(t, d)   == {r \in DOMAIN d.runs : d.runs[r].test = t}
LastStatus(t, d) ==
    IF RunsOf(t, d) = {} THEN "none" ELSE d.runs[CHOOSE r \in RunsOf(t, d) : \A s \in RunsOf(t, d) : s <= r].status

TestRows(d)    == [t \in DOMAIN d.tests |-> [folder |-> d.tests[t], status |-> LastStatus(t, d)]]
RunRows(d)     == [r \in RunsOf(setup.test, d) |-> d.runs[r].status]
RunState(r, d) == IF r \in DOMAIN d.runs
                  THEN [status |-> d.runs[r].status, rows |-> d.runs[r].rows, triage |-> d.runs[r].triage]
                  ELSE [status |-> "gone", rows |-> 0, triage |-> FALSE]

Drop(f, S) == [x \in DOMAIN f \ S |-> f[x]]

(* n more queued runs of each of the tests ts that still exist. *)
Before(b, c) == b[1] < c[1] \/ (b[1] = c[1] /\ b[2] < c[2])
Queue(ts, n, d) ==
    LET new == (ts \cap DOMAIN d.tests) \X (1 .. n)
        id(c) == d.next + Cardinality({b \in new : Before(b, c)})
    IN  [d EXCEPT !.next = @ + Cardinality(new),
                  !.runs = [r \in {id(c) : c \in new} |->
                              [test |-> (CHOOSE c \in new : id(c) = r)[1], status |-> "queued", rows |-> 0, triage |-> FALSE]] ++ @]

(* What is in a removed folder is lifted out of it. *)
Lift(f, d) ==
    LET up(x) == IF x = f THEN d.folders[f].up ELSE x IN
    IF f \notin DOMAIN d.folders THEN d
    ELSE [d EXCEPT !.tests = [t \in DOMAIN d.tests |-> up(d.tests[t])],
                   !.folders = [g \in DOMAIN d.folders \ {f} |-> [up |-> up(d.folders[g].up), closed |-> d.folders[g].closed]]]

Effect(ask, x, d) ==
    CASE ask \in {"create", "createMany"} -> Queue(x.tests, setup.fan, d)
      [] ask = "retry"          -> Queue({d.runs[x.run].test}, 1, d)
      [] ask = "removeRun"      -> [d EXCEPT !.runs = Drop(@, {x.run})]
      [] ask = "removeTest"     -> [d EXCEPT !.tests = Drop(@, {x.test}), !.runs = Drop(@, RunsOf(x.test, d))]
      [] ask = "move"           -> [d EXCEPT !.tests = [t \in DOMAIN @ |-> IF t = x.test THEN x.folder ELSE @[t]]]
      [] ask = "setCollapsed"   -> [d EXCEPT !.folders =
                                      [f \in DOMAIN @ |-> IF f = x.folder THEN [@[f] EXCEPT !.closed = x.closed] ELSE @[f]]]
      [] ask = "createFolder"   -> [d EXCEPT !.next = @ + 1, !.folders = Entry(d.next, [up |-> x.folder, closed |-> FALSE]) ++ @]
      [] ask = "removeFolder"   -> Lift(x.folder, d)
      [] ask = "updateSettings" -> [d EXCEPT !.settings = x.settings]
      [] OTHER                  -> d

(* What a request that fails may have done: nothing, all, or some runs of several. *)
Partly(ask, x, d) ==
    {d, Effect(ask, x, d)} \cup {Queue(x.tests, n, d) : n \in IF ask = "create" THEN 1 .. setup.fan - 1 ELSE {}}

Refused(ask, x, d) ==
    \/ ask = "create" /\ x.tests \cap DOMAIN d.tests = {}
    \/ ask = "retry" /\ x.run \notin DOMAIN d.runs

Answer(ask, x, d) ==
    CASE ask = "tests"   -> TestRows(d)
      [] ask = "folders" -> d.folders
      [] ask = "runs"    -> RunRows(d)
      [] ask = "run"     -> RunState(x.run, d)
      [] ask = "retry"   -> d.next
      [] OTHER           -> TRUE

-----------------------------------------------------------------------------
(* Tasks.  Those of the folders are told apart for a property. *)
Folding == {"toggle", "unfile", "prompt"}
None == [run |-> 0]
Task(who, gen, asks, x) == [who |-> who, gen |-> gen, at |-> "sent", asks |-> asks, arg |-> x, got |-> << >>]
Timer(who, gen)         == [Task(who, gen, {}, None) EXCEPT !.at = "timer"]

Answered(k)    == k.at = "sent" /\ k.asks = {}
Failed(k)      == k.at = "error"
Settled(k)     == Answered(k) \/ Failed(k)
Got(k, ask)    == Answered(k) /\ ask \in DOMAIN k.got
Under(who)     == \E k \in tasks : k.who = who

(* A task goes on as what is in ks: its next request, a timer, or nothing. *)
Then(k, ks)       == tasks' = (tasks \ {k}) \cup ks
NextAsk(k, asks)  == {[k EXCEPT !.asks = asks, !.got = << >>]}
Set(what)         == ui' = what ++ ui

(* The pollers: the list of tests, Run now, Recent runs, the page of a run. *)
Asked == [poll |-> "tests", now |-> "runs", recent |-> "runs", tick |-> "run"]
Ask(who, gen) == Task(who, gen, {Asked[who]}, [run |-> IF who = "tick" THEN ui.run ELSE 0])

(* A chain that was retired goes on all the same. *)
RestOfAnyChain(k) == IF ui.mounted THEN {Timer(k.who, k.gen)} ELSE {}

(* A page that was left is not told from one that is shown. *)
RestForever(k) == IF k.gen = ui.gen[k.who] THEN {Timer(k.who, k.gen)} ELSE {}

(* scheduleNext: only the newest chain goes on, and while the page is shown. *)
Rest(k) == IF ui.mounted /\ k.gen = ui.gen[k.who] THEN {Timer(k.who, k.gen)} ELSE {}

(* startPolling: clears the timer, retires the chain and polls at once. *)
Bump(who)     == [ui.gen EXCEPT ![who] = @ + 1]
Chain(who, k) == tasks' = {j \in tasks \ {k} : ~ (j.who = who /\ j.at = "timer")} \cup {Ask(who, ui.gen[who] + 1)}

Tick(who) ==
    /\ \E k \in tasks : k.who = who /\ k.at = "timer" /\ Then(k, {Ask(who, k.gen)})
    /\ UNCHANGED << setup, db, ui, count, hist >>

(* The server does what a request asks, or refuses to. *)
Serve(who) ==
    \E k \in tasks :
       /\ k.who = who /\ k.at = "sent"
       /\ \E ask \in k.asks :
             \/ /\ Refused(ask, k.arg, db)
                /\ Then(k, {[k EXCEPT !.at = "error"]})
                /\ UNCHANGED << db, hist >>
             \/ /\ ~ Refused(ask, k.arg, db)
                /\ db' = Effect(ask, k.arg, db)
                /\ Then(k, {[k EXCEPT !.asks = @ \ {ask}, !.got = Entry(ask, Answer(ask, k.arg, db)) ++ @]})
                /\ hist' = [hist EXCEPT !.mine  = IF who = "press" THEN @ \cup (DOMAIN db'.runs \ DOMAIN db.runs) ELSE @,
                                        !.again = IF who = "load" THEN @ \ {k.arg.run} ELSE @]
       /\ UNCHANGED << setup, ui, count >>

(* A request fails, before, while or after the server does what it asks. *)
Break(k) ==
    /\ count.faults < setup.faults /\ k.at = "sent" /\ k.asks # {}
    /\ count' = [count EXCEPT !.faults = @ + 1]
    /\ Then(k, {[k EXCEPT !.at = "error"]})
    /\ \E ask \in k.asks : db' \in IF Refused(ask, k.arg, db) THEN {db} ELSE Partly(ask, k.arg, db)
    /\ hist' = [hist EXCEPT !.lost = IF db' # db \/ k.who \in Folding THEN @ \cup {k.who} ELSE @]
    /\ UNCHANGED << setup, ui >>

-----------------------------------------------------------------------------
(* What the user does, and when *)
Act(name) ==
    /\ name \in setup.may /\ ui.mounted /\ count.acts < setup.acts
    /\ count' = [count EXCEPT !.acts = @ + 1]

(* A task that the user starts; two that differ in nothing are not told apart. *)
Starts(who, asks, x) ==
    LET k == Task(who, 0, asks, x) IN
    k \notin tasks /\ tasks' = tasks \cup {k}

Mixes == hist' = [hist EXCEPT !.mixed = @ \/ \E k \in tasks : k.who \in Folding]

(* TestList *)
ToggleSelected(t) ==
    /\ Act("tick") /\ t \in DOMAIN ui.tests
    /\ Set([selected |-> SymDiff(ui.selected, {t})])
    /\ hist' = [hist EXCEPT !.late = IF ui.running THEN @ \cup {t} ELSE @]
    /\ UNCHANGED << setup, db, tasks >>

(* toggleMany: what a search shows, what a folder holds, or everything. *)
ToggleMany(ids) ==
    /\ Act("tick") /\ ids # {} /\ ids \subseteq DOMAIN ui.tests
    /\ Set([selected |-> IF ids \subseteq ui.selected THEN ui.selected \ ids ELSE ui.selected \cup ids])
    /\ hist' = [hist EXCEPT !.late = IF ui.running THEN @ \cup ids ELSE @]
    /\ UNCHANGED << setup, db, tasks >>

ClearSelected == Act("tick") /\ Set([selected |-> {}]) /\ UNCHANGED << setup, db, tasks, hist >>

RunOne(t) ==
    /\ Act("runOne") /\ t \in DOMAIN ui.tests
    /\ Starts("runOne", {"create"}, [tests |-> {t}])
    /\ UNCHANGED << setup, db, ui, hist >>

RunSelected ==
    /\ Act("batch") /\ ui.selected # {} /\ ~ ui.running
    /\ Set([running |-> TRUE])
    /\ Starts("batch", {"createMany"}, [tests |-> ui.selected])
    /\ hist' = [hist EXCEPT !.late = {}]
    /\ UNCHANGED << setup, db >>

RemoveTest(t) ==
    /\ Act("remove") /\ t \in DOMAIN ui.tests
    /\ Starts("remove", {"removeTest"}, [test |-> t])
    /\ UNCHANGED << setup, db, ui, hist >>

MoveTest(t, f) ==
    /\ Act("move") /\ t \in DOMAIN ui.tests /\ f \in DOMAIN ui.folders \cup {0}
    /\ Starts("move", {"move"}, [test |-> t, folder |-> f])
    /\ UNCHANGED << setup, db, ui, hist >>

Toggle(f) ==
    /\ Act("toggle") /\ f \in DOMAIN ui.folders
    /\ Set([closed |-> SymDiff(ui.closed, {f})])
    /\ Starts("toggle", {"setCollapsed"}, [folder |-> f, closed |-> f \notin ui.closed])
    /\ Mixes
    /\ UNCHANGED << setup, db >>

RemoveFolder(f) ==
    /\ Act("unfile") /\ f \in DOMAIN ui.folders
    /\ Starts("unfile", {"removeFolder"}, [folder |-> f])
    /\ Mixes
    /\ UNCHANGED << setup, db, ui >>

OpenPrompt(p) == Act("prompt") /\ ui.prompt.mode = "none" /\ Set([prompt |-> p]) /\ UNCHANGED << setup, db, tasks, hist >>
CancelPrompt  == Act("prompt") /\ Set([prompt |-> [mode |-> "none"]]) /\ UNCHANGED << setup, db, tasks, hist >>

(* submitPrompt; a folder renamed to the name it has asks nothing before the refresh. *)
SubmitPrompt(same) ==
    /\ Act("prompt") /\ ui.prompt.mode # "none"
    /\ IF ui.prompt.mode = "rename" /\ same
          THEN Set([prompt |-> [mode |-> "none"]]) /\ Starts("prompt", {"tests", "folders"}, None)
          ELSE UNCHANGED ui /\ Starts("prompt", IF ui.prompt.mode = "create" THEN {"createFolder"} ELSE {"renameFolder"},
                                      [folder |-> ui.prompt.folder])
    /\ Mixes
    /\ UNCHANGED << setup, db >>

Refreshed(k) == [tests |-> k.got.tests, folders |-> k.got.folders,
                 closed |-> {f \in DOMAIN k.got.folders : k.got.folders[f].closed}]

(* A selection is cleared however its batch ends. *)
ResumeBatchClears(k) ==
    \/ Failed(k) /\ Set([running |-> FALSE, selected |-> {}]) /\ Then(k, {})
    \/ Got(k, "createMany") /\ Set([selected |-> {}]) /\ Then(k, NextAsk(k, {"tests"}))
    \/ Got(k, "tests") /\ Set([running |-> FALSE, tests |-> k.got.tests, gen |-> Bump("poll")]) /\ Chain("poll", k)

ResumeBatch(k) ==
    \/ Failed(k) /\ Set([running |-> FALSE]) /\ Then(k, {})
    \/ Got(k, "createMany") /\ Set([selected |-> {}]) /\ Then(k, NextAsk(k, {"tests"}))
    \/ Got(k, "tests") /\ Set([running |-> FALSE, tests |-> k.got.tests, gen |-> Bump("poll")]) /\ Chain("poll", k)

ResumeRunOne(k) ==
    \/ Failed(k) /\ UNCHANGED ui /\ Then(k, {})
    \/ Got(k, "create") /\ UNCHANGED ui /\ Then(k, NextAsk(k, {"tests"}))
    \/ Got(k, "tests") /\ Set([tests |-> k.got.tests, gen |-> Bump("poll")]) /\ Chain("poll", k)

(* A failed poll ends the chain. *)
ResumePollOnce(k) ==
    \/ Answered(k) /\ Set([tests |-> k.got.tests]) /\ Then(k, Rest(k))
    \/ Failed(k) /\ UNCHANGED ui /\ Then(k, {})

(* The list is set whichever chain asked for it. *)
ResumePoll(k) ==
    /\ \/ Answered(k) /\ Set([tests |-> k.got.tests])
       \/ Failed(k) /\ UNCHANGED ui
    /\ Then(k, Rest(k))

ResumeEdit(k) ==
    /\ Then(k, {})
    /\ \/ Failed(k) /\ UNCHANGED ui
       \/ /\ Got(k, "removeTest")
          /\ Set([tests |-> Drop(ui.tests, {k.arg.test}), selected |-> ui.selected \ {k.arg.test}])
       \/ /\ Got(k, "move")
          /\ Set([tests |-> [t \in DOMAIN ui.tests |->
                               IF t = k.arg.test THEN [ui.tests[t] EXCEPT !.folder = k.arg.folder] ELSE ui.tests[t]]])
       \/ Got(k, "setCollapsed") /\ UNCHANGED ui

ResumeFolders(k) ==
    \/ Failed(k) /\ UNCHANGED ui /\ Then(k, {})
    \/ Got(k, "removeFolder") /\ UNCHANGED ui /\ Then(k, NextAsk(k, {"tests", "folders"}))
    \/ /\ Got(k, "createFolder") \/ Got(k, "renameFolder")
       /\ Set([prompt |-> [mode |-> "none"]]) /\ Then(k, NextAsk(k, {"tests", "folders"}))
    \/ Got(k, "folders") /\ Set(Refreshed(k)) /\ Then(k, {})

-----------------------------------------------------------------------------
(* RunNow and RecentRuns *)
Busy == ui.starting \/ ui.active > 0

PressRunNow ==
    /\ Act("press") /\ ~ Busy
    /\ Set([starting |-> TRUE])
    /\ Starts("press", {"create"}, [tests |-> {setup.test}])
    /\ UNCHANGED << setup, db, hist >>

ResumePress(k) ==
    \/ Failed(k) /\ Set([starting |-> FALSE]) /\ Then(k, {})
    \/ Answered(k) /\ Set([starting |-> FALSE, active |-> ui.active + 1, gen |-> Bump("now")]) /\ Chain("now", k)

ActiveIn(rows) == Cardinality({r \in DOMAIN rows : Active(rows[r])})

(* The number is taken over before the chain is told to be the newest. *)
ResumeNowUngated(k) ==
    /\ \/ Answered(k) /\ Set([active |-> ActiveIn(k.got.runs)])
       \/ Failed(k) /\ UNCHANGED ui
    /\ Then(k, Rest(k))

ResumeNow(k) ==
    /\ \/ Answered(k) /\ Rest(k) # {} /\ Set([active |-> ActiveIn(k.got.runs)])
       \/ (Failed(k) \/ Rest(k) = {}) /\ UNCHANGED ui
    /\ Then(k, Rest(k))

ResumeRecent(k) ==
    /\ \/ Answered(k) /\ ui.mounted /\ Set([runs |-> k.got.runs])
       \/ (Failed(k) \/ ~ ui.mounted) /\ UNCHANGED ui
    /\ Then(k, Rest(k))

RemoveListedRun(r) ==
    /\ Act("removeRun") /\ r \in DOMAIN ui.runs /\ ui.deleting # r
    /\ Set([deleting |-> r])
    /\ Starts("removeListed", {"removeRun"}, [run |-> r])
    /\ UNCHANGED << setup, db, hist >>

ResumeRemoveListed(k) ==
    /\ Then(k, {})
    /\ \/ Answered(k) /\ Set([deleting |-> 0, runs |-> Drop(ui.runs, {k.arg.run})])
       \/ Failed(k) /\ Set([deleting |-> 0])

-----------------------------------------------------------------------------
(* The page of a run.  A page that loads shows what the server renders; it polls
   while the run is in progress, and has actions when it is not. *)
Load(k, r) == Then(k, {Task("load", 0, {"run"}, [run |-> r])})
Reload(k)  == Load(k, ui.run) /\ hist' = [hist EXCEPT !.reloads = @ + 1]

(* A run that is gone and an answer that failed are handled alike. *)
Seen(k) == IF Failed(k) THEN [status |-> "gone", rows |-> 0, triage |-> FALSE] ELSE k.got.run

ResumeTick(k) ==
    LET new == Seen(k) IN
    \/ /\ new.status = "gone"
       /\ Then(k, Rest(k)) /\ UNCHANGED << ui, hist >>
    \/ /\ new.status # "gone" /\ (~ Active(new.status) \/ new.rows > ui.rows)
       /\ Reload(k) /\ UNCHANGED ui
    \/ /\ Active(new.status) /\ new.rows <= ui.rows
       /\ Set([status |-> new.status]) /\ Then(k, Rest(k)) /\ UNCHANGED hist

(* A run that is gone redirects home; a page that cannot be loaded stays blank. *)
ResumeLoad(k) ==
    \/ /\ Seen(k).status = "gone"
       /\ Set([mounted |-> FALSE]) /\ tasks' = {}
    \/ /\ Seen(k).status # "gone"
       /\ Set([run |-> k.arg.run, busy |-> FALSE,
               status |-> Seen(k).status, rows |-> Seen(k).rows, triage |-> Seen(k).triage])
       /\ tasks' = IF Active(Seen(k).status) THEN {Timer("tick", 0)} ELSE {}

Retry ==
    /\ Act("retry") /\ ui.status \in {"failed", "errored"} /\ ~ ui.busy /\ ~ Under("load")
    /\ Set([busy |-> TRUE])
    /\ Starts("retry", {"retry"}, [run |-> ui.run])
    /\ UNCHANGED << setup, db, hist >>

ResumeRetry(k) ==
    \/ Failed(k) /\ Set([busy |-> FALSE]) /\ Then(k, {})
    \/ Answered(k) /\ UNCHANGED ui /\ Load(k, k.got.retry)

RemoveShownRun ==
    /\ Act("removeShown") /\ ~ Active(ui.status) /\ ~ ui.busy /\ ~ Under("load")
    /\ Set([busy |-> TRUE])
    /\ Starts("removeShown", {"removeRun"}, [run |-> ui.run])
    /\ UNCHANGED << setup, db, hist >>

ResumeRemoveShown(k) ==
    \/ Failed(k) /\ Set([busy |-> FALSE]) /\ Then(k, {})
    \/ Answered(k) /\ Set([mounted |-> FALSE]) /\ tasks' = {}

-----------------------------------------------------------------------------
(* TestSettings *)
In(s, key, default) == IF key \in DOMAIN s THEN s[key] ELSE default

Migrate(s) ==
    LET old == In(s, "retry", FALSE) /\ "retryOnFail" \notin DOMAIN s IN
    (IF old THEN Entry("retryOnFail", 1) ELSE << >>) ++ Drop(s, {"retry"})

(* What is empty is left out. *)
Empty == [browsers |-> {}, retryOnFail |-> 0, loginFlowId |-> ""]
Clean(form) == Drop(form, {key \in DOMAIN form : form[key] = Empty[key]})

Ticked(form) == In(form, "browsers", {"chromium"})

EditSetting(key, value) ==
    /\ Act("edit")
    /\ Set([form |-> Entry(key, value) ++ ui.form])
    /\ hist' = [hist EXCEPT !.edited = @ \cup {key}]
    /\ UNCHANGED << setup, db, tasks >>

ToggleBrowser(b) ==
    /\ Act("edit") /\ b \notin Disabled
    /\ Set([form |-> Entry("browsers", SymDiff(Ticked(ui.form), {b})) ++ ui.form])
    /\ hist' = [hist EXCEPT !.edited = @ \cup {"browsers"}]
    /\ UNCHANGED << setup, db, tasks >>

SaveSettings ==
    /\ Act("save") /\ ~ ui.busy
    /\ Set([busy |-> TRUE])
    /\ Starts("save", {"updateSettings"}, [settings |-> Clean(ui.form)])
    /\ UNCHANGED << setup, db, hist >>

ResumeSave(k) == Set([busy |-> FALSE]) /\ Then(k, {})

(* What the server (enqueueTestRuns) and the worker (executeRun) take them for. *)
Runnable(s) == LET bs == (IF In(s, "browsers", {}) = {} THEN {"chromium"} ELSE s.browsers) \ Disabled IN
               IF bs = {} THEN {"chromium"} ELSE bs
Meaning(s) == [browsers    |-> Runnable(s),
               retryOnFail |-> In(s, "retryOnFail", IF In(s, "retry", FALSE) THEN 1 ELSE 0),
               loginFlowId |-> In(s, "loginFlowId", "")]

-----------------------------------------------------------------------------
(* The rest of the world: the worker, other pages, the REST API. *)
Reopened(old, new) == ~ Active(old.status) /\ (new.status # old.status \/ new.rows # old.rows)

Others(name, d) ==
    /\ name \in setup.others /\ count.others < setup.turns
    /\ db' = d
    /\ count' = [count EXCEPT !.others = @ + 1]
    /\ hist' = [hist EXCEPT !.mixed = @ \/ name = "toggle", !.wrote = @ + (IF name = "work" THEN 1 ELSE 0),
                            !.again = @ \cup {r \in DOMAIN db.runs \cap DOMAIN d.runs : Reopened(db.runs[r], d.runs[r])}]
    /\ UNCHANGED << setup, ui, tasks >>

(* A run starts, or fails to; it writes a row, starts over, ends, and is given a triage.
   One that was started may be delivered once more, while it runs or after it ended. *)
Progress(run) ==
    (IF run.status = "queued" THEN {[run EXCEPT !.status = s] : s \in {"running", "errored"}}
     ELSE {[run EXCEPT !.status = s] : s \in {"running", "passed", "failed", "errored"}}
             \cup {[run EXCEPT !.rows = n] : n \in {0, run.rows + 1}}
             \cup {[run EXCEPT !.triage = run.status \in {"failed", "errored"} \/ @]}) \ {run}

OthersWork       == \E r \in DOMAIN db.runs : \E run \in Progress(db.runs[r]) : Others("work", [db EXCEPT !.runs[r] = run])
OthersRun        == \E t \in DOMAIN db.tests : Others("run", Queue({t}, setup.fan, db))
OthersRemoveTest == \E t \in DOMAIN db.tests : Others("remove", Effect("removeTest", [test |-> t], db))
OthersRemoveRun  == \E r \in DOMAIN db.runs : Others("removeRun", Effect("removeRun", [run |-> r], db))
OthersFile       == \E t \in DOMAIN db.tests, f \in DOMAIN db.folders :
                       Others("move", Effect("move", [test |-> t, folder |-> f], db))
OthersFold       == \E f \in DOMAIN db.folders, c \in BOOLEAN :
                       Others("toggle", Effect("setCollapsed", [folder |-> f, closed |-> c], db))

-----------------------------------------------------------------------------
(* What a page is when it is first shown. *)
NoGen == [poll |-> 0, now |-> 0, recent |-> 0, tick |-> 0]

Opened(s) ==
    CASE s.page = "home" ->
           [mounted |-> TRUE, gen |-> [NoGen EXCEPT !.poll = 1], tests |-> TestRows(s.db), folders |-> s.db.folders,
            closed |-> {f \in DOMAIN s.db.folders : s.db.folders[f].closed},
            selected |-> {}, running |-> FALSE, prompt |-> [mode |-> "none"]]
      [] s.page = "now" -> [mounted |-> TRUE, gen |-> [NoGen EXCEPT !.now = 1], active |-> 0, starting |-> FALSE]
      [] s.page = "recent" ->
           [mounted |-> TRUE, gen |-> NoGen, runs |-> [r \in RunsOf(s.test, s.db) |-> s.db.runs[r].status], deleting |-> 0]
      [] s.page = "run" ->
           [mounted |-> TRUE, gen |-> NoGen, run |-> s.run, status |-> s.db.runs[s.run].status,
            rows |-> s.db.runs[s.run].rows, triage |-> s.db.runs[s.run].triage, busy |-> FALSE]
      [] s.page = "settings" -> [mounted |-> TRUE, gen |-> NoGen, form |-> Migrate(s.db.settings), busy |-> FALSE]

FirstTasks(s) ==
    CASE s.page = "home"     -> {Task("poll", 1, {"tests"}, None)}
      [] s.page = "now"      -> {Task("now", 1, {"runs"}, None)}
      [] s.page = "recent"   -> {Timer("recent", 0)}
      [] s.page = "run"      -> IF Active(s.db.runs[s.run].status) THEN {Timer("tick", 0)} ELSE {}
      [] s.page = "settings" -> {}

Init ==
    /\ setup \in Setups
    /\ db = setup.db /\ ui = Opened(setup) /\ tasks = FirstTasks(setup)
    /\ count = [acts |-> 0, others |-> 0, faults |-> 0]
    /\ hist = [mine |-> {}, lost |-> {}, late |-> {}, mixed |-> FALSE, reloads |-> 0, wrote |-> 0, edited |-> {},
               again |-> {}]

(* onCleanup, or the page unloads. *)
Leave ==
    /\ "leave" \in setup.may /\ ui.mounted
    /\ Set([mounted |-> FALSE])
    /\ tasks' = IF Page = "run" THEN {} ELSE {k \in tasks : k.at # "timer"}
    /\ UNCHANGED << setup, db, count, hist >>

Who == {"poll", "now", "recent", "tick", "batch", "runOne", "remove", "move", "toggle", "unfile", "prompt",
        "press", "removeListed", "load", "retry", "removeShown", "save"}

Continue(who, k) ==
    /\ k.who = who /\ Settled(k)
    /\ CASE who = "poll"         -> ResumePoll(k) /\ UNCHANGED hist
         [] who = "batch"        -> ResumeBatch(k) /\ UNCHANGED hist
         [] who = "runOne"       -> ResumeRunOne(k) /\ UNCHANGED hist
         [] who \in {"remove", "move", "toggle"} -> ResumeEdit(k) /\ UNCHANGED hist
         [] who \in {"unfile", "prompt"} -> ResumeFolders(k) /\ UNCHANGED hist
         [] who = "now"          -> ResumeNow(k) /\ UNCHANGED hist
         [] who = "press"        -> ResumePress(k) /\ UNCHANGED hist
         [] who = "recent"       -> ResumeRecent(k) /\ UNCHANGED hist
         [] who = "removeListed" -> ResumeRemoveListed(k) /\ UNCHANGED hist
         [] who = "tick"         -> ResumeTick(k)
         [] who = "load"         -> ResumeLoad(k) /\ UNCHANGED hist
         [] who = "retry"        -> ResumeRetry(k) /\ UNCHANGED hist
         [] who = "removeShown"  -> ResumeRemoveShown(k) /\ UNCHANGED hist
         [] who = "save"         -> ResumeSave(k) /\ UNCHANGED hist
    /\ UNCHANGED << setup, db, count >>

Resume(who) == \E k \in tasks : Continue(who, k)

UserOnList ==
    \/ \E t \in DOMAIN ui.tests : ToggleSelected(t) \/ RunOne(t) \/ RemoveTest(t) \/ \E f \in DOMAIN ui.folders \cup {0} : MoveTest(t, f)
    \/ \E ids \in SUBSET DOMAIN ui.tests : ToggleMany(ids)
    \/ ClearSelected \/ RunSelected \/ CancelPrompt
    \/ \E f \in DOMAIN ui.folders : Toggle(f) \/ RemoveFolder(f) \/ OpenPrompt([mode |-> "rename", folder |-> f])
    \/ \E f \in DOMAIN ui.folders \cup {0} : OpenPrompt([mode |-> "create", folder |-> f])
    \/ \E same \in BOOLEAN : SubmitPrompt(same)

UserOnRecent   == \E r \in DOMAIN ui.runs : RemoveListedRun(r)
UserOnRun      == Retry \/ RemoveShownRun
UserOnSettings == \/ \E b \in {"chromium", "firefox", "webkit"} : ToggleBrowser(b)
                  \/ \E n \in {0, 2} : EditSetting("retryOnFail", n)
                  \/ \E l \in {"", "l"} : EditSetting("loginFlowId", l)
                  \/ SaveSettings

Next ==
    \/ Page = "home" /\ UserOnList
    \/ Page = "now" /\ PressRunNow
    \/ Page = "recent" /\ UserOnRecent
    \/ Page = "run" /\ UserOnRun
    \/ Page = "settings" /\ UserOnSettings
    \/ Leave
    \/ \E who \in Who : Tick(who) \/ Serve(who) \/ Resume(who)
    \/ \E k \in tasks : Break(k)
    \/ OthersWork \/ OthersRun \/ OthersRemoveTest \/ OthersRemoveRun \/ OthersFile \/ OthersFold

(* A timer fires, a request is answered or fails, and the page runs what awaits it. *)
Spec == Init /\ [][Next]_vars /\ \A who \in Who : WF_vars(Tick(who)) /\ WF_vars(Serve(who)) /\ WF_vars(Resume(who))

-----------------------------------------------------------------------------
(* The types of the page's signals and tasks; the form of the settings has no
   flag of old (TestSettings.tsx:15-16). *)
TypeOK ==
    /\ \A k \in tasks : k.who \in Who /\ k.at \in {"timer", "sent", "error"} /\ (k.at = "timer" => k.asks = {})
    /\ Page = "home" => /\ ui.closed \subseteq DOMAIN ui.folders /\ ui.running \in BOOLEAN
                        /\ ui.prompt.mode \in {"none", "create", "rename"}
    /\ Page = "now" => ui.active \in Nat /\ ui.starting \in BOOLEAN
    /\ Page = "run" => ui.rows \in Nat /\ ui.busy \in BOOLEAN
    /\ Page = "settings" => DOMAIN ui.form \subseteq DOMAIN Empty

(* A page polls along one chain: a chain that a newer one retired never sets a
   timer again, whatever was under way when it was retired (TestList.tsx:57-82,
   RunNow.tsx:17-55). *)
OneChain ==
    \A who \in {"poll", "now", "recent", "tick"} :
       Cardinality({k \in tasks : k.who = who /\ (k.gen = ui.gen[who] \/ k.at = "timer")}) <= 1

(* From one page, Run now never starts runs of the test while any that it started
   before are still queued or running, whatever an older poll answers
   (RunNow.tsx:16-21, 63-77) - unless an answer to its own request was lost, or the
   queue delivered a run once more after it had ended. *)
MineActive == {r \in (hist.mine \cap DOMAIN db.runs) \ hist.again : Active(db.runs[r].status)}
NoSecondRun ==
    [][ hist'.mine # hist.mine /\ "press" \notin hist.lost => MineActive = {} ]_vars

(* What the comment of the button says (RunNow.tsx:8-10): it "reflects an ongoing run
   on load too (started elsewhere or before a refresh) and disables itself, so it
   never lets the user start a duplicate". *)
NeverADuplicate ==
    [][ Page = "now" /\ ~ ui.starting /\ ui'.starting => ActiveIn(RunRows(db)) = 0 ]_vars

(* A tick goes away by the user's hand, with its test, or when the server has taken
   the batch it was in (TestList.tsx:135-147).  A tick made while a batch was being
   started is cleared with that batch, though it is not in it. *)
UntickedWhen(late) ==
    Page = "home" =>
       \A t \in ui.selected \ ui'.selected :
          \/ count'.acts > count.acts
          \/ \E k \in tasks \ tasks' :
                \/ Got(k, "createMany") /\ t \in k.arg.tests \cup late
                \/ Got(k, "removeTest") /\ k.arg.test = t
TicksRun == [][UntickedWhen(hist.late)]_vars

(* What the comment of runSelected says (TestList.tsx:133-134): "Enqueue a run for
   every ticked test, then clear the selection". *)
EveryTickStarted == [][UntickedWhen({})]_vars

(* When nothing about the folders is under way, the page shows those collapsed that
   the server has (TestList.tsx:44-45, 159-174), unless two requests about them
   overlapped, one failed, or another page changed them. *)
FoldsAgree ==
    Page = "home" /\ ~ hist.mixed /\ Folding \cap hist.lost = {} /\ (\A k \in tasks : k.who \notin Folding)
       => ui.closed = {f \in DOMAIN db.folders : db.folders[f].closed}

(* The page of a run loads again only for something the worker did to the run:
   it never loads over and over (pages/runs/[id].astro:305-311, 376-391). *)
ReloadsAccounted == hist.reloads <= hist.wrote

(* A saved form means what the settings meant before, but for what was edited: the
   browsers that run, the re-runs and the login (TestSettings.tsx:13-44,
   routers.ts:104-110, run.ts:145-147). *)
SettingsKept ==
    Page = "settings" =>
       \A key \in DOMAIN Empty \ hist.edited : Meaning(db.settings)[key] = Meaning(setup.db.settings)[key]

(* Once the world is at rest, a page that is still shown shows what the server has,
   whatever requests failed and whatever old answers came late.  A run's page may show
   rows of an attempt that was started over, until the run ends; and one that was
   loaded after the end does not poll (pages/runs/[id].astro:312-313), so it never
   learns of a run that was delivered once more. *)
ShowsTheTruth ==
    <>[](ui.mounted =>
           CASE Page = "home"   -> ui.tests = TestRows(db)
             [] Page = "now"    -> ui.active = ActiveIn(RunRows(db))
             [] Page = "recent" -> ui.runs = RunRows(db)
             [] Page = "run"    -> LET run == RunState(ui.run, db) IN
                                 \/ run.status = "gone"
                                 \/ ~ Active(ui.status) /\ ui.run \in hist.again
                                 \/ ui.status = run.status /\ ui.rows >= run.rows /\ (Active(run.status) \/ ui.rows = run.rows)
             [] OTHER -> TRUE)

(* What the page says of itself (pages/runs/[id].astro:308-311): when the run ends,
   it loads "once, to mount the trace/artifacts/triage sections".  The triage is
   written after the end (run.ts:172-180). *)
TriageMounted ==
    <>[](Page = "run" /\ ui.mounted /\ ~ Active(ui.status) => (RunState(ui.run, db).triage => ui.triage))

(* A page that was left falls silent: what was under way ends, and nothing is asked
   again (RecentRuns.tsx:23-26, TestList.tsx:84-87, RunNow.tsx:58-61). *)
QuietAfterLeaving == ~ ui.mounted ~> [](tasks = {})

(* A page polls along one chain, loads itself again only for something new, folds
   as the server has it, and saves no setting that was not edited. *)
PagesInv == TypeOK /\ OneChain /\ ReloadsAccounted /\ FoldsAgree /\ SettingsKept

-----------------------------------------------------------------------------
(* What a server holds. *)
DbKnown(d) ==
    /\ DOMAIN d = {"tests", "folders", "runs", "next", "settings"} /\ d.next \in Nat
    /\ IsFiniteSet(DOMAIN d.tests) /\ DOMAIN d.tests \subseteq Nat
    /\ \A f \in DOMAIN d.folders : DOMAIN d.folders[f] = {"up", "closed"}
    /\ IsFiniteSet(DOMAIN d.runs)
    /\ \A r \in DOMAIN d.runs : /\ r \in Nat /\ r < d.next
                                /\ DOMAIN d.runs[r] = {"test", "status", "rows", "triage"} /\ d.runs[r].rows \in Nat

(* A page is opened on what a server holds; the page of a run, on one that it has; settings
   that were stored long ago may have the flag of old. *)
ASSUME SetupsAssumption ==
    \A s \in Setups :
        /\ s.page \in {"home", "now", "recent", "run", "settings"} /\ DbKnown(s.db) /\ s.fan \in Nat \ {0}
        /\ s.page = "run" => s.run \in DOMAIN s.db.runs
        /\ DOMAIN s.db.settings \subseteq DOMAIN Empty \cup {"retry"}
        /\ "retry" \in DOMAIN s.db.settings => s.db.settings.retry \in BOOLEAN

(* Why these hold.  Each page has tasks of its own, and a task asks first one thing, then
   perhaps another. *)
Pollers == {"poll", "now", "recent", "tick"}
WhoOn ==
    [home |-> {"poll", "batch", "runOne", "remove", "move", "toggle", "unfile", "prompt"}, now |-> {"now", "press"},
     recent |-> {"recent", "removeListed"}, run |-> {"tick", "load", "retry", "removeShown"}, settings |-> {"save"}]
Stages ==
    [poll |-> {{"tests"}}, now |-> {{"runs"}}, recent |-> {{"runs"}}, tick |-> {{"run"}}, load |-> {{"run"}},
     batch |-> {{"createMany"}, {"tests"}}, runOne |-> {{"create"}, {"tests"}}, press |-> {{"create"}},
     remove |-> {{"removeTest"}}, move |-> {{"move"}}, toggle |-> {{"setCollapsed"}},
     unfile |-> {{"removeFolder"}, {"tests", "folders"}},
     prompt |-> {{"createFolder"}, {"renameFolder"}, {"tests", "folders"}},
     removeListed |-> {{"removeRun"}}, removeShown |-> {{"removeRun"}}, retry |-> {{"retry"}},
     save |-> {{"updateSettings"}}]

(* A task of a chain is never newer than the newest, and sets a timer for that only. *)
TaskKnown(k) ==
    /\ DOMAIN k = {"who", "gen", "at", "asks", "arg", "got"} /\ k.who \in WhoOn[Page]
    /\ IF k.at = "timer" THEN k.asks = {} /\ k.who \in Pollers
       ELSE k.at \in {"sent", "error"} /\ k.asks \cup DOMAIN k.got \in Stages[k.who]
    /\ k.who \in Pollers => /\ k.gen \in Nat /\ k.gen <= ui.gen[k.who]
                            /\ k.at = "timer" => k.gen = ui.gen[k.who]
    /\ k.who \in {"now", "press"} /\ "runs" \in DOMAIN k.got => IsFiniteSet(DOMAIN k.got.runs)

Newest(k) == k.who \in Pollers /\ k.gen = ui.gen[k.who]

ChainsKnown ==
    /\ DOMAIN ui.gen = Pollers /\ ui.gen.tick = 0 /\ \A who \in Pollers : ui.gen[who] \in Nat
    /\ \A k \in tasks : TaskKnown(k)
    /\ \A j, k \in tasks : Newest(j) /\ Newest(k) /\ j.who = k.who => j = k

(* What the page and the world have, and what is counted. *)
Signals ==
    [home |-> {"tests", "folders", "closed", "selected", "running", "prompt"}, now |-> {"active", "starting"},
     recent |-> {"runs", "deleting"}, run |-> {"run", "status", "rows", "triage", "busy"}, settings |-> {"form", "busy"}]
WorldKnown ==
    /\ setup \in Setups /\ DbKnown(db)
    /\ DOMAIN ui = {"mounted", "gen"} \cup Signals[Page]
    /\ count \in [acts : Nat, others : Nat, faults : Nat]
    /\ DOMAIN hist = {"mine", "lost", "late", "mixed", "reloads", "wrote", "edited", "again"}
    /\ hist.mixed \in BOOLEAN /\ hist.reloads \in Nat /\ hist.wrote \in Nat

(* Why ticks run: while a batch is being started, what is ticked is in it, or late; and
   there is one batch at a time. *)
BatchInv ==
    Page = "home" =>
        /\ ui.running \in BOOLEAN
        /\ \A k \in tasks : k.who = "batch" => ui.running
        /\ \A j, k \in tasks : j.who = "batch" /\ k.who = "batch" => j = k
        /\ \A k \in tasks : k.who = "batch" /\ "createMany" \in k.asks \cup DOMAIN k.got
                               => ui.selected \subseteq k.arg.tests \cup hist.late

(* Why no second runs: until its request is answered the button is pressed, and what the
   newest chain was told since then has the run. *)
PressInv ==
    /\ ui.starting \in BOOLEAN /\ ui.active \in Nat
    /\ \A k \in tasks : k.who = "press" => ui.starting /\ k.arg = [tests |-> {setup.test}]
    /\ \A j, k \in tasks : j.who = "press" /\ k.who = "press" => j = k
    /\ \A k \in tasks : k.who = "press" /\ ~ Got(k, "create") => MineActive = {}
    /\ ui.starting => Under("press")
    /\ \A r \in MineActive : db.runs[r].test = setup.test
    /\ ~ ui.starting /\ MineActive # {} =>
          /\ ui.active > 0
          /\ \A k \in tasks : k.who = "now" /\ Newest(k) /\ Got(k, "runs") => ActiveIn(k.got.runs) > 0
NowSignals == Page = "now" => ui.starting \in BOOLEAN /\ ui.active \in Nat
NowInv ==
    /\ hist.mine \subseteq {r \in Nat : r < db.next}
    /\ Page # "now" => hist.mine = {}
    /\ Page = "now" /\ "press" \notin hist.lost => PressInv

(* Why reloads are accounted for: whatever the page does not show yet, the worker did
   since the page was loaded. *)
Newer(run, rows) == ~ Active(run.status) \/ run.rows > rows
Owed == hist.reloads < hist.wrote
RunTask(k) ==
    /\ k.who = "tick" => k.arg = [run |-> ui.run] \/ k.at = "timer"
    /\ k.who = "tick" => Active(ui.status)
    /\ k.who \in {"retry", "removeShown"} => ui.busy
    /\ "run" \in DOMAIN k.got => k.got.run.rows \in Nat
    /\ k.who = "tick" /\ ui.run \in DOMAIN db.runs /\ Newer(db.runs[ui.run], ui.rows) => Owed
    /\ k.who = "tick" /\ Got(k, "run") /\ k.got.run.status # "gone" /\ Newer(k.got.run, ui.rows) => Owed
    /\ k.who = "load" /\ Got(k, "run") /\ k.arg.run \in DOMAIN db.runs /\ Newer(db.runs[k.arg.run], k.got.run.rows)
          => Owed \/ ~ Active(k.got.run.status)
ReloadInv ==
    /\ hist.reloads <= hist.wrote
    /\ Page = "run" =>
        /\ ui.rows \in Nat /\ ui.busy \in BOOLEAN
        /\ \A j, k \in tasks : j = k
        /\ \A k \in tasks : RunTask(k)

(* Why the folds agree: the one change that is under way has been shown, or will be
   when the page is refreshed. *)
ClosedIn(fs) == {f \in DOMAIN fs : fs[f].closed}
Alone == ~ hist.mixed /\ Folding \cap hist.lost = {}
FoldsKnown ==
    /\ \A j, k \in tasks : j.who \in Folding /\ k.who \in Folding => j = k
    /\ \A k \in tasks : k.who \in Folding => k.at = "sent"
    /\ (\A k \in tasks : k.who \notin {"unfile", "prompt"}) => DOMAIN ui.folders = DOMAIN db.folders
    /\ (\A k \in tasks : k.who \in Folding => Got(k, "setCollapsed")) => ui.closed = ClosedIn(db.folders)
    /\ \A k \in tasks : k.who = "toggle" /\ "setCollapsed" \in k.asks =>
          /\ k.arg.folder \in DOMAIN db.folders
          /\ k.arg.closed = (k.arg.folder \notin ClosedIn(db.folders))
          /\ ui.closed = SymDiff(ClosedIn(db.folders), {k.arg.folder})
    /\ \A k \in tasks : k.who \in {"unfile", "prompt"} /\ "folders" \in DOMAIN k.got => k.got.folders = db.folders
FoldInv ==
    Page = "home" =>
        /\ ui.closed \subseteq DOMAIN ui.folders /\ ui.prompt.mode \in {"none", "create", "rename"}
        /\ Alone => FoldsKnown

(* Why settings are kept: the form has what was stored, under the names of today. *)
Keeps(s) == \A key \in DOMAIN Empty \ hist.edited : Meaning(s)[key] = Meaning(setup.db.settings)[key]
SettingsInv ==
    Page = "settings" =>
        /\ DOMAIN ui.form \subseteq DOMAIN Empty
        /\ \A key \in DOMAIN Empty \ hist.edited :
              In(ui.form, key, Empty[key]) = In(Migrate(setup.db.settings), key, Empty[key])
        /\ Keeps(db.settings)
        /\ \A k \in tasks : k.who = "save" => Keeps(k.arg.settings)

(* All of it, but for the button: what PagesInv follows from. *)
PagesKnown == WorldKnown /\ ChainsKnown /\ NowSignals /\ BatchInv /\ FoldInv /\ ReloadInv /\ SettingsInv
=============================================================================
