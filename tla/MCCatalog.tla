----------------------------- MODULE MCCatalog -----------------------------
(* Instances of Catalog: for each part of the routers, the requests that touch
   the same rows, together and with one failure. *)
EXTENDS Catalog, FiniteSetsExt

Empty == [t \in Tables |-> << >>]

(* Folders 5, 6 inside 5, and 7; test 3 in folder 6, with two rows of data, a
   run and everything that can hang on it. *)
Settings == [browsers |-> << "webkit", "firefox", "chromium" >>, flow |-> 14]
Full ==
    [ org |-> 1 :> [of |-> 0], project |-> 2 :> [of |-> 1],
      test |-> 3 :> [of |-> 2, name |-> "a", folder |-> 6, current |-> 4, settings |-> Settings,
                     data |-> << [x |-> "1"], [x |-> "2"] >>],
      testVersion |-> 4 :> [of |-> 3, dsl |-> "old"],
      folder |-> (5 :> [of |-> 2, name |-> "f", parent |-> 0, collapsed |-> FALSE])
                 @@ (6 :> [of |-> 2, name |-> "g", parent |-> 5, collapsed |-> FALSE])
                 @@ (7 :> [of |-> 2, name |-> "h", parent |-> 0, collapsed |-> TRUE]),
      run |-> 8 :> [of |-> 4, status |-> "queued", browser |-> "webkit"],
      stepResult |-> 9 :> [of |-> 8], baseline |-> 10 :> [of |-> 3], schedule |-> 11 :> [of |-> 3],
      alert |-> 12 :> [of |-> 2], action |-> 13 :> [of |-> 2, name |-> "a", dsl |-> "old"],
      loginFlow |-> 14 :> [of |-> 2, name |-> "l", dsl |-> "old", session |-> TRUE],
      captureRun |-> 15 :> [of |-> 14], captureStep |-> 16 :> [of |-> 15],
      secret |-> 17 :> [of |-> 1, value |-> "as typed"], apiKey |-> 18 :> [of |-> 0, key |-> 18] ]
OnlyWebkit == [Full EXCEPT !.test[3].settings.browsers = << "webkit" >>, !.test[3].data = << >>]
(* The same with a second test, without settings or data. *)
Pair == [Full EXCEPT
    !.test = @ @@ 19 :> [of |-> 2, name |-> "b", folder |-> 0, current |-> 20,
                         settings |-> [browsers |-> << >>, flow |-> 0], data |-> << >>],
    !.testVersion = @ @@ 20 :> [of |-> 19, dsl |-> "old"]]

Load(rows, faulty, requests) == [db |-> rows, faults |-> faulty, requests |-> requests]

First  == [op |-> "createTest", name |-> "t", dsl |-> "new"]
Bad    == [op |-> "updateTest", id |-> 3, name |-> "b", dsl |-> "invalid"]
Edit   == [op |-> "updateTest", id |-> 3, name |-> "b", dsl |-> "new"]
Rename == [op |-> "updateTest", id |-> 3, name |-> "c"]
Gone   == [op |-> "removeTest", id |-> 3]
Run    == [op |-> "createRuns", id |-> 3, flow |-> 0]
Many   == [op |-> "createMany", tests |-> << 99, 3 >>, flow |-> 0]
Twice  == [op |-> "createMany", tests |-> << 3, 3 >>, flow |-> 0]
Both   == [op |-> "createMany", tests |-> << 3, 19 >>, flow |-> 0]
Config == [op |-> "updateSettings", id |-> 3, settings |-> [browsers |-> << "webkit" >>, flow |-> 0]]
File(f) == [op |-> "moveTest", id |-> 3, folder |-> f]
Into(f, p) == [op |-> "moveFolder", id |-> f, parent |-> p]
Unfold(f)  == [op |-> "removeFolder", id |-> f]
Below(p)   == [op |-> "createFolder", name |-> "n", parent |-> p]
Pasted(table) == [op |-> "setData", id |-> 3, json |-> "none", text |-> Exported(table), table |-> table]
Json      == [op |-> "setData", id |-> 3, json |-> "valid", rows |-> << [x |-> "9"] >>]
Only(op, id) == [op |-> op, id |-> id]
Step(id)  == [op |-> "execute", id |-> id, test |-> 3]

Starts  == {First, Below(0), [op |-> "createSecret", kind |-> "totp"], [op |-> "listFolders"],
            [op |-> "createAction", name |-> "a", dsl |-> "invalid"], [op |-> "createFlow", name |-> "l", dsl |-> "new"]}
Tree    == {Into(5, 7), Into(7, 6), Into(6, 0), Into(5, 6), Unfold(5), Unfold(6), File(5), Below(6)}
Columns == {Edit, Rename, File(7), Config, Json, Bad}
Testing == {Edit, Run, Many, Step(8), Only("removeRun", 8), Only("createSchedule", 3), Only("retry", 8),
            [op |-> "createAlert", id |-> 3], [op |-> "listTests"]}
Others  == {Only("removeAction", 13), Only("removeSchedule", 11), Only("removeSecret", 17), Only("removeApiKey", 18),
            Only("removeAlert", 12), [op |-> "createApiKey"], [op |-> "renameFolder", id |-> 5, name |-> "z"],
            [op |-> "setCollapsed", id |-> 5, collapsed |-> TRUE], [op |-> "updateAction", id |-> 13, dsl |-> "invalid", name |-> "b"],
            [op |-> "updateAction", id |-> 13], [op |-> "updateFlow", id |-> 14, dsl |-> "new"], Only("removeFlow", 14)}

Cells  == {<< >>, << "a" >>, << "," >>, << Quote >>, << "a", " ", "a" >>}
Tables2 == {<< << << "a" >>, << "b", "," >> >>, << c, d >>, << d, << Quote, "," >> >> >> : c, d \in Cells}

(* Some of a set of requests at once. *)
Mixes(requests, sizes) ==
    {SetToSeq(few) : few \in UNION {kSubset(n, requests) : n \in sizes}}

MCWorkloads ==
    {Load(Empty, 1, mix) : mix \in Mixes(Starts, {2}) \cup {<< First, First >>}}
    \cup {Load(Full, 0, mix) : mix \in Mixes(Tree, {3})}
    \cup {Load(Full, 0, mix) : mix \in Mixes(Columns, {3})}
    \cup {Load(Full, 0, << Bad, [op |-> "updateAction", id |-> 13, dsl |-> "invalid"],
                           [op |-> "setData", id |-> 3, json |-> "invalid"] >>)}
    \cup {Load(Full, 0, << Gone >> \o mix) : mix \in Mixes(Testing, {1})}
    \cup {Load(Full, 0, << Gone >> \o mix) : mix \in Mixes({Edit, Run, Step(8), Only("removeRun", 8)}, {2})}
    \cup {Load(OnlyWebkit, 1, mix) : mix \in Mixes({Gone, Run, Many, Only("retry", 8)}, {2})}
    \cup {Load(Pair, 1, << Both >>), Load(Pair, 1, << Both, Edit >>), Load(Full, 1, << Many >>), Load(Full, 1, << Run, Edit >>)}
    \cup {Load(Full, 0, << Run, Config, Json >>), Load(Full, 0, << Edit, Twice >>), Load(Full, 0, << Edit, Run, Many >>)}
    \cup {Load(Full, 0, << a, b >>) : a \in Others, b \in {Only("removeFlow", 14), [op |-> "createApiKey"]}}
    \cup {Load(Full, 0, << Pasted(t) >>) : t \in Tables2}
=============================================================================
