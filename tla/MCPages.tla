-------------------------------- MODULE MCPages --------------------------------
(* An instance of Pages: each setup is one page with what its user and the rest of
   the world do there. *)
EXTENDS Pages, TLC

Stored(tests, folders, runs, settings) ==
    [tests |-> tests, folders |-> folders, runs |-> runs, next |-> 3, settings |-> settings]
Tests  == 1 :> 0 @@ 2 :> 2
Nested == 1 :> [up |-> 0, closed |-> FALSE] @@ 2 :> [up |-> 1, closed |-> TRUE]
Run(status, rows) == [test |-> 1, status |-> status, rows |-> rows, triage |-> FALSE]

Home == [page |-> "home", test |-> 0, run |-> 0]
List == Home @@ [db |-> Stored(1 :> 0 @@ 2 :> 0, << >>, 1 :> Run("passed", 0), << >>)]
Tree == Home @@ [db |-> Stored(Tests, Nested, << >>, << >>)]
Own(page) == [page |-> page, test |-> 1, run |-> 1, db |-> Stored(1 :> 0, << >>, 1 :> Run("passed", 0), << >>)]
Shown(status) == [page |-> "run", test |-> 1, run |-> 1, db |-> Stored(1 :> 0, << >>, 1 :> Run(status, 0), << >>)]

Old == { "retry" :> TRUE,
         [retry |-> TRUE, retryOnFail |-> 0, browsers |-> {"webkit"}],
         [retryOnFail |-> 2, browsers |-> {"firefox", "webkit"}, loginFlowId |-> "l"],
         [browsers |-> {}] }

Bounds(acts, turns) == [acts |-> acts, turns |-> turns, faults |-> 1]
Fan(n) == [fan |-> n]

MCSetups ==
    { List @@ [may |-> {"tick", "batch", "leave"}, others |-> {"remove"}] @@ Fan(1) @@ Bounds(3, 1),
      List @@ [may |-> {"runOne"}, others |-> {"work"}] @@ Fan(1) @@ Bounds(2, 1),
      Tree @@ [may |-> {"toggle", "unfile", "leave"}, others |-> {"toggle"}] @@ Fan(1) @@ Bounds(2, 1),
      Tree @@ [may |-> {"prompt"}, others |-> {}] @@ Fan(1) @@ Bounds(3, 0),
      Tree @@ [may |-> {"move", "remove"}, others |-> {"move"}] @@ Fan(1) @@ Bounds(2, 1),
      Own("now") @@ [may |-> {"press", "leave"}, others |-> {"work", "run"}] @@ Fan(2) @@ Bounds(2, 2),
      Own("now") @@ [may |-> {"press"}, others |-> {"work"}] @@ Fan(1) @@ [Bounds(2, 3) EXCEPT !.faults = 0],
      Own("recent") @@ [may |-> {"removeRun", "leave"}, others |-> {"removeRun", "run"}] @@ Fan(2) @@ Bounds(2, 2) }
    \cup { Shown(s) @@ [may |-> {"retry", "removeShown", "leave"}, others |-> {"work", "removeRun"}] @@ Fan(1) @@ Bounds(2, 4) :
            s \in {"queued", "failed"} }
    \cup { [db |-> Stored(1 :> 0, << >>, << >>, s)] @@ Own("settings") @@
              [may |-> {"edit", "save", "leave"}, others |-> {}] @@ Fan(1) @@ Bounds(4, 0) : s \in Old }
=============================================================================
