--------------------------- MODULE MCRunResults ---------------------------
(* Two or three runs of a test, some on one application and some under another
   base URL that may overlap them: one setup for the baselines, two for the
   alerts, one for the REST call. *)
EXTENDS RunResults

Of(app, browser, alerts, faulty, most, calls) ==
    [app |-> app, browser |-> browser, alerts |-> alerts, faults |-> faulty, approvals |-> most, calls |-> calls]
Pager  == [channel |-> "pagerduty", trigger |-> "failure"]
Change == [channel |-> "slack", trigger |-> "change"]
Failure == [channel |-> "email", trigger |-> "failure"]
Always == [channel |-> "webhook", trigger |-> "always"]
Three(a, b, c) == [r1 |-> a, r2 |-> b, r3 |-> c]

MCSetups ==
    { Of(Three("x", "x", "y"), Three("chromium", "chromium", b), {}, {"storage"}, 1, 0) : b \in {"chromium", "firefox"} }
    \cup { Of(Three("x", "x", "x"), Three("chromium", "chromium", b), {Pager, Change}, {"throw", "redelivery", "delivery", "launch"}, 0, 0)
           : b \in {"chromium", "firefox"} }
    \cup { Of([r1 |-> "x", r2 |-> "y"], [r1 |-> "chromium", r2 |-> "chromium"], {Pager, Change, Failure}, {"throw", "redelivery", "delivery", "launch"}, 0, 0),
           Of([r1 |-> "x", r2 |-> "y"], [r1 |-> "chromium", r2 |-> "chromium"], {}, {"redelivery", "throw"}, 0, 1) }

(* Two runs that the catch may error, under an alert on every run; three whose
   browser may not be launched, under an alert on change; and two under different
   base URLs, with nothing failing, under a pager. *)
Pair == [r1 |-> "x", r2 |-> "x"]
One  == [r1 |-> "chromium", r2 |-> "chromium"]
MCSetupsThrow == { Of(Pair, One, {Always}, {"throw"}, 0, 0) }
MCSetupsFlip  == { Of(Three("x", "x", "x"), Three("chromium", "chromium", "chromium"), {Change}, {"launch"}, 0, 0) }
MCSetupsLate  == { Of([r1 |-> "x", r2 |-> "y"], One, {Pager}, {}, 0, 0) }
=============================================================================
