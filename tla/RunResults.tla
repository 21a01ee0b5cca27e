----------------------------- MODULE RunResults -----------------------------
(***************************************************************************)
(* What the runs of one test leave behind: the baseline of a visual check  *)
(* (apps/worker/src/visual.ts) and its approval (server/routers.ts), the   *)
(* alerts of a verdict (apps/worker/src/alerts.ts), and the answer of the  *)
(* REST call that executes a test and waits (server/api.ts).               *)
(*                                                                         *)
(* Each run has one visual check, of the same name.  Runs of one           *)
(* application never overlap, from their start to their last alert: that   *)
(* is what RunQueue shows.  Runs of the test under another base URL may.   *)
(***************************************************************************)
EXTENDS Integers, FiniteSets, SequencesExt

CONSTANTS Setups,     \* what may happen: the application and browser of each run, the
                      \* alerts configured ([channel, trigger]), the faults, and how many
                      \* approvals and REST calls at most
          Images,     \* what the check may see: numbers, apart by their distance
          Tolerance,  \* the largest distance that is no regression
          MaxFaults   \* bound of the model

ASSUME ResultsAssumption ==
    /\ \A s \in Setups : DOMAIN s.app = DOMAIN s.browser /\ s.approvals \in Nat /\ s.calls \in Nat
    /\ Images \subseteq Nat \ {0} /\ Tolerance \in Nat /\ MaxFaults \in Nat

VARIABLES setup,       \* the setup that happens
          row, step,   \* each run's row and the row of its check
          at, local,   \* where its execution is, and what it holds
          actual,      \* object store: each run's screenshot
          image,       \* object store: the baseline of each browser, 0 if none
          baselines,   \* the rows of baselines: a sequence of [browser, approved]
          approval, approvals,
          incident,    \* PagerDuty: whether an incident is open, for each browser
          told,        \* every alert that was sent, whether it arrived or not
          verdicts,    \* history: the verdicts in the order they were committed
          client,      \* the REST call
          faults

vars == << setup, row, step, at, local, actual, image, baselines, approval, approvals,
           incident, told, verdicts, client, faults >>

Run     == DOMAIN setup.app
App     == setup.app
Browser == setup.browser
Alerts  == setup.alerts

Terminal == {"passed", "failed", "errored"}
NoStep  == [status |-> "none", baseline |-> FALSE, diff |-> FALSE]
NoLocal == [found |-> FALSE, base |-> 0, check |-> NoStep, changed |-> FALSE, seen |-> 0, left |-> {}]

Init ==
    /\ setup \in Setups
    /\ row = [r \in Run |-> [status |-> "queued", finished |-> 0]]
    /\ step = [r \in Run |-> NoStep]
    /\ at = [r \in Run |-> "queued"] /\ local = [r \in Run |-> NoLocal]
    /\ actual = [r \in Run |-> 0]
    /\ image = [b \in {Browser[r] : r \in Run} |-> 0] /\ baselines = << >>
    /\ approval = [at |-> "idle"] /\ approvals = 0
    /\ incident = [b \in DOMAIN image |-> FALSE] /\ told = {} /\ verdicts = << >>
    /\ client = [at |-> "idle"] /\ faults = 0

Store   == << actual, image, baselines >>
Tables  == << row, step >>
Outside == << approval, approvals, client >>
Alerted == << incident, told, verdicts >>

Fault(kind) == kind \in setup.faults /\ faults < MaxFaults /\ faults' = faults + 1
Go(r, from, to) == at[r] = from /\ at' = [at EXCEPT ![r] = to]

-----------------------------------------------------------------------------
(* runAttempt, around the check *)
Open(r) == at[r] \notin {"queued", "done"}

(* Marks the row and clears its step rows; the time it finished at before stays. *)
Begin(r) ==
    /\ \A s \in Run \ {r} : App[s] = App[r] => ~ Open(s)
    /\ Go(r, "queued", "look")
    /\ row' = [row EXCEPT ![r].status = "running"] /\ step' = [step EXCEPT ![r] = NoStep]
    /\ local' = [local EXCEPT ![r] = NoLocal]
    /\ UNCHANGED << Store, Outside, Alerted, faults >>

(* The browser cannot be launched: the attempt comes back errored, with no step
   rows, and is committed and told like any other. *)
LaunchFails(r) ==
    /\ "launch" \in setup.faults /\ Go(r, "look", "commit")
    /\ local' = [local EXCEPT ![r].check = [NoStep EXCEPT !.status = "errored"]]
    /\ UNCHANGED << Tables, Store, Outside, Alerted, faults >>

(* makeVisualSink: baseline.findFirst by test, browser, viewport and name. *)
Rows(b) == {i \in DOMAIN baselines : baselines[i].browser = b}

(* A baseline is looked for, and adopted all the same. *)
LookInVain(r) ==
    /\ Go(r, "look", "put") /\ local' = [local EXCEPT ![r].found = FALSE]
    /\ UNCHANGED << Tables, Store, Outside, Alerted, faults >>

Look(r) ==
    /\ Go(r, "look", "put") /\ local' = [local EXCEPT ![r].found = Rows(Browser[r]) # {}]
    /\ UNCHANGED << Tables, Store, Outside, Alerted, faults >>

PutActual(r) ==
    /\ Go(r, "put", IF local[r].found THEN "download" ELSE "adopt")
    /\ \E i \in Images : actual' = [actual EXCEPT ![r] = i]
    /\ UNCHANGED << Tables, local, image, baselines, Outside, Alerted, faults >>

(* The row first, the image after it. *)
AdoptRowFirst(r) ==
    /\ Go(r, "adopt", "adoptRow")
    /\ baselines' = Append(baselines, [browser |-> Browser[r], approved |-> FALSE])
    /\ UNCHANGED << Tables, local, actual, image, Outside, Alerted, faults >>

AdoptObject(r) ==
    /\ Go(r, "adopt", "adoptRow")
    /\ image' = [image EXCEPT ![Browser[r]] = actual[r]]
    /\ UNCHANGED << Tables, local, actual, baselines, Outside, Alerted, faults >>

AdoptRow(r) ==
    /\ Go(r, "adoptRow", "persist")
    /\ baselines' = Append(baselines, [browser |-> Browser[r], approved |-> FALSE])
    /\ local' = [local EXCEPT ![r].check = [status |-> "passed", baseline |-> TRUE, diff |-> FALSE]]
    /\ UNCHANGED << Tables, actual, image, Outside, Alerted, faults >>

Download(r) ==
    /\ Go(r, "download", "compare") /\ local' = [local EXCEPT ![r].base = image[Browser[r]]]
    /\ UNCHANGED << Tables, Store, Outside, Alerted, faults >>

Distance(i, j) == IF i < j THEN j - i ELSE i - j

(* A difference uploads the diff; only one above the tolerance fails the step. *)
Compare(r) ==
    /\ Go(r, "compare", "persist")
    /\ LET pct == Distance(actual[r], local[r].base) IN
        local' = [local EXCEPT ![r].check = [status |-> IF pct > Tolerance THEN "failed" ELSE "passed",
                                             baseline |-> TRUE, diff |-> pct > 0]]
    /\ UNCHANGED << Tables, Store, Outside, Alerted, faults >>

(* The store or the comparison fails inside the sink: the step fails. *)
SinkFails(r) ==
    /\ at[r] \in {"put", "adopt", "adoptRow", "download", "compare"} /\ Fault("storage")
    /\ at' = [at EXCEPT ![r] = "persist"]
    /\ local' = [local EXCEPT ![r].check =
                    [status |-> "failed", baseline |-> at[r] \in {"download", "compare"}, diff |-> FALSE]]
    /\ UNCHANGED << Tables, Store, Outside, Alerted >>

Persist(r) ==
    /\ Go(r, "persist", "commit")
    /\ step' = [step EXCEPT ![r] = local[r].check]
    /\ UNCHANGED << row, local, Store, Outside, Alerted, faults >>

-----------------------------------------------------------------------------
(* executeRunInner: the verdict, then the alerts *)
Settle(r, status) ==
    /\ row' = [row EXCEPT ![r] = [status |-> status, finished |-> Len(verdicts) + 1]]
    /\ verdicts' = Append(verdicts, [run |-> r, browser |-> Browser[r], status |-> status])

Commit(r) ==
    /\ Go(r, "commit", "alerts")
    /\ Settle(r, local[r].check.status)
    /\ UNCHANGED << step, local, Store, Outside, incident, told, faults >>

(* The outer catch settles the row and sends nothing. *)
Throw(r) ==
    /\ at[r] \in {"look", "persist", "commit"} /\ Fault("throw")
    /\ at' = [at EXCEPT ![r] = "done"] /\ Settle(r, "errored")
    /\ UNCHANGED << step, local, Store, Outside, incident, told >>

(* previousStatus: the newest of the other finished rows of this browser. *)
Prior(r) == {s \in Run \ {r} : Browser[s] = Browser[r] /\ row[s].finished > 0}
Latest(runs) == CHOOSE s \in runs : \A o \in runs : row[o].finished <= row[s].finished

(* The run's own row, or whatever finished last, is what it is compared with. *)
PreviousOfAny(r) ==
    /\ Go(r, "alerts", "send")
    /\ LET prior == {s \in Run \ {r} : row[s].finished > 0} IN
        local' = [local EXCEPT ![r].changed = prior # {} /\ row[Latest(prior)].status # row[r].status,
                               ![r].seen = Len(verdicts), ![r].left = Alerts]
    /\ UNCHANGED << Tables, Store, Outside, Alerted, faults >>

Previous(r) ==
    /\ Go(r, "alerts", "send")
    /\ local' = [local EXCEPT ![r].changed = Prior(r) # {} /\ row[Latest(Prior(r))].status # local[r].check.status,
                              ![r].seen = Len(verdicts), ![r].left = Alerts]
    /\ UNCHANGED << Tables, Store, Outside, Alerted, faults >>

Bad(status) == status \in {"failed", "errored"}

(* PagerDuty is treated like the other channels. *)
FiresByTrigger(a, failed, changed) ==
    CASE a.trigger = "always" -> TRUE [] a.trigger = "change" -> changed [] OTHER -> failed

(* PagerDuty is told of every verdict, to open and to resolve. *)
Fires(a, failed, changed) ==
    \/ a.channel = "pagerduty" \/ a.trigger = "always"
    \/ a.trigger = "change" /\ changed
    \/ a.trigger = "failure" /\ failed

(* The alerts go out at once; each arrives, or fails, when it will. *)
Deliver(r, a, arrives) ==
    LET failed == Bad(local[r].check.status)
        fires  == Fires(a, failed, local[r].changed)
    IN  /\ at[r] = "send" /\ a \in local[r].left
        /\ local' = [local EXCEPT ![r].left = @ \ {a}]
        /\ told' = IF fires THEN told \cup {[run |-> r, alert |-> a, failed |-> failed, arrived |-> arrives,
                                             seen |-> local[r].seen, sent |-> Len(verdicts)]}
                   ELSE told
        /\ incident' = IF arrives /\ a.channel = "pagerduty"
                       THEN [incident EXCEPT ![Browser[r]] = failed] ELSE incident
        /\ UNCHANGED << Tables, at, Store, Outside, verdicts >>

Send(r) ==
    \E a \in local[r].left :
        \/ Deliver(r, a, TRUE) /\ UNCHANGED faults
        \/ Deliver(r, a, FALSE) /\ Fault("delivery")

Return(r) ==
    /\ local[r].left = {} /\ Go(r, "send", "done")
    /\ UNCHANGED << Tables, local, Store, Outside, Alerted, faults >>

(* The worker dies after the verdict: the job is delivered again. *)
Redeliver(r) ==
    /\ at[r] \in {"alerts", "send", "done"} /\ row[r].status # "errored" /\ Fault("redelivery")
    /\ at' = [at EXCEPT ![r] = "queued"]
    /\ UNCHANGED << Tables, local, Store, Outside, Alerted >>

-----------------------------------------------------------------------------
(* baselines.approve: the step is read, its image copied, a row marked. *)
Approve(r) ==
    /\ approval.at = "idle" /\ approvals < setup.approvals
    /\ step[r].baseline /\ actual[r] # 0
    /\ approval' = [at |-> "copy", run |-> r] /\ approvals' = approvals + 1
    /\ UNCHANGED << Tables, at, local, Store, client, Alerted, faults >>

ApproveCopy ==
    /\ approval.at = "copy"
    /\ image' = [image EXCEPT ![Browser[approval.run]] = actual[approval.run]]
    /\ approval' = [approval EXCEPT !.at = "mark"]
    /\ UNCHANGED << Tables, at, local, actual, baselines, approvals, client, Alerted, faults >>

ApproveMark ==
    /\ approval.at = "mark"
    /\ LET rows == Rows(Browser[approval.run]) IN
        baselines' = IF rows = {} THEN baselines
                     ELSE [baselines EXCEPT ![CHOOSE i \in rows : \A j \in rows : i <= j].approved = TRUE]
    /\ approval' = [at |-> "idle"]
    /\ UNCHANGED << Tables, at, local, actual, image, approvals, client, Alerted, faults >>

-----------------------------------------------------------------------------
(* POST execute: waitForRun polls until the run is settled or a minute is over,
   then resultJson reads the row and after it the steps. *)
Ask(r) ==
    /\ client.at = "idle" /\ setup.calls > 0 /\ at[r] = "queued" /\ row[r].status = "queued"
    /\ client' = [at |-> "wait", run |-> r, status |-> "none", steps |-> NoStep, late |-> FALSE]
    /\ UNCHANGED << Tables, at, local, Store, approval, approvals, Alerted, faults >>

ClientOnly == UNCHANGED << Tables, at, local, Store, approval, approvals, Alerted, faults >>

WaitForRun ==
    /\ client.at = "wait"
    /\ \/ row[client.run].status \in Terminal /\ client' = [client EXCEPT !.at = "row"]
       \/ client' = [client EXCEPT !.at = "row", !.late = TRUE]
    /\ ClientOnly

(* The steps are read before the row. *)
ReadStepsFirst ==
    /\ \/ client.at = "row" /\ client' = [client EXCEPT !.at = "steps", !.steps = step[client.run]]
       \/ client.at = "steps" /\ client' = [client EXCEPT !.at = "answered", !.status = row[client.run].status]
    /\ ClientOnly

ResultJson ==
    /\ \/ client.at = "row" /\ client' = [client EXCEPT !.at = "steps", !.status = row[client.run].status]
       \/ client.at = "steps" /\ client' = [client EXCEPT !.at = "answered", !.steps = step[client.run]]
    /\ ClientOnly

-----------------------------------------------------------------------------
Execute(r) ==
    \/ Begin(r) \/ LaunchFails(r) \/ Look(r) \/ PutActual(r) \/ AdoptObject(r) \/ AdoptRow(r) \/ Download(r) \/ Compare(r)
    \/ SinkFails(r) \/ Persist(r) \/ Commit(r) \/ Throw(r) \/ Previous(r) \/ Send(r) \/ Return(r) \/ Redeliver(r)
User == (\E r \in Run : Approve(r)) \/ ApproveCopy \/ ApproveMark \/ (\E r \in Run : Ask(r))
Client == WaitForRun \/ ResultJson

Next == ((\E r \in Run : Execute(r)) \/ User \/ Client) /\ UNCHANGED setup

Spec == Init /\ [][Next]_vars

-----------------------------------------------------------------------------
Statuses == {"queued", "running"} \cup Terminal
Checks == [status : {"none", "passed", "failed", "errored"}, baseline : BOOLEAN, diff : BOOLEAN]
Locals == [found : BOOLEAN, base : Images \cup {0}, check : Checks, changed : BOOLEAN, seen : Nat, left : SUBSET Alerts]
Places == {"queued", "look", "put", "adopt", "adoptRow", "download", "compare", "persist",
           "commit", "alerts", "send", "done"}
TypeOK ==
    /\ setup \in Setups
    /\ row \in [Run -> [status : Statuses, finished : 0 .. Len(verdicts)]]
    /\ step \in [Run -> Checks]
    /\ at \in [Run -> Places] /\ local \in [Run -> Locals]
    /\ actual \in [Run -> Images \cup {0}]
    /\ image \in [{Browser[r] : r \in Run} -> Images \cup {0}]
    /\ baselines \in Seq([browser : DOMAIN image, approved : BOOLEAN])
    /\ verdicts \in Seq([run : Run, browser : DOMAIN image, status : Terminal])
    /\ approval \in [at : {"idle"}] \cup [at : {"copy", "mark"}, run : Run]
    /\ incident \in [DOMAIN image -> BOOLEAN]
    /\ approvals \in 0 .. setup.approvals /\ faults \in 0 .. MaxFaults

(* A baseline row always has an image behind it, whatever fails and whoever
   adopts at once, so that no later check downloads nothing (visual.ts:57-59). *)
BaselineHasImage == \A i \in DOMAIN baselines : image[baselines[i].browser] # 0

(* A run under a found baseline is compared with an image that was there: a
   browser is never held against another browser's baseline (visual.ts:42-49). *)
ComparedWithOwn == \A r \in Run : at[r] = "compare" => local[r].base # 0

(* An approved baseline is replaced by approvals only, but for a run under
   another base URL that looked for a baseline before there was one
   (visual.ts:42, routers.ts:516-527). *)
Shared(b) == \E r, s \in Run : Browser[r] = b /\ Browser[s] = b /\ App[r] # App[s]
Adopting(b) == \E r \in Run : Browser[r] = b /\ at[r] = "adopt"
ApprovalLasts ==
    [][\A b \in DOMAIN image :
        (\E i \in Rows(b) : baselines[i].approved) /\ image'[b] # image[b]
            => approval.at = "copy" \/ (Shared(b) /\ Adopting(b))]_vars

(* Runs that never overlap adopt one baseline for a browser, however they fail in
   between; two rows come only of runs under different base URLs (visual.ts:42-49). *)
OneBaseline ==
    \A b \in DOMAIN image :
        Cardinality(Rows(b)) > 1 => Shared(b)

(* A delivered-again run has a second verdict, or is on the way to one. *)
Reopened(r) ==
    \/ row[r].finished > 0 /\ (at[r] = "queued" \/ row[r].status = "running")
    \/ \E i, j \in DOMAIN verdicts : i < j /\ verdicts[i].run = r /\ verdicts[j].run = r

(* The verdict before a run's m-th is that of the newest other run of its browser. *)
Other(r, i) == verdicts[i].browser = Browser[r] /\ verdicts[i].run # r
Differs(r, m) ==
    \E i \in 1 .. m - 1 : /\ Other(r, i) /\ verdicts[i].status # verdicts[m].status
                         /\ \A j \in i + 1 .. m - 1 : ~ Other(r, j)

(* Once a run has done its telling, a "change" alert has been sent for it if and
   only if the verdict before its own, of another run on that browser, was another
   one - whatever was errored, or lost on its way, before it; unless a run was
   opened again or a third verdict came before the comparison (alerts.ts:13-24,
   47-58).  A run that is errored by the catch tells nobody: AlertsEvaluated. *)
IsPager(a)      == a.channel = "pagerduty"
OfChange(a)     == a.trigger = "change" /\ ~ IsPager(a)
ToldOf(r, a)    == \E t \in told : t.run = r /\ t.alert = a
ComparedAt(r)   == local[r].seen
ChangeToldTruly ==
    \A r \in Run, a \in Alerts :
        /\ at[r] = "done" /\ ComparedAt(r) > 0 /\ OfChange(a)
        /\ \A q \in Run : ~ Reopened(q)
        /\ \A j \in row[r].finished + 1 .. ComparedAt(r) : ~ Other(r, j)
        => (ToldOf(r, a) <=> Differs(r, row[r].finished))

(* Documented, and not true: "Alerts are evaluated after each run" (docs/features.md:212).
   A run that the outer catch errors (run.ts:94-107) is over without any. *)
AlertsEvaluated ==
    \A r \in Run, a \in Alerts :
        at[r] = "done" /\ a.trigger = "always" => ToldOf(r, a)

(* Documented, and not true: "On change: only when the status flips from the previous
   run (green -> red or red -> green)" (docs/features.md:209-210).  The code compares
   the statuses and not their colours (alerts.ts:48): from failed to errored, and
   back, it tells of a change. *)
ChangeIsAFlip ==
    \A t \in told : OfChange(t.alert) /\ ~ Reopened(t.run) =>
        \E i \in 1 .. t.seen :
            /\ Other(t.run, i) /\ \A j \in i + 1 .. t.seen : ~ Other(t.run, j)
            /\ Bad(verdicts[i].status) # Bad(verdicts[row[t.run].finished].status)

(* When all is quiet the incident of a browser is open if and only if its last
   verdict was failed or errored, if every delivery arrived, no run was errored past its alerts
   and no two runs were telling at once (alerts.ts:63-64, 79-87). *)
Quiet == \A r \in Run : at[r] \in {"queued", "done"}
Position(r, seen) == CHOOSE i \in 1 .. seen : verdicts[i].run = r /\ \A j \in i + 1 .. seen : verdicts[j].run # r
LastVerdict(b) == LET of == {i \in DOMAIN verdicts : verdicts[i].browser = b}
           IN  verdicts[CHOOSE i \in of : \A j \in of : j <= i]
IncidentFollows ==
    \A b \in DOMAIN image :
        LET of == {i \in DOMAIN verdicts : verdicts[i].browser = b}
            overlapped == \E t \in told : Browser[t.run] = b
                            /\ \E i \in of : Position(t.run, t.seen) < i /\ i <= t.sent
        IN  Quiet /\ of # {} /\ faults = 0 /\ ~ overlapped /\ (\E a \in Alerts : IsPager(a))
                => incident[b] = Bad(LastVerdict(b).status)

(* Documented, and not true: "PagerDuty always maintains incident state (trigger on
   fail, resolve on pass)" (alerts.ts:56).  Two runs of a test under different base
   URLs tell at once, and what the earlier verdict sends may arrive last. *)
IncidentMaintained ==
    \A b \in DOMAIN image :
        Quiet /\ (\E i \in DOMAIN verdicts : verdicts[i].browser = b) /\ (\E a \in Alerts : IsPager(a))
            => incident[b] = Bad(LastVerdict(b).status)

(* The answer of the REST call tells of one moment: a settled verdict comes with
   the step that explains it, unless the run was delivered again (api.ts:31-48). *)
AnswerExplained ==
    client.at = "answered" /\ ~ Reopened(client.run) /\ client.status \in {"passed", "failed"}
        => client.steps.status = client.status

(* What these rest on.  Runs of one application do not overlap; a screenshot is
   there before it is adopted or approved, and its image before its row; a run
   that found no baseline is right until it has made one, unless others look too. *)
OneOpen == \A r, s \in Run : App[r] = App[s] /\ Open(r) /\ Open(s) => r = s
ShotFirst ==
    /\ \A r \in Run : at[r] = "adopt" => actual[r] # 0
    /\ \A r \in Run : at[r] = "adoptRow" => image[Browser[r]] # 0
    /\ approval.at = "copy" => actual[approval.run] # 0
LookedRight ==
    \A r \in Run :
        /\ at[r] \in {"adopt", "adoptRow"} \/ (at[r] = "put" /\ ~ local[r].found)
              => Shared(Browser[r]) \/ Rows(Browser[r]) = {}
        /\ at[r] = "download" \/ (at[r] = "put" /\ local[r].found) => Rows(Browser[r]) # {}
Checked == \A r \in Run : at[r] \in {"persist", "commit"} => local[r].check.status # "none"

(* The baselines are a register of one image per browser, with an image behind each
   row, and each check is compared with its own browser's (visual.ts:38-70). *)
BaselineInv ==
    /\ TypeOK /\ OneOpen /\ ShotFirst /\ LookedRight /\ Checked
    /\ BaselineHasImage /\ ComparedWithOwn /\ OneBaseline

(* What the alerts and the answer rest on.  A row is that of its run's last verdict;
   it is running from Begin to the verdict, and a check's step explains it. *)
RowsFollow ==
    \A r \in Run :
        /\ \A i \in DOMAIN verdicts : verdicts[i].run = r => i <= row[r].finished
        /\ row[r].finished > 0 => verdicts[row[r].finished].run = r /\ row[r].status # "queued"
        /\ row[r].status \in Terminal =>
              row[r].finished > 0 /\ verdicts[row[r].finished].status = row[r].status
        /\ row[r].status \in {"passed", "failed"} => step[r].status = row[r].status
OwnBrowser == \A i \in DOMAIN verdicts : verdicts[i].browser = Browser[verdicts[i].run]
PlacesFollow ==
    \A r \in Run :
        /\ at[r] = "queued" => row[r].status # "running"
        /\ at[r] \in {"alerts", "send"} => row[r].status = local[r].check.status
        /\ at[r] \in {"alerts", "send", "done"} => row[r].status \in Terminal
        /\ at[r] = "commit" => step[r] = local[r].check \/ local[r].check.status = "errored"
        /\ at[r] \notin {"queued", "alerts", "send", "done"} => row[r].status = "running"

(* Between its two reads the call's run keeps its verdict, or is opened again. *)
ReadOnce ==
    /\ client \in [at : {"idle"}]
          \cup [at : {"wait", "row", "steps", "answered"}, run : Run, status : Statuses \cup {"none"},
                steps : Checks, late : BOOLEAN]
    /\ client.at = "steps" /\ ~ Reopened(client.run) /\ client.status \in {"passed", "failed"}
          => row[client.run].status = client.status
AnswerInv == RowsFollow /\ OwnBrowser /\ PlacesFollow /\ ReadOnce /\ AnswerExplained

(* What Previous finds out: the verdict before the run's own, on its browser. *)
Foretold(r, seen, changed) ==
    /\ seen \in 1 .. Len(verdicts)
    /\ \E m \in 1 .. seen :
        /\ verdicts[m].run = r /\ \A j \in m + 1 .. seen : verdicts[j].run # r
        /\ (\A j \in m + 1 .. seen : ~ Other(r, j)) /\ (\A q \in Run : ~ Reopened(q))
              => (changed <=> Differs(r, m))
ChangeInv ==
    /\ \A r \in Run : ComparedAt(r) > 0 => Foretold(r, ComparedAt(r), local[r].changed)
    /\ \A t \in told : t.run \in Run /\ \E c \in BOOLEAN : Foretold(t.run, t.seen, c)

(* What is sent of it: nothing before the comparison, then each alert in its turn. *)
SendInv ==
    /\ \A r \in Run :
        /\ at[r] = "send" => ComparedAt(r) > 0
        /\ at[r] \notin {"queued", "send", "done"} => ComparedAt(r) = 0
        /\ at[r] \notin {"queued", "send"} => local[r].left = {}
    /\ \A t \in told : ComparedAt(t.run) > 0 \/ Reopened(t.run)
    /\ \A r \in Run, a \in Alerts :
        ComparedAt(r) > 0 /\ OfChange(a) /\ ~ Reopened(r)
            => (ToldOf(r, a) <=> a \notin local[r].left /\ local[r].changed)

(* Without faults a run has one verdict, and tells each pager of it; the incident is
   that of the last verdict once its run has told one, if none was told late. *)
Past(r) == at[r] \in {"alerts", "send", "done"}
OneVerdictEach ==
    /\ \A r \in Run : ~ Past(r) => row[r].finished = 0
    /\ \A i, j \in DOMAIN verdicts : verdicts[i].run = verdicts[j].run => i = j
ToldAfterwards ==
    /\ \A r \in Run : at[r] = "send" => row[r].finished <= local[r].seen
    /\ \A t \in told : /\ t.run \in Run /\ t.sent \in 0 .. Len(verdicts)
                       /\ row[t.run].finished \in 1 .. t.seen
PagersTold ==
    \A r \in Run, a \in Alerts :
        IsPager(a) /\ (at[r] = "done" \/ (at[r] = "send" /\ a \notin local[r].left))
            => \E t \in told : t.run = r /\ t.alert = a
InTurn(b) ==
    \A t \in told : Browser[t.run] = b =>
        \A i \in row[t.run].finished + 1 .. t.sent : verdicts[i].browser # b
NewestOf(b, m) == verdicts[m].browser = b /\ \A i \in m + 1 .. Len(verdicts) : verdicts[i].browser # b
IncidentOfNewest ==
    \A t \in told, b \in DOMAIN image :
        IsPager(t.alert) /\ InTurn(b) /\ NewestOf(b, row[t.run].finished)
            => incident[b] = Bad(verdicts[row[t.run].finished].status)
IncidentInv == faults = 0 => OneVerdictEach /\ ToldAfterwards /\ PagersTold /\ IncidentOfNewest
=============================================================================
