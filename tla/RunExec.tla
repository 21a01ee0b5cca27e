------------------------------- MODULE RunExec ------------------------------
(***************************************************************************)
(* One execution of a run: executeRun, executeRunInner and runAttempt of   *)
(* apps/worker/src/run.ts for a run row the web application created, with  *)
(* the user's runs.remove (apps/web/src/server/routers.ts) free to happen  *)
(* at any moment.  The state is what others can see - the run row, its     *)
(* step rows, the screenshots under runs/<id>/steps/, the alert sent, the  *)
(* browser process - and the locals that decide what is written there.     *)
(*                                                                         *)
(* A step's outcome, a condition, a page error, the final URL and every    *)
(* failure of a browser call are nondeterministic; calls to the database   *)
(* or the object store fail at most MaxFaults times.                       *)
(***************************************************************************)
EXTENDS Naturals

CONSTANTS Steps,         \* number of compiled steps of the test
          StepRetries,   \* step.retries ?? settings.stepRetries ?? 0
          RetryOnFail,   \* settings.retryOnFail ?? (settings.retry ? 1 : 0)
          LoginFlow,     \* whether job.loginFlowId is set
          FailOnJsError, \* settings.failOnJsError
          Removable,     \* whether the user may delete the run
          ForeignKeys,   \* whether the database enforces step_result.run_id
          MaxFaults      \* bound of the model on failed database/store calls

ASSUME RunExecAssumption ==
    /\ Steps \in Nat /\ StepRetries \in Nat /\ RetryOnFail \in Nat /\ MaxFaults \in Nat
    /\ {LoginFlow, FailOnJsError, Removable, ForeignKeys} \subseteq BOOLEAN

VARIABLES pc,        \* where executeRun is
          row,       \* the run row's status, or "deleted"
          rows,      \* the step_result rows: their index and status
          shots,     \* the indices that have a screenshot object
          alert,     \* the status alerts were sent for, or tried to be ("lost")
          browser,   \* whether the run's browser process is open
          att,       \* the locals of runAttempt
          reauthed,  \* whether the session was captured again
          retries,   \* whole-run retries made so far
          remover,   \* where runs.remove is
          faults     \* failed database and store calls so far

db   == <<row, rows, shots>>
plan == <<reauthed, retries>>
vars == <<pc, db, alert, browser, att, plan, remover, faults>>

Index    == 0 .. (Steps - 1)
Finished == {"passed", "failed", "errored"}

(* idx: the loop index; tries: stepAttempt; step: stepStatus; stop: an exit
   step ended the run; status: the attempt's verdict; js: a page error made it
   fail; login: the final URL looks like a login page. *)
NewAttempt == [idx |-> 0, tries |-> 0, step |-> "passed", stop |-> FALSE,
               status |-> "passed", js |-> FALSE, login |-> FALSE]

Goto(from, to) == pc = from /\ pc' = to
Fault == faults < MaxFaults /\ faults' = faults + 1
NoFault == UNCHANGED faults

(* An UPDATE of a row that was deleted changes nothing. *)
RowSet(s) == IF row = "deleted" THEN row ELSE s

-----------------------------------------------------------------------------
Init ==
    /\ pc = "load" /\ row = "queued" /\ rows = {} /\ shots = {} /\ alert = "none"
    /\ browser = FALSE /\ att = NewAttempt /\ reauthed = FALSE /\ retries = 0
    /\ remover = "idle" /\ faults = 0

(* Version, test, project, actions, settings and login session are read. *)
Load ==
    /\ Goto("load", "start")
    /\ UNCHANGED <<db, alert, browser, att, plan, remover, faults>>

(* A missing version, a malformed test, a session that cannot be decrypted, a
   browser call around the steps that fails (a wait between two tries of a
   step included): whatever throws outside a step passes the finally of
   runAttempt and reaches the catch of executeRun. *)
Throw ==
    /\ pc \in {"load", "launch", "context", "step", "wrap", "reauth"}
    /\ pc' = "catch" /\ browser' = FALSE
    /\ UNCHANGED <<db, alert, att, plan, remover, faults>>

(* A database call throws, and the row or rows it writes stay as they are. *)
DbThrow ==
    /\ pc \in {"start", "clear", "persist", "finalize"}
    /\ pc' = "catch" /\ browser' = FALSE
    /\ Fault
    /\ UNCHANGED <<db, alert, att, plan, remover>>

FirstAttempt == retries = 0 /\ ~ reauthed

(* An engine that is unknown - to the first attempt as to any other - or that
   cannot be launched ends the attempt. *)
NoBrowser(from) ==
    /\ Goto(from, "decide")
    /\ from = "start" => FirstAttempt
    /\ att' = [NewAttempt EXCEPT !.status = "errored"]
    /\ UNCHANGED <<db, alert, browser, plan, remover, faults>>

MarkRunning ==
    /\ Goto("start", "clear")
    /\ row' = RowSet("running")
    /\ UNCHANGED <<rows, shots, alert, browser, att, plan, remover, faults>>

(* The earlier attempt's step rows are left in place. *)
ClearOnlyShots ==
    /\ Goto("clear", "launch")
    /\ shots' = {}
    /\ UNCHANGED <<row, rows, alert, browser, att, plan, remover, faults>>

(* The step rows of an earlier attempt are deleted, but not its screenshots. *)
ClearOnlyRows ==
    /\ Goto("clear", "launch")
    /\ rows' = {}
    /\ UNCHANGED <<row, shots, alert, browser, att, plan, remover, faults>>

(* An earlier attempt's step rows are deleted, then its screenshots: the
   latter best effort. *)
ClearAttempt ==
    /\ Goto("clear", "launch")
    /\ rows' = {}
    /\ (shots' = {} /\ NoFault) \/ (Fault /\ UNCHANGED shots)
    /\ UNCHANGED <<row, alert, browser, att, plan, remover>>

Launch ==
    /\ Goto("launch", "context")
    /\ browser' = TRUE /\ att' = NewAttempt
    /\ UNCHANGED <<db, alert, plan, remover, faults>>

NextStep(i) == IF i < Steps THEN "step" ELSE "wrap"

(* Context, tracing, page and variables are set up; the loop begins. *)
Ready ==
    /\ Goto("context", NextStep(0))
    /\ UNCHANGED <<db, alert, browser, att, plan, remover, faults>>

(* What the last try of a step does to the locals: the step passes, fails with
   no retry left, or was skipped by its condition; or it is an exit step, which
   passes or fails and stops the run, and is never retried. *)
StepEnds ==
    /\ Goto("step", "shot")
    /\ \E outcome \in {"passed", "failed", "skipped"}, exit \in BOOLEAN :
        /\ outcome = "failed" /\ ~ exit => att.tries = StepRetries
        /\ outcome = "skipped" => att.tries = 0 /\ ~ exit
        /\ att' = [att EXCEPT !.step = outcome, !.stop = exit,
                              !.status = IF outcome = "failed" THEN "failed" ELSE @]
    /\ UNCHANGED <<db, alert, browser, plan, remover, faults>>

(* The step throws and is tried again. *)
StepRetried ==
    /\ pc = "step" /\ att.tries < StepRetries
    /\ att' = [att EXCEPT !.tries = @ + 1]
    /\ UNCHANGED <<pc, db, alert, browser, plan, remover, faults>>

(* A page error while the steps run, when the test asks to fail on those. *)
PageError ==
    /\ FailOnJsError /\ pc \in {"step", "shot", "persist"} /\ ~ att.js
    /\ att' = [att EXCEPT !.js = TRUE]
    /\ UNCHANGED <<pc, db, alert, browser, plan, remover, faults>>

(* The screenshot of the step, best effort. *)
Screenshot ==
    /\ Goto("shot", "persist")
    /\ shots' \in {shots, shots \cup {att.idx}}
    /\ UNCHANGED <<row, rows, alert, browser, att, plan, remover, faults>>

(* A failed step does not end the loop. *)
PersistAndGoOn ==
    /\ pc = "persist"
    /\ ForeignKeys => row # "deleted"
    /\ rows' = rows \cup {[idx |-> att.idx, status |-> att.step]}
    /\ pc'   = IF att.stop THEN "wrap" ELSE NextStep(att.idx + 1)
    /\ att'  = [att EXCEPT !.idx = @ + 1, !.tries = 0]
    /\ UNCHANGED <<row, shots, alert, browser, plan, remover, faults>>

(* The step row is inserted; a failed step or an exit ends the loop. *)
Persist ==
    /\ pc = "persist"
    /\ ForeignKeys => row # "deleted"
    /\ rows' = rows \cup {[idx |-> att.idx, status |-> att.step]}
    /\ pc'   = IF att.step = "failed" \/ att.stop THEN "wrap" ELSE NextStep(att.idx + 1)
    /\ att'  = [att EXCEPT !.idx = @ + 1, !.tries = 0]
    /\ UNCHANGED <<row, shots, alert, browser, plan, remover, faults>>

(* The run was deleted meanwhile and the database checks foreign keys. *)
PersistRejected ==
    /\ pc = "persist" /\ ForeignKeys /\ row = "deleted"
    /\ pc' = "catch" /\ browser' = FALSE
    /\ UNCHANGED <<db, alert, att, plan, remover, faults>>

(* A page error turns a pass into a failure; the final URL is read, the
   artifacts are flushed, the browser is closed. *)
Wrap ==
    /\ Goto("wrap", "decide")
    /\ \E onLogin \in BOOLEAN :
        att' = [att EXCEPT !.login = onLogin,
                           !.status = IF @ = "passed" /\ att.js THEN "failed" ELSE @]
    /\ browser' = FALSE
    /\ UNCHANGED <<db, alert, plan, remover, faults>>

-----------------------------------------------------------------------------
ExpiredSession == LoginFlow /\ att.status = "failed" /\ att.login /\ FirstAttempt

(* The first attempt failed on a login page: capture a new session ... *)
Reauth ==
    /\ Goto("decide", "reauth")
    /\ ExpiredSession
    /\ reauthed' = TRUE
    /\ UNCHANGED <<db, alert, browser, att, retries, remover, faults>>

(* ... load it and make another attempt, which is not counted as a retry. *)
ReauthDone ==
    /\ Goto("reauth", "start")
    /\ UNCHANGED <<db, alert, browser, att, plan, remover, faults>>

RetriesLeft       == retries < RetryOnFail

(* A failed attempt is repeated and the repetition is not counted. *)
RetryUncounted ==
    /\ Goto("decide", "start")
    /\ ~ ExpiredSession /\ att.status = "failed" /\ RetriesLeft
    /\ UNCHANGED <<db, alert, browser, att, plan, remover, faults>>

(* A failed attempt is repeated while the test allows it. *)
Retry ==
    /\ Goto("decide", "start")
    /\ ~ ExpiredSession /\ att.status = "failed" /\ RetriesLeft
    /\ retries' = retries + 1
    /\ UNCHANGED <<db, alert, browser, att, reauthed, remover, faults>>

Settle ==
    /\ Goto("decide", "finalize")
    /\ ~ ExpiredSession
    /\ att.status = "failed" => ~ RetriesLeft
    /\ UNCHANGED <<db, alert, browser, att, plan, remover, faults>>

(* The one update that commits the verdict. *)
Finalize ==
    /\ Goto("finalize", "post")
    /\ row' = RowSet(att.status)
    /\ UNCHANGED <<rows, shots, alert, browser, att, plan, remover, faults>>

(* A failure after the verdict reaches the catch of executeRun. *)
PostThrowing ==
    /\ pc = "post"
    /\ \/ pc' = "done" /\ alert' = att.status
       \/ pc' = "catch" /\ alert' \in {att.status, "lost"}
    /\ UNCHANGED <<db, browser, att, plan, remover, faults>>

(* Alerts and triage: whatever fails there is logged and dropped. *)
Post ==
    /\ Goto("post", "done")
    /\ alert' \in {att.status, "lost"}
    /\ UNCHANGED <<db, browser, att, plan, remover, faults>>

(* executeRun's catch: the row is errored, unless that update fails too. *)
Catch ==
    /\ Goto("catch", "done")
    /\ (row' = RowSet("errored") /\ NoFault) \/ (Fault /\ UNCHANGED row)
    /\ UNCHANGED <<rows, shots, alert, browser, att, plan, remover>>

-----------------------------------------------------------------------------
(* runs.remove: step rows, then every object under runs/<id>/, then the row. *)
RemoveRows ==
    /\ Removable /\ remover = "idle" /\ remover' = "objects"
    /\ rows' = {}
    /\ UNCHANGED <<pc, row, shots, alert, browser, att, plan, faults>>

RemoveObjects ==
    /\ remover = "objects" /\ remover' = "row"
    /\ shots' = {}
    /\ UNCHANGED <<pc, row, rows, alert, browser, att, plan, faults>>

RemoveRow ==
    /\ remover = "row" /\ (ForeignKeys => rows = {})
    /\ remover' = "done" /\ row' = "deleted"
    /\ UNCHANGED <<pc, rows, shots, alert, browser, att, plan, faults>>

(* A step row inserted meanwhile keeps the row from being deleted. *)
RemoveRejected ==
    /\ remover = "row" /\ ForeignKeys /\ rows # {}
    /\ remover' = "failed"
    /\ UNCHANGED <<pc, db, alert, browser, att, plan, faults>>

Worker ==
    \/ Load \/ Throw \/ DbThrow
    \/ NoBrowser("start") \/ MarkRunning \/ ClearAttempt
    \/ NoBrowser("launch") \/ Launch \/ Ready
    \/ StepEnds \/ StepRetried \/ Screenshot \/ Persist \/ PersistRejected
    \/ Wrap \/ Reauth \/ ReauthDone \/ Retry \/ Settle
    \/ Finalize \/ Post \/ Catch

User == RemoveRows \/ RemoveObjects \/ RemoveRow \/ RemoveRejected

Next == Worker \/ PageError \/ User
Spec == Init /\ [][Next]_vars

(* The worker process goes on with the execution it has begun. *)
FairSpec == Spec /\ WF_vars(Worker)

-----------------------------------------------------------------------------
StepRows == [idx : Index, status : {"passed", "failed", "skipped"}]
Attempts == [idx : 0 .. Steps, tries : 0 .. StepRetries, step : {"passed", "failed", "skipped"},
             stop : BOOLEAN, status : Finished, js : BOOLEAN, login : BOOLEAN]

TypeOK ==
    /\ pc \in {"load", "start", "clear", "launch", "context", "step", "shot", "persist", "wrap",
               "decide", "reauth", "finalize", "post", "catch", "done"}
    /\ row \in {"queued", "running", "deleted"} \cup Finished
    /\ rows \subseteq StepRows
    /\ shots \subseteq Index
    /\ alert \in {"none", "lost"} \cup Finished
    /\ browser \in BOOLEAN /\ reauthed \in BOOLEAN
    /\ att \in Attempts
    /\ retries \in 0 .. RetryOnFail
    /\ remover \in {"idle", "objects", "row", "done", "failed"}
    /\ faults \in 0 .. MaxFaults

Committed == pc \in {"post", "done"} /\ row \in {"passed", "failed"}

(* The step rows under a committed verdict are those of one attempt, from the
   first step on without a gap, and they explain it: a pass has no failed row
   and stops short only at an exit step; a failure has exactly its last row
   failed, or a page error. *)
VerdictExplained ==
    Committed /\ remover = "idle" =>
        /\ {r.idx : r \in rows} = 0 .. (att.idx - 1)
        /\ \A q, r \in rows : q.idx = r.idx => q = r
        /\ \A r \in rows : r.status = "failed" => r.idx = att.idx - 1
        /\ row = "passed" =>
              /\ \A r \in rows : r.status # "failed"
              /\ att.stop \/ att.idx = Steps
              /\ ~ att.js
        /\ row = "failed" => att.js \/ \E r \in rows : r.status = "failed"

(* No screenshot of an earlier, longer attempt survives a verdict (209-213),
   as long as the object store answers. *)
NoStaleScreenshot ==
    Committed /\ faults = 0 => \A i \in shots : i < att.idx

(* The retry budget is spent on flakiness only: a failure is committed after
   RetryOnFail repetitions of the test, re-authentication not counted
   (133-153). *)
BudgetSpent ==
    pc \in {"finalize", "post"} /\ att.status = "failed" => retries = RetryOnFail

(* An execution that has ended has finished its row (91-108), whatever threw,
   as long as the database answers. *)
EndsFinished ==
    pc = "done" /\ faults = 0 => row \in Finished \cup {"deleted"}

(* What the comment of the catch says (95-96): any failure before or around an
   attempt "must still finalize the pre-created run row so it never wedges in
   queued/running".  The finalizing update is itself a database call, and its
   failure is dropped (104). *)
NeverWedges ==
    pc = "done" => row \in Finished \cup {"deleted"}

(* A committed verdict is not overwritten by what follows it (169-170). *)
VerdictKept ==
    [][(row \in Finished) => row' \in {row, "deleted"}]_vars

(* An alert tells of the verdict that was committed. *)
AlertMatchesRow ==
    alert \in Finished => row \in {alert, "deleted"}

(* The browser never outlives the execution, on no path (420-424). *)
BrowserClosed ==
    pc \in {"decide", "reauth", "finalize", "post", "catch", "done"} => ~ browser

(* What the properties above rest on.  A browser is open only between its
   launch and the end of its attempt; the row is finished by the last write of
   an execution only; what alerts and the row say is what the last attempt
   found. *)
ControlInv ==
    /\ browser => pc \in {"context", "step", "shot", "persist", "wrap"}
    /\ row \in Finished => pc \in {"post", "done"}
    /\ alert # "none" => pc = "done"
    /\ pc = "post" => row \in {att.status, "deleted"}
    /\ pc = "done" /\ row \in {"passed", "failed"} => att.status = row
    /\ alert \in Finished => alert = att.status /\ row \in {att.status, "deleted"}

(* The step rows as far as the loop has come: those of the steps before
   att.idx, none failed until the loop is left. *)
RowsUpTo(n) ==
    /\ {r.idx : r \in rows} = 0 .. (n - 1)
    /\ \A q, r \in rows : q.idx = r.idx => q = r

NoneFailed == \A r \in rows : r.status # "failed"

Explained ==
    /\ RowsUpTo(att.idx)
    /\ \A r \in rows : r.status = "failed" => r.idx = att.idx - 1
    /\ att.status = "passed" => NoneFailed /\ (att.stop \/ att.idx = Steps)
    /\ att.status = "failed" => att.js \/ ~ NoneFailed

(* The loop is never past the steps. *)
IndexInv ==
    /\ pc = "context" => att.idx = 0
    /\ pc \in {"step", "shot", "persist"} => att.idx < Steps

LoopInv ==
    remover = "idle" =>
        /\ pc \in {"launch", "context"} => rows = {}
        /\ pc = "context" => att = NewAttempt
        /\ pc \in {"step", "shot", "persist"} => RowsUpTo(att.idx) /\ NoneFailed
        /\ pc = "step" => att.status = "passed" /\ ~ att.stop
        /\ pc \in {"shot", "persist"} => att.status = IF att.step = "failed" THEN "failed" ELSE "passed"
        /\ pc = "wrap" => att.status \in {"passed", "failed"} /\ Explained
        /\ pc \in {"decide", "finalize", "post"} /\ att.status # "errored" =>
              Explained /\ (att.status = "passed" => ~ att.js)
        /\ Committed => Explained /\ (att.status = "passed" => ~ att.js)

(* The screenshots as far as the loop has come, unless the store failed once: an
   attempt begins without any, and takes that of a step before the step's row. *)
ShotsUpTo(n) == \A i \in shots : i < n

ShotsInv ==
    faults = 0 =>
        /\ pc \in {"launch", "context"} => shots = {}
        /\ pc \in {"step", "shot", "wrap"} => ShotsUpTo(att.idx)
        /\ pc = "persist" => ShotsUpTo(att.idx + 1)
        /\ pc \in {"decide", "finalize", "post"} => att.status = "errored" \/ ShotsUpTo(att.idx)
        /\ Committed => ShotsUpTo(att.idx)

(* The inductive invariant of an execution. *)
ExecInv ==
    /\ TypeOK /\ IndexInv /\ ControlInv /\ LoopInv /\ ShotsInv /\ BudgetSpent
    /\ pc = "done" => row \in Finished \cup {"deleted"} \/ faults > 0

(* Every execution ends: step retries, run retries and the re-authentication
   cannot keep it going for ever. *)
Terminates == <>(pc = "done")

(* "Delete a run: its step results, its artifacts (everything under
   runs/<id>/), and the run row" (routers.ts:369-370): when the deletion and
   the execution are over, nothing of the run is left. *)
NothingLeftBehind ==
    remover \in {"done", "failed"} /\ pc = "done" => row = "deleted" /\ rows = {} /\ shots = {}
=============================================================================
