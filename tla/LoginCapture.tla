---------------------------- MODULE LoginCapture ----------------------------
(***************************************************************************)
(* A login flow and the captures of its session: captureLoginState and     *)
(* loadLoginState of apps/worker/src/login.ts against loginFlows.update,   *)
(* remove and removeCaptureRun of apps/web/src/server/routers.ts.  Several *)
(* captures of one flow may be in progress at once - capture jobs take no  *)
(* application lock (queue.ts:84) and a run captures on its own when it    *)
(* meets a login page - and none of them is told of an edit.               *)
(*                                                                         *)
(* The steps of the flow are numbered by edition: a session is known by    *)
(* the edition whose steps produced it.                                    *)
(***************************************************************************)
EXTENDS Naturals

CONSTANTS Capture,      \* executions of captureLoginState
          MaxEdits,     \* bound of the model on edits of the flow's steps
          ForeignKeys,  \* whether the database enforces capture_run.login_flow_id
          MaxFaults     \* bound of the model on failed database calls

ASSUME LoginCaptureAssumption ==
    MaxEdits \in Nat /\ ForeignKeys \in BOOLEAN /\ MaxFaults \in Nat

VARIABLES exists,   \* whether the login_flow row exists
          edition,  \* the edition of its dsl
          session,  \* storageStateRef: where the stored session comes from
          shown,    \* lastCaptureError and cookieCount, as the Logins list shows them
          pc,       \* pc[c]: where capture c is
          local,    \* local[c]: the edition it read, its status, whether it has a browser
          attempt,  \* attempt[c]: the status of its capture_run row
          removing, \* loginFlows.remove is between its two halves
          faults    \* failed database calls so far

vars == <<exists, edition, session, shown, pc, local, attempt, removing, faults>>

NoSession == [from |-> "none", edition |-> 0]
Ended     == {"done", "threw"}
Running(c) == pc[c] \notin {"idle"} \cup Ended

Goto(c, from, to) == pc[c] = from /\ pc' = [pc EXCEPT ![c] = to]
Fault == faults < MaxFaults /\ faults' = faults + 1
NoFault == UNCHANGED faults

(* UPDATEs of a row that is gone change nothing. *)
FlowSet(old, new) == IF exists THEN new ELSE old
AttemptSet(c, s)  == IF attempt[c] = "none" THEN attempt ELSE [attempt EXCEPT ![c] = s]

-----------------------------------------------------------------------------
Init ==
    /\ exists = TRUE /\ edition = 0 /\ session = NoSession /\ shown = "never"
    /\ pc = [c \in Capture |-> "idle"]
    /\ local = [c \in Capture |-> [edition |-> 0, status |-> "passed", browser |-> FALSE]]
    /\ attempt = [c \in Capture |-> "none"]
    /\ removing = FALSE /\ faults = 0

(* The flow and its steps are read; without a flow the job fails. *)
ReadFlow(c) ==
    /\ Goto(c, "idle", IF exists THEN "insert" ELSE "threw")
    /\ local' = [local EXCEPT ![c].edition = edition]
    /\ UNCHANGED <<exists, edition, session, shown, attempt, removing, faults>>

(* The attempt is recorded as running. *)
InsertAttempt(c) ==
    /\ Goto(c, "insert", "setup")
    /\ ForeignKeys => exists
    /\ attempt' = [attempt EXCEPT ![c] = "running"]
    /\ UNCHANGED <<exists, edition, session, shown, local, removing, faults>>

(* The flow is gone and the database says so, or the database fails. *)
InsertFails(c) ==
    /\ Goto(c, "insert", "threw")
    /\ (ForeignKeys /\ ~ exists /\ NoFault) \/ Fault
    /\ UNCHANGED <<exists, edition, session, shown, local, attempt, removing>>

(* Browser, context, tracing, page and secrets (51-60), before the try. *)
Setup(c) ==
    /\ Goto(c, "setup", "steps")
    /\ local' = [local EXCEPT ![c].browser = TRUE]
    /\ UNCHANGED <<exists, edition, session, shown, attempt, removing, faults>>

(* One of those calls throws: nothing catches it here. *)
SetupFails(c) ==
    /\ Goto(c, "setup", "threw")
    /\ \E launched \in BOOLEAN : local' = [local EXCEPT ![c].browser = launched]
    /\ UNCHANGED <<exists, edition, session, shown, attempt, removing, faults>>

(* The session is stored whatever the steps did. *)
StepsThenStore(c) ==
    /\ Goto(c, "steps", "store")
    /\ \E s \in {"passed", "failed"} : local' = [local EXCEPT ![c].status = s]
    /\ UNCHANGED <<exists, edition, session, shown, attempt, removing, faults>>

(* Foreign keys hold the step rows to their attempt. *)
StepRowsAccepted(c) == ForeignKeys => attempt[c] # "none"

(* The steps run and each gets its row, up to the first that fails; a login
   that leaves no cookie has failed too. *)
RunSteps(c) ==
    /\ StepRowsAccepted(c)
    /\ \E s \in {"passed", "failed"} :
        /\ Goto(c, "steps", IF s = "passed" THEN "store" ELSE "wrap")
        /\ local' = [local EXCEPT ![c].status = s]
    /\ UNCHANGED <<exists, edition, session, shown, attempt, removing, faults>>

(* Every step passed and there are cookies: the flow's session is replaced. *)
StoreSession(c) ==
    /\ Goto(c, "store", "wrap")
    /\ session' = FlowSet(session, [from |-> c, edition |-> local[c].edition])
    /\ UNCHANGED <<exists, edition, shown, local, attempt, removing, faults>>

(* Screenshot, trace and video are flushed and uploaded. *)
Wrap(c) ==
    /\ Goto(c, "wrap", "row")
    /\ UNCHANGED <<exists, edition, session, shown, local, attempt, removing, faults>>

FinishAttempt(c) ==
    /\ Goto(c, "row", "flow")
    /\ attempt' = AttemptSet(c, local[c].status)
    /\ UNCHANGED <<exists, edition, session, shown, local, removing, faults>>

(* The flow's own status fields follow, and the browser is closed. *)
FinishFlow(c) ==
    /\ Goto(c, "flow", "done")
    /\ shown' = FlowSet(shown, local[c].status)
    /\ local' = [local EXCEPT ![c].browser = FALSE]
    /\ UNCHANGED <<exists, edition, session, attempt, removing, faults>>

(* A browser call (steps, storageState, tracing.stop, context.close) throws. *)
Throw(c) ==
    /\ pc[c] \in {"steps", "store", "wrap"}
    /\ pc' = [pc EXCEPT ![c] = "catch"]
    /\ UNCHANGED <<exists, edition, session, shown, local, attempt, removing, faults>>

(* The attempt was deleted under the steps. *)
StepRejected(c) ==
    /\ Goto(c, "steps", "catch")
    /\ ~ StepRowsAccepted(c)
    /\ UNCHANGED <<exists, edition, session, shown, local, attempt, removing, faults>>

(* A database call throws. *)
DbThrow(c) ==
    /\ pc[c] \in {"steps", "store", "row", "flow"}
    /\ pc' = [pc EXCEPT ![c] = "catch"]
    /\ Fault
    /\ UNCHANGED <<exists, edition, session, shown, local, attempt, removing>>

(* The catch sees to the flow only. *)
CatchForgets(c) ==
    /\ Goto(c, "catch", "catch flow")
    /\ UNCHANGED <<exists, edition, session, shown, local, attempt, removing, faults>>

(* The catch tries the whole login again. *)
CatchRetries(c) ==
    /\ Goto(c, "catch", "steps")
    /\ UNCHANGED <<exists, edition, session, shown, local, attempt, removing, faults>>

(* The catch marks the attempt, then the flow; a session that was stored
   before stays. *)
Catch(c) ==
    /\ Goto(c, "catch", "catch flow")
    /\ attempt' = AttemptSet(c, "errored")
    /\ UNCHANGED <<exists, edition, session, shown, local, removing, faults>>

CatchFlow(c) ==
    /\ Goto(c, "catch flow", "done")
    /\ shown' = FlowSet(shown, "errored")
    /\ local' = [local EXCEPT ![c].browser = FALSE]
    /\ UNCHANGED <<exists, edition, session, attempt, removing, faults>>

(* The updates of the catch are not protected: the job fails, but the finally
   still closes the browser. *)
CatchThrows(c) ==
    /\ pc[c] \in {"catch", "catch flow"}
    /\ pc' = [pc EXCEPT ![c] = "threw"]
    /\ local' = [local EXCEPT ![c].browser = FALSE]
    /\ Fault
    /\ UNCHANGED <<exists, edition, session, shown, attempt, removing>>

-----------------------------------------------------------------------------
(* New steps clear the capture status only. *)
EditKeepingSession ==
    /\ exists /\ edition < MaxEdits
    /\ edition' = edition + 1
    /\ shown' = "never"
    /\ UNCHANGED <<exists, session, pc, local, attempt, removing, faults>>

(* loginFlows.update with new steps: one UPDATE that also drops the session
   and the capture status. *)
Edit ==
    /\ exists /\ edition < MaxEdits
    /\ edition' = edition + 1
    /\ session' = NoSession /\ shown' = "never"
    /\ UNCHANGED <<exists, pc, local, attempt, removing, faults>>

(* loginFlows.remove: the attempts that exist are deleted, with their steps,
   then the flow; with foreign keys an attempt inserted in between makes the
   latter fail. *)
RemoveAttempts ==
    /\ exists /\ ~ removing
    /\ attempt' = [c \in Capture |-> "none"]
    /\ removing' = TRUE
    /\ UNCHANGED <<exists, edition, session, shown, pc, local, faults>>

RemoveFlow ==
    /\ removing /\ removing' = FALSE
    /\ IF ForeignKeys /\ \E c \in Capture : attempt[c] # "none"
       THEN UNCHANGED <<exists, session, shown>>
       ELSE exists' = FALSE /\ session' = NoSession /\ shown' = "never"
    /\ UNCHANGED <<edition, pc, local, attempt, faults>>

(* loginFlows.removeCaptureRun. *)
RemoveCaptureRun(c) ==
    /\ attempt[c] # "none"
    /\ attempt' = [attempt EXCEPT ![c] = "none"]
    /\ UNCHANGED <<exists, edition, session, shown, pc, local, removing, faults>>

CaptureStep(c) ==
    \/ ReadFlow(c) \/ InsertAttempt(c) \/ InsertFails(c)
    \/ Setup(c) \/ SetupFails(c)
    \/ RunSteps(c) \/ StoreSession(c) \/ Wrap(c)
    \/ FinishAttempt(c) \/ FinishFlow(c)
    \/ Throw(c) \/ StepRejected(c) \/ DbThrow(c) \/ Catch(c) \/ CatchFlow(c) \/ CatchThrows(c)

User ==
    \/ Edit \/ RemoveAttempts \/ RemoveFlow
    \/ \E c \in Capture : RemoveCaptureRun(c)

Next == (\E c \in Capture : CaptureStep(c)) \/ User
Spec == Init /\ [][Next]_vars

(* A capture that has begun goes on. *)
FairSpec == Spec /\ \A c \in Capture : WF_vars(Running(c) /\ CaptureStep(c))

-----------------------------------------------------------------------------
Phase    == {"idle", "insert", "setup", "steps", "store", "wrap", "row", "flow",
             "catch", "catch flow", "done", "threw"}
Status   == {"none", "running", "passed", "failed", "errored"}
Locals   == [edition : 0 .. MaxEdits, status : {"passed", "failed"}, browser : BOOLEAN]
Sessions == [from : Capture \cup {"none"}, edition : 0 .. MaxEdits]

TypeOK ==
    /\ exists \in BOOLEAN
    /\ edition \in 0 .. MaxEdits
    /\ session \in Sessions
    /\ shown \in {"never", "passed", "failed", "errored"}
    /\ pc \in [Capture -> Phase]
    /\ local \in [Capture -> Locals]
    /\ attempt \in [Capture -> Status]
    /\ removing \in BOOLEAN
    /\ faults \in 0 .. MaxFaults

(* "A failed flow must not store a bad session" (117-118): whatever captures
   are in progress, the stored session is one that a capture got from steps
   that all passed. *)
SessionFromPass ==
    session.from # "none" => local[session.from].status = "passed"

(* The stored session is one of steps that the flow no longer has. *)
Stale == session.from # "none" /\ session.edition # edition

(* "Drop it so a stale session is never silently reused against the edited
   flow" (routers.ts:444-447).  The code does not keep this: a capture that
   read the steps before an edit stores their session after it. *)
SessionIsCurrent == ~ Stale

(* That is the only way: no edit, removal or other capture leaves a flow with a
   session of steps that it no longer has, but for a capture that began before
   the edit and stores after it. *)
StaleOnlyByOverlap ==
    [][Stale' => \/ Stale
                 \/ \E c \in Capture : StoreSession(c) /\ local[c].edition < edition]_vars

(* A capture leaves no browser behind, however its steps, its session or its
   last updates fail: of what happens inside the try. *)
BrowserClosed ==
    \A c \in Capture : pc[c] = "done" => ~ local[c].browser

(* A capture that returns has settled its attempt, unless it was deleted. *)
ReturnSettles ==
    \A c \in Capture : pc[c] = "done" => attempt[c] # "running"

(* What the properties above rest on.  Only steps that passed lead to a store;
   a capture whose session is stored has its steps behind it; an attempt is
   settled before the flow's own status is written. *)
StoreAfterPass ==
    /\ \A c \in Capture : pc[c] = "store" => local[c].status = "passed"
    /\ session.from # "none" => pc[session.from] \notin {"idle", "insert", "setup", "steps"}

SettledFirst ==
    \A c \in Capture : pc[c] \in {"flow", "catch flow", "done"} => attempt[c] # "running"

(* Nothing runs steps that the flow has not had yet. *)
ReadBefore == \A c \in Capture : local[c].edition <= edition

(* The inductive invariant of a flow and its captures: what is stored comes of
   steps that passed, and a capture that returns has settled its attempt before
   the flow's status and closed its browser. *)
CaptureInv ==
    /\ TypeOK /\ StoreAfterPass /\ SessionFromPass /\ ReadBefore
    /\ SettledFirst /\ BrowserClosed

(* Every capture that begins ends. *)
CapturesEnd == \A c \in Capture : Running(c) ~> pc[c] \in Ended
=============================================================================
