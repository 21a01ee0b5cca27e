-------------------------- MODULE LoginCaptureProofs ------------------------
(***************************************************************************)
(* Theorems about LoginCapture, for every set of captures and every number *)
(* of edits and faults, whether or not the database checks foreign keys.   *)
(***************************************************************************)
EXTENDS LoginCapture, TLAPS

(* What the invariant says beyond the types. *)
Promises == StoreAfterPass /\ SessionFromPass /\ ReadBefore /\ SettledFirst /\ BrowserClosed

LEMMA TypeInit == Init => TypeOK
<1> SUFFICES ASSUME Init PROVE TypeOK
  OBVIOUS
<1> USE LoginCaptureAssumption DEF Init
<1>1. edition \in 0 .. MaxEdits /\ faults \in 0 .. MaxFaults
  OBVIOUS
<1>2. session \in Sessions
  BY DEF NoSession, Sessions
<1>3. local \in [Capture -> Locals]
  BY DEF Locals
<1>4. pc \in [Capture -> Phase] /\ attempt \in [Capture -> Status]
  BY DEF Phase, Status
<1> QED
  BY <1>1, <1>2, <1>3, <1>4 DEF TypeOK

LEMMA FaultType ==
    ASSUME TypeOK, Fault \/ NoFault PROVE faults' \in 0 .. MaxFaults
BY LoginCaptureAssumption DEF TypeOK, Fault, NoFault

(* Every step of a capture keeps the types. *)
LEMMA CaptureType ==
    ASSUME TypeOK, NEW c \in Capture, CaptureStep(c)
    PROVE  TypeOK'
<1> USE LoginCaptureAssumption DEF TypeOK, Goto, Phase
<1>1. CASE ReadFlow(c)
  BY <1>1 DEF ReadFlow, Locals
<1>2. CASE InsertAttempt(c)
  BY <1>2 DEF InsertAttempt, Status
<1>3. CASE InsertFails(c)
  BY <1>3, FaultType DEF InsertFails
<1>4. CASE Setup(c)
  BY <1>4 DEF Setup, Locals
<1>5. CASE SetupFails(c)
  <2>1. PICK launched \in BOOLEAN : local' = [local EXCEPT ![c].browser = launched]
    BY <1>5 DEF SetupFails
  <2>2. local' \in [Capture -> Locals]
    BY <2>1 DEF Locals
  <2> QED
    BY <1>5, <2>2 DEF SetupFails
<1>6. CASE RunSteps(c)
  <2>1. PICK s \in {"passed", "failed"} :
           /\ Goto(c, "steps", IF s = "passed" THEN "store" ELSE "wrap")
           /\ local' = [local EXCEPT ![c].status = s]
    BY <1>6 DEF RunSteps
  <2>2. local' \in [Capture -> Locals]
    BY <2>1 DEF Locals
  <2> QED
    BY <1>6, <2>1, <2>2 DEF RunSteps
<1>7. CASE StoreSession(c)
  BY <1>7 DEF StoreSession, FlowSet, Sessions, Locals
<1>8. CASE Wrap(c) \/ Throw(c) \/ StepRejected(c)
  BY <1>8 DEF Wrap, Throw, StepRejected
<1>9. CASE FinishAttempt(c) \/ Catch(c)
  BY <1>9 DEF FinishAttempt, Catch, AttemptSet, Status, Locals
<1>10. CASE FinishFlow(c) \/ CatchFlow(c)
  BY <1>10 DEF FinishFlow, CatchFlow, FlowSet, Locals
<1>11. CASE DbThrow(c)
  BY <1>11, FaultType DEF DbThrow
<1>12. CASE CatchThrows(c)
  <2>1. local' \in [Capture -> Locals]
    BY <1>12 DEF CatchThrows, Locals
  <2> QED
    BY <1>12, <2>1, FaultType DEF CatchThrows
<1> QED
  BY <1>1, <1>2, <1>3, <1>4, <1>5, <1>6, <1>7, <1>8, <1>9, <1>10, <1>11, <1>12 DEF CaptureStep

(* So does every step of a user. *)
LEMMA UserType == TypeOK /\ User => TypeOK'
<1> SUFFICES ASSUME TypeOK, User PROVE TypeOK'
  OBVIOUS
<1> USE LoginCaptureAssumption DEF TypeOK
<1>1. NoSession \in Sessions
  BY DEF NoSession, Sessions
<1>2. CASE Edit
  BY <1>1, <1>2 DEF Edit
<1>3. CASE RemoveAttempts
  BY <1>3 DEF RemoveAttempts, Status
<1>4. CASE RemoveFlow
  BY <1>1, <1>4 DEF RemoveFlow
<1>5. ASSUME NEW c \in Capture, RemoveCaptureRun(c) PROVE TypeOK'
  BY <1>5 DEF RemoveCaptureRun, Status
<1> QED
  BY <1>2, <1>3, <1>4, <1>5 DEF User

-----------------------------------------------------------------------------
(* Editions only grow, and only reading the flow takes one over. *)
LEMMA EditionsOrdered ==
    ASSUME TypeOK
    PROVE  edition \in Nat /\ \A d \in Capture : local[d].edition \in Nat
BY LoginCaptureAssumption DEF TypeOK, Locals

LEMMA ReadKept ==
    ASSUME TypeOK, ReadBefore, edition' = edition \/ edition' = edition + 1,
           \A d \in Capture : local'[d].edition = local[d].edition \/ local'[d].edition = edition
    PROVE  ReadBefore'
<1> SUFFICES ASSUME NEW d \in Capture PROVE local'[d].edition <= edition'
  BY DEF ReadBefore
<1>1. local[d].edition <= edition /\ local[d].edition \in Nat /\ edition \in Nat
  BY EditionsOrdered DEF ReadBefore
<1>2. local'[d].edition = local[d].edition \/ local'[d].edition = edition
  OBVIOUS
<1> QED
  BY <1>1, <1>2

(* Every step of a capture keeps what is promised of its session, its attempt
   and its browser. *)
LEMMA CapturePromises ==
    ASSUME TypeOK, Promises, NEW c \in Capture, CaptureStep(c)
    PROVE  Promises'
<1> USE LoginCaptureAssumption DEF TypeOK, Phase, Goto, Locals, Sessions, Status, Promises,
        StoreAfterPass, SessionFromPass, ReadBefore, SettledFirst, BrowserClosed
<1>1. CASE ReadFlow(c)
  <2>1. /\ local'[c].edition = edition /\ local'[c].status = local[c].status
        /\ local'[c].browser = local[c].browser
        /\ \A d \in Capture \ {c} : local'[d] = local[d]
    BY <1>1 DEF ReadFlow
  <2>2. ReadBefore'
    <3>1. edition' = edition
      BY <1>1 DEF ReadFlow
    <3>2. \A d \in Capture : local'[d].edition = local[d].edition \/ local'[d].edition = edition
      BY <2>1
    <3> HIDE DEF TypeOK, ReadBefore
    <3> QED
      BY <3>1, <3>2, ReadKept
  <2> QED
    BY <1>1, <2>1, <2>2 DEF ReadFlow
<1>2. CASE InsertAttempt(c)
  BY <1>2 DEF InsertAttempt
<1>3. CASE InsertFails(c)
  BY <1>3 DEF InsertFails
<1>4. CASE Setup(c)
  BY <1>4 DEF Setup
<1>5. CASE SetupFails(c)
  <2>1. PICK launched \in BOOLEAN : local' = [local EXCEPT ![c].browser = launched]
    BY <1>5 DEF SetupFails
  <2>3. /\ pc' = [pc EXCEPT ![c] = "threw"] /\ pc[c] = "setup"
        /\ UNCHANGED <<session, attempt, edition>>
    BY <1>5 DEF SetupFails
  <2>4. /\ \A d \in Capture \ {c} : local'[d] = local[d]
        /\ local'[c].status = local[c].status /\ local'[c].edition = local[c].edition
    <3>1. local \in [Capture -> Locals]
      OBVIOUS
    <3>2. local[c] \in Locals /\ local'[c] = [local[c] EXCEPT !.browser = launched]
      BY <2>1, <3>1
    <3>3. \A d \in Capture \ {c} : local'[d] = local[d]
      BY <2>1, <3>1
    <3> QED
      BY <3>2, <3>3
  <2>5. \A d \in Capture : local'[d].status = local[d].status /\ local'[d].edition = local[d].edition
    BY <2>4
  <2>6. ReadBefore'
    <3> HIDE DEF TypeOK, ReadBefore
    <3> QED
      BY <2>3, <2>5, ReadKept
  <2> QED
    BY <2>3, <2>4, <2>5, <2>6
<1>6. CASE StoreSession(c)
  BY <1>6 DEF StoreSession, FlowSet
<1>7. CASE Wrap(c)
  BY <1>7 DEF Wrap
<1>8. CASE Throw(c)
  BY <1>8 DEF Throw
<1>9. CASE StepRejected(c)
  BY <1>9 DEF StepRejected
<1>10. CASE DbThrow(c)
  BY <1>10 DEF DbThrow
<1>11. CASE FinishAttempt(c)
  BY <1>11 DEF FinishAttempt, AttemptSet
<1>12. CASE Catch(c)
  BY <1>12 DEF Catch, AttemptSet
<1>13. CASE FinishFlow(c)
  BY <1>13 DEF FinishFlow
<1>14. CASE CatchFlow(c)
  BY <1>14 DEF CatchFlow
<1>15. CASE CatchThrows(c)
  BY <1>15 DEF CatchThrows
<1>16. CASE RunSteps(c)
  <2>1. PICK s \in {"passed", "failed"} :
           /\ Goto(c, "steps", IF s = "passed" THEN "store" ELSE "wrap")
           /\ local' = [local EXCEPT ![c].status = s]
    BY <1>16 DEF RunSteps
  <2>2. pc[c] = "steps" /\ UNCHANGED <<edition, session, attempt>>
    BY <1>16, <2>1 DEF RunSteps
  <2>3. local'[c].status = s /\ local'[c].browser = local[c].browser
    BY <2>1
  <2>4. pc'[c] = IF s = "passed" THEN "store" ELSE "wrap"
    BY <2>1
  <2>5. \A d \in Capture \ {c} : local'[d] = local[d] /\ pc'[d] = pc[d]
    BY <2>1
  <2>6. session'.from # "none" => session'.from # c /\ session'.from \in Capture
    BY <2>2
  <2>7. \A d \in Capture : pc'[d] = "store" => local'[d].status = "passed"
    <3> SUFFICES ASSUME NEW d \in Capture, pc'[d] = "store" PROVE local'[d].status = "passed"
      OBVIOUS
    <3>1. CASE d = c
      <4>1. s = "passed"
        BY <2>4, <3>1
      <4> QED
        BY <2>3, <3>1, <4>1
    <3>2. CASE d # c
      BY <2>5, <3>2
    <3> QED
      BY <3>1, <3>2
  <2>8. session'.from # "none" =>
           /\ pc'[session'.from] \notin {"idle", "insert", "setup", "steps"}
           /\ local'[session'.from].status = "passed"
    BY <2>2, <2>5, <2>6
  <2>9. ReadBefore'
    BY <2>1, <2>2
  <2>10. \A d \in Capture : pc'[d] \in {"flow", "catch flow", "done"} => attempt'[d] # "running"
    BY <2>2, <2>4, <2>5
  <2>11. \A d \in Capture : pc'[d] = "done" => ~ local'[d].browser
    BY <2>4, <2>5
  <2> QED
    BY <2>7, <2>8, <2>9, <2>10, <2>11
<1> QED
  BY <1>1, <1>2, <1>3, <1>4, <1>5, <1>6, <1>7, <1>8, <1>9, <1>10, <1>11, <1>12, <1>13, <1>14, <1>15, <1>16 DEF CaptureStep

(* So does every step of a user: an edit drops the session it makes stale. *)
LEMMA UserPromises == TypeOK /\ Promises /\ User => Promises'
<1> SUFFICES ASSUME TypeOK, Promises, User PROVE Promises'
  OBVIOUS
<1> USE DEF TypeOK, Promises, StoreAfterPass, SessionFromPass, ReadBefore, SettledFirst, BrowserClosed
<1>1. CASE Edit
  <2>1. ReadBefore'
    <3> HIDE DEF TypeOK, ReadBefore
    <3> QED
      BY <1>1, ReadKept DEF Edit
  <2> QED
    BY <1>1, <2>1 DEF Edit, NoSession
<1>2. CASE RemoveAttempts
  BY <1>2 DEF RemoveAttempts
<1>3. CASE RemoveFlow
  <2>1. UNCHANGED <<edition, pc, local, attempt>>
    BY <1>3 DEF RemoveFlow
  <2>2. session' = session \/ session' = NoSession
    BY <1>3 DEF RemoveFlow
  <2>3. CASE session' = session
    BY <2>1, <2>3
  <2>4. CASE session' = NoSession
    BY <2>1, <2>4 DEF NoSession
  <2> QED
    BY <2>2, <2>3, <2>4
<1>4. ASSUME NEW c \in Capture, RemoveCaptureRun(c) PROVE Promises'
  BY <1>4 DEF RemoveCaptureRun
<1> QED
  BY <1>1, <1>2, <1>3, <1>4 DEF User

LEMMA CaptureInvStep == CaptureInv /\ [Next]_vars => CaptureInv'
<1> SUFFICES ASSUME CaptureInv, [Next]_vars PROVE CaptureInv'
  OBVIOUS
<1>1. TypeOK /\ Promises
  BY DEF CaptureInv, Promises
<1>2. ASSUME NEW c \in Capture, CaptureStep(c) PROVE TypeOK' /\ Promises'
  BY <1>1, <1>2, CaptureType, CapturePromises
<1>3. ASSUME User PROVE TypeOK' /\ Promises'
  BY <1>1, <1>3, UserType, UserPromises
<1>4. ASSUME UNCHANGED vars PROVE TypeOK' /\ Promises'
  BY <1>1, <1>4 DEF vars, TypeOK, Promises, StoreAfterPass, SessionFromPass, ReadBefore,
     SettledFirst, BrowserClosed
<1>5. TypeOK' /\ Promises'
  BY <1>2, <1>3, <1>4 DEF Next
<1> QED
  BY <1>5 DEF CaptureInv, Promises

(* The inductive invariant holds of every behaviour. *)
THEOREM CaptureSafe == Spec => []CaptureInv
<1>1. Init => CaptureInv
  BY TypeInit DEF Init, NoSession, CaptureInv, StoreAfterPass, SessionFromPass, ReadBefore,
     SettledFirst, BrowserClosed
<1>2. CaptureInv /\ [Next]_vars => CaptureInv'
  BY CaptureInvStep
<1> QED
  BY <1>1, <1>2, PTL DEF Spec

(* "A failed flow must not store a bad session" (login.ts:117-118), however
   many captures of the flow are in progress and whatever users do. *)
THEOREM SessionsFromPasses == Spec => []SessionFromPass
<1>1. CaptureInv => SessionFromPass
  BY DEF CaptureInv
<1> QED
  BY <1>1, CaptureSafe, PTL

(* A session of steps that the flow no longer has comes of nothing but a capture
   that read them before the edit and stored after it. *)
THEOREM StaleSessionsExplained == Spec => StaleOnlyByOverlap
<1>1. ASSUME CaptureInv, [Next]_vars, ~ Stale, Stale'
      PROVE  \E c \in Capture : StoreSession(c) /\ local[c].edition < edition
  <2> USE DEF Stale
  <2>1. CASE User
    <3>1. session' = session \/ session' = NoSession
      BY <2>1 DEF User, Edit, RemoveAttempts, RemoveFlow, RemoveCaptureRun
    <3>2. session' = session
      BY <1>1, <3>1 DEF NoSession
    <3>3. CASE Edit
      BY <1>1, <3>2, <3>3 DEF Edit, NoSession
    <3>4. CASE ~ Edit
      <4>1. edition' = edition
        BY <2>1, <3>4 DEF User, RemoveAttempts, RemoveFlow, RemoveCaptureRun
      <4> QED
        BY <1>1, <3>2, <4>1
    <3> QED
      BY <3>3, <3>4
  <2>2. ASSUME NEW c \in Capture, CaptureStep(c), ~ StoreSession(c)
        PROVE  UNCHANGED <<session, edition>>
    BY <2>2 DEF CaptureStep, ReadFlow, InsertAttempt, InsertFails, Setup, SetupFails, RunSteps, Wrap,
       FinishAttempt, FinishFlow, Throw, StepRejected, DbThrow, Catch, CatchFlow, CatchThrows
  <2>3. ASSUME NEW c \in Capture, StoreSession(c) PROVE local[c].edition < edition
    <3>1. session' # session /\ edition' = edition
      BY <1>1, <2>3 DEF StoreSession
    <3>2. session'.edition = local[c].edition
      BY <2>3, <3>1 DEF StoreSession, FlowSet
    <3>3. local[c].edition # edition
      BY <1>1, <3>1, <3>2
    <3>4. local[c].edition <= edition
      BY <1>1 DEF CaptureInv, ReadBefore
    <3>5. local[c].edition \in 0 .. MaxEdits /\ edition \in 0 .. MaxEdits
      BY <1>1 DEF CaptureInv, TypeOK, Locals
    <3> QED
      BY <3>3, <3>4, <3>5, LoginCaptureAssumption
  <2>4. CASE UNCHANGED vars
    BY <1>1, <2>4 DEF vars
  <2>5. \E c \in Capture : StoreSession(c)
    BY <1>1, <2>1, <2>2, <2>4 DEF Next
  <2> QED
    BY <2>3, <2>5
<1>2. CaptureInv /\ [Next]_vars
      => [Stale' => Stale \/ \E c \in Capture : StoreSession(c) /\ local[c].edition < edition]_vars
  BY <1>1
<1> QED
  BY <1>2, CaptureSafe, PTL DEF Spec, StaleOnlyByOverlap

(* A capture that returns leaves no browser behind ... *)
THEOREM CaptureBrowsersClosed == Spec => []BrowserClosed
<1>1. CaptureInv => BrowserClosed
  BY DEF CaptureInv
<1> QED
  BY <1>1, CaptureSafe, PTL

(* ... and no attempt that shows as running. *)
THEOREM ReturnsSettle == Spec => []ReturnSettles
<1>1. CaptureInv => ReturnSettles
  BY DEF CaptureInv, SettledFirst, ReturnSettles
<1> QED
  BY <1>1, CaptureSafe, PTL
=============================================================================
