---------------------------- MODULE RunExecProofs ---------------------------
(***************************************************************************)
(* Proofs about RunExec, for any number of steps, retries and faults, with *)
(* or without a login flow, foreign keys and a user who deletes the run.   *)
(* ExecInv is the inductive invariant; it is proved part by part, each     *)
(* part from those before it.                                              *)
(***************************************************************************)
EXTENDS RunExec, TLAPS

(* The locals a new attempt starts with, and the errored ones of an attempt
   without a browser, are well typed. *)
LEMMA NewAttemptType == NewAttempt \in Attempts /\ [NewAttempt EXCEPT !.status = "errored"] \in Attempts
  <1>1. NewAttempt \in Attempts
    BY RunExecAssumption DEF NewAttempt, Attempts, Finished
  <1> QED BY <1>1 DEF Attempts, Finished

(* Writing a status to the row gives it that status or leaves it deleted. *)
LEMMA RowSetType ==
  \A s : /\ row = "deleted" => RowSet(s) = "deleted"
         /\ row # "deleted" => RowSet(s) = s
  BY DEF RowSet

(* An execution starts in its invariant. *)
LEMMA ExecInit == Init => ExecInv
  <1> SUFFICES ASSUME Init PROVE ExecInv
    OBVIOUS
  <1>1. TypeOK
    <2>1. att \in Attempts
      BY NewAttemptType DEF Init
    <2>2. retries \in 0 .. RetryOnFail /\ faults \in 0 .. MaxFaults
      BY RunExecAssumption DEF Init
    <2> QED BY <2>1, <2>2 DEF Init, TypeOK
  <1>2. IndexInv /\ ControlInv /\ LoopInv /\ ShotsInv /\ BudgetSpent
    BY DEF Init, IndexInv, ControlInv, LoopInv, ShotsInv, BudgetSpent, Finished, Committed
  <1>3. pc = "done" => row \in Finished \cup {"deleted"} \/ faults > 0
    BY DEF Init
  <1> QED BY <1>1, <1>2, <1>3 DEF ExecInv

(* Every step keeps the types of the locals of an attempt. *)
LEMMA AttStep == TypeOK /\ IndexInv /\ [Next]_vars => att' \in Attempts
  <1> SUFFICES ASSUME TypeOK, IndexInv, [Next]_vars PROVE att' \in Attempts
    OBVIOUS
  <1>1. att \in Attempts
    BY DEF TypeOK
  <1>2. CASE att' = att
    BY <1>1, <1>2
  <1>3. CASE NoBrowser("start") \/ NoBrowser("launch") \/ Launch
    BY <1>3, NewAttemptType DEF NoBrowser, Launch
  <1>4. CASE StepEnds
    <2>1. PICK o \in {"passed", "failed", "skipped"}, exit \in BOOLEAN :
             att' = [att EXCEPT !.step = o, !.stop = exit,
                                !.status = IF o = "failed" THEN "failed" ELSE att.status]
      BY <1>4 DEF StepEnds
    <2> QED BY <1>1, <2>1 DEF Attempts, Finished
  <1>5. CASE StepRetried
    BY <1>1, <1>5, RunExecAssumption DEF StepRetried, Attempts
  <1>6. CASE PageError
    BY <1>1, <1>6 DEF PageError, Attempts
  <1>7. CASE Persist
    <2>1. att.idx \in Nat /\ att.idx < Steps
      BY <1>1, <1>7 DEF Persist, IndexInv, Attempts
    <2>2. att.idx + 1 \in 0 .. Steps /\ 0 \in 0 .. StepRetries
      BY <2>1, RunExecAssumption
    <2>3. att' = [att EXCEPT !.idx = att.idx + 1, !.tries = 0]
      BY <1>7 DEF Persist
    <2> QED BY <1>1, <2>2, <2>3 DEF Attempts
  <1>8. CASE Wrap
    BY <1>1, <1>8 DEF Wrap, Attempts, Finished
  <1> QED
    BY <1>2, <1>3, <1>4, <1>5, <1>6, <1>7, <1>8
       DEF Next, Worker, Load, Throw, DbThrow, MarkRunning, ClearAttempt, Ready, Screenshot,
           PersistRejected, Reauth, ReauthDone, Retry, Settle, Finalize, Post, Catch,
           User, RemoveRows, RemoveObjects, RemoveRow, RemoveRejected, vars

(* Every step keeps the counters within their bounds. *)
LEMMA CountersStep ==
  TypeOK /\ [Next]_vars => retries' \in 0 .. RetryOnFail /\ faults' \in 0 .. MaxFaults
  <1> SUFFICES ASSUME TypeOK, [Next]_vars
               PROVE  retries' \in 0 .. RetryOnFail /\ faults' \in 0 .. MaxFaults
    OBVIOUS
  <1>1. retries \in 0 .. RetryOnFail /\ faults \in 0 .. MaxFaults
    BY DEF TypeOK
  <1>2. retries' = retries \/ (retries < RetryOnFail /\ retries' = retries + 1)
    BY DEF Next, Worker, Load, NoBrowser, Throw, DbThrow, MarkRunning, ClearAttempt, Launch, Ready,
           StepEnds, StepRetried, Screenshot, Persist, PersistRejected, Wrap, Reauth, ReauthDone,
           Retry, RetriesLeft, Settle, Finalize, Post, Catch, PageError,
           User, RemoveRows, RemoveObjects, RemoveRow, RemoveRejected, vars, plan
  <1>3. faults' = faults \/ (faults < MaxFaults /\ faults' = faults + 1)
    BY DEF Next, Worker, Load, NoBrowser, Throw, DbThrow, MarkRunning, ClearAttempt, Launch, Ready,
           StepEnds, StepRetried, Screenshot, Persist, PersistRejected, Wrap, Reauth, ReauthDone,
           Retry, Settle, Finalize, Post, Catch, PageError, Fault, NoFault,
           User, RemoveRows, RemoveObjects, RemoveRow, RemoveRejected, vars
  <1> QED BY <1>1, <1>2, <1>3, RunExecAssumption

(* Every step keeps the types. *)
LEMMA TypeStep == TypeOK /\ IndexInv /\ [Next]_vars => TypeOK'
  <1> SUFFICES ASSUME TypeOK, IndexInv, [Next]_vars PROVE TypeOK'
    OBVIOUS
  <1>c. att' \in Attempts /\ retries' \in 0 .. RetryOnFail /\ faults' \in 0 .. MaxFaults
    BY AttStep, CountersStep
  <1> USE <1>c DEF db, plan
  <1>1. CASE Load \/ ReauthDone \/ Ready \/ Settle \/ NoBrowser("start") \/ NoBrowser("launch") \/ Launch
    BY <1>1 DEF Load, ReauthDone, Ready, Settle, NoBrowser, Launch, Goto, NextStep, TypeOK
  <1>2. CASE Throw \/ DbThrow \/ PersistRejected
    BY <1>2 DEF Throw, DbThrow, PersistRejected, Fault, TypeOK
  <1>3. CASE MarkRunning \/ Finalize \/ Post \/ Catch
    <2>1. att.status \in Finished
      BY DEF TypeOK, Attempts
    <2> QED BY <1>3, <2>1 DEF MarkRunning, Finalize, Post, Catch, Goto, RowSet, Fault, NoFault, TypeOK, Finished
  <1>4. CASE ClearAttempt
    BY <1>4 DEF ClearAttempt, Goto, Fault, NoFault, TypeOK
  <1>5. CASE StepEnds \/ StepRetried \/ PageError \/ Wrap
    BY <1>5 DEF StepEnds, StepRetried, PageError, Wrap, Goto, TypeOK
  <1>6. CASE Screenshot
    <2>1. att.idx \in Index
      <3>1. att.idx \in 0 .. Steps /\ att.idx < Steps
        BY <1>6 DEF Screenshot, Goto, IndexInv, TypeOK, Attempts
      <3> QED BY <3>1, RunExecAssumption DEF Index
    <2> QED BY <1>6, <2>1 DEF Screenshot, Goto, TypeOK
  <1>7. CASE Persist
    <2>1. [idx |-> att.idx, status |-> att.step] \in StepRows
      <3>1. /\ att.idx \in 0 .. Steps /\ att.idx < Steps
            /\ att.step \in {"passed", "failed", "skipped"}
        BY <1>7 DEF Persist, IndexInv, TypeOK, Attempts
      <3>2. att.idx \in Index
        BY <3>1, RunExecAssumption DEF Index
      <3> QED BY <3>1, <3>2 DEF StepRows
    <2> QED BY <1>7, <2>1 DEF Persist, NextStep, TypeOK
  <1>8. CASE Reauth \/ Retry
    BY <1>8 DEF Reauth, Retry, RetriesLeft, Goto, TypeOK
  <1>9. CASE User
    BY <1>9 DEF User, RemoveRows, RemoveObjects, RemoveRow, RemoveRejected, TypeOK
  <1>10. CASE UNCHANGED vars
    BY <1>10 DEF vars, TypeOK
  <1> QED
    BY <1>1, <1>2, <1>3, <1>4, <1>5, <1>6, <1>7, <1>8, <1>9, <1>10 DEF Next, Worker

-----------------------------------------------------------------------------
(* The loop is never past the steps. *)
LEMMA IndexStep == TypeOK /\ IndexInv /\ [Next]_vars => IndexInv'
  <1> SUFFICES ASSUME TypeOK, IndexInv, [Next]_vars PROVE IndexInv'
    OBVIOUS
  <1>t. att \in Attempts
    BY DEF TypeOK
  <1>1. CASE Load \/ NoBrowser("start") \/ NoBrowser("launch") \/ Throw \/ DbThrow \/ PersistRejected
    BY <1>1 DEF Load, NoBrowser, Throw, DbThrow, PersistRejected, Goto, IndexInv
  <1>2. CASE MarkRunning \/ ClearAttempt \/ Reauth \/ ReauthDone \/ Retry \/ Settle
    BY <1>2 DEF MarkRunning, ClearAttempt, Reauth, ReauthDone, Retry, Settle, Goto, IndexInv
  <1>3. CASE Finalize \/ Post \/ Catch \/ Wrap
    BY <1>3 DEF Finalize, Post, Catch, Wrap, Goto, IndexInv
  <1>4. CASE Launch
    BY <1>4 DEF Launch, Goto, IndexInv, NewAttempt
  <1>5. CASE Ready
    BY <1>5 DEF Ready, NextStep, Goto, IndexInv
  <1>6. CASE StepEnds \/ StepRetried \/ PageError
    <2>1. att'.idx = att.idx
      BY <1>t, <1>6 DEF StepEnds, StepRetried, PageError, Attempts
    <2> QED BY <1>6, <2>1 DEF StepEnds, StepRetried, PageError, Goto, IndexInv
  <1>7. CASE Screenshot
    BY <1>7 DEF Screenshot, Goto, IndexInv
  <1>8. CASE Persist
    <2>1. att'.idx = att.idx + 1 /\ att.idx \in 0 .. Steps
      BY <1>t, <1>8 DEF Persist, Attempts
    <2> QED BY <1>8, <2>1 DEF Persist, NextStep, IndexInv
  <1>9. CASE User \/ UNCHANGED vars
    BY <1>9 DEF User, RemoveRows, RemoveObjects, RemoveRow, RemoveRejected, vars, IndexInv
  <1> QED
    BY <1>1, <1>2, <1>3, <1>4, <1>5, <1>6, <1>7, <1>8, <1>9 DEF Next, Worker

(* The actions of the worker that write neither the row nor the alert. *)
Silent ==
    \/ Load \/ Throw \/ DbThrow \/ NoBrowser("start") \/ ClearAttempt \/ NoBrowser("launch")
    \/ Launch \/ Ready \/ StepEnds \/ StepRetried \/ Screenshot \/ Persist \/ PersistRejected
    \/ Wrap \/ Reauth \/ ReauthDone \/ Retry \/ Settle \/ PageError

(* They do not happen once an execution has ended, nor end it. *)
LEMMA SilentStep ==
  ASSUME Silent
  PROVE  /\ UNCHANGED <<row, alert>>
         /\ pc \notin {"post", "done"} /\ pc' \notin {"post", "done"}
  BY DEF Silent, Load, Throw, DbThrow, NoBrowser, ClearAttempt, Launch, Ready, StepEnds, StepRetried,
         Screenshot, Persist, PersistRejected, Wrap, Reauth, ReauthDone, Retry, Settle, PageError,
         Goto, NextStep, db

(* Where the browser is, what the row and the alert say. *)
LEMMA ControlStep == TypeOK /\ ControlInv /\ [Next]_vars => ControlInv'
  <1> SUFFICES ASSUME TypeOK, ControlInv, [Next]_vars PROVE ControlInv'
    OBVIOUS
  <1> DEFINE Open == browser => pc \in {"context", "step", "shot", "persist", "wrap"}
             Said == /\ row \in Finished => pc \in {"post", "done"}
                     /\ alert # "none" => pc = "done"
                     /\ pc = "post" => row \in {att.status, "deleted"}
                     /\ pc = "done" /\ row \in {"passed", "failed"} => att.status = row
                     /\ alert \in Finished => alert = att.status /\ row \in {att.status, "deleted"}
  <1>t. att.status \in Finished
    BY DEF TypeOK, Attempts
  <1>1. CASE Silent
    <2>1. Said'
      BY <1>1, SilentStep DEF ControlInv, Finished
    <2>2. Open'
      BY <1>1 DEF Silent, Load, Throw, DbThrow, NoBrowser, ClearAttempt, Launch, Ready, StepEnds,
                  StepRetried, Screenshot, Persist, PersistRejected, Wrap, Reauth, ReauthDone, Retry,
                  Settle, PageError, Goto, NextStep, ControlInv
    <2> QED BY <2>1, <2>2 DEF ControlInv
  <1>2. CASE MarkRunning
    BY <1>2 DEF MarkRunning, Goto, RowSet, ControlInv, Finished
  <1>3. CASE Finalize
    BY <1>t, <1>3 DEF Finalize, Goto, RowSet, ControlInv, Finished
  <1>4. CASE Post
    BY <1>t, <1>4 DEF Post, Goto, ControlInv, Finished, db
  <1>5. CASE Catch
    BY <1>5 DEF Catch, Goto, RowSet, ControlInv, Finished
  <1>6. CASE User
    BY <1>6 DEF User, RemoveRows, RemoveObjects, RemoveRow, RemoveRejected, ControlInv, Finished, db
  <1>7. CASE UNCHANGED vars
    BY <1>7 DEF vars, db, ControlInv
  <1> QED
    BY <1>1, <1>2, <1>3, <1>4, <1>5, <1>6, <1>7 DEF Next, Worker, Silent

-----------------------------------------------------------------------------
(* What is said of the rows stays true when neither they nor the locals it
   speaks of change. *)
LEMMA SameRows ==
  ASSUME rows' = rows, att'.idx = att.idx, att'.stop = att.stop, att'.status = att.status,
         att.js => att'.js
  PROVE  /\ RowsUpTo(att.idx) => RowsUpTo(att.idx)'
         /\ NoneFailed => NoneFailed'
         /\ Explained => Explained'
  BY DEF RowsUpTo, NoneFailed, Explained

(* Inserting the row of the next step. *)
LEMMA InsertedRow ==
  ASSUME NEW n \in Nat, NEW st, RowsUpTo(n), rows' = rows \cup {[idx |-> n, status |-> st]}
  PROVE  {r.idx : r \in rows'} = 0 .. n /\ \A q, r \in rows' : q.idx = r.idx => q = r
  <1>1. \A r \in rows : r.idx \in 0 .. (n - 1)
    BY DEF RowsUpTo
  <1>2. \A i \in 0 .. (n - 1) : \E r \in rows : r.idx = i
    BY DEF RowsUpTo
  <1> DEFINE new == [idx |-> n, status |-> st]
  <1>3. new.idx = n
    OBVIOUS
  <1> HIDE DEF new
  <1>4. rows' = rows \cup {new}
    BY DEF new
  <1>5. 0 .. n = (0 .. (n - 1)) \cup {n}
    OBVIOUS
  <1>6. \A r \in rows : r.idx # n
    BY <1>1
  <1>7. {r.idx : r \in rows'} = 0 .. n
    <2>1. \A i \in 0 .. n : \E r \in rows' : r.idx = i
      BY <1>2, <1>3, <1>4, <1>5
    <2>2. \A r \in rows' : r.idx \in 0 .. n
      BY <1>1, <1>3, <1>4, <1>5
    <2> QED BY <2>1, <2>2
  <1>8. \A q, r \in rows' : q.idx = r.idx => q = r
    BY <1>3, <1>4, <1>6 DEF RowsUpTo
  <1> QED BY <1>7, <1>8

(* The rows of an attempt explain what it has found so far. *)
LEMMA LoopStep ==
  TypeOK /\ IndexInv /\ ControlInv /\ LoopInv /\ [Next]_vars => LoopInv'
  <1> SUFFICES ASSUME TypeOK, IndexInv, ControlInv, LoopInv, [Next]_vars, remover' = "idle"
               PROVE  LoopInv'
    BY DEF LoopInv
  <1>t. att \in Attempts
    BY DEF TypeOK
  <1>1. remover = "idle" /\ ~ User
    BY DEF Next, Worker, User, Load, Throw, DbThrow, NoBrowser, MarkRunning, ClearAttempt, Launch, Ready,
           StepEnds, StepRetried, Screenshot, Persist, PersistRejected, Wrap, Reauth, ReauthDone, Retry,
           Settle, Finalize, Post, Catch, PageError, vars,
           RemoveRows, RemoveObjects, RemoveRow, RemoveRejected
  <1>2. CASE Load \/ Throw \/ DbThrow \/ PersistRejected \/ MarkRunning \/ Reauth \/ ReauthDone \/ Retry
    BY <1>2 DEF Load, Throw, DbThrow, PersistRejected, MarkRunning, Reauth, ReauthDone, Retry, Goto,
                LoopInv, Committed
  <1>3. CASE NoBrowser("start") \/ NoBrowser("launch")
    <2>1. att'.status = "errored" /\ pc' = "decide"
      BY <1>3 DEF NoBrowser, Goto, NewAttempt
    <2> QED BY <2>1 DEF LoopInv, Committed
  <1>4. CASE ClearAttempt
    BY <1>4 DEF ClearAttempt, Goto, LoopInv, Committed
  <1>5. CASE Launch
    BY <1>1, <1>5 DEF Launch, Goto, LoopInv, Committed, db
  <1>6. CASE Ready
    <2>1. /\ rows' = {} /\ att' = NewAttempt
          /\ pc' = IF 0 < Steps THEN "step" ELSE "wrap"
      BY <1>1, <1>6 DEF Ready, Goto, NextStep, LoopInv, db
    <2>2. RowsUpTo(0)' /\ NoneFailed'
      BY <2>1 DEF RowsUpTo, NoneFailed
    <2>3. att'.idx = 0 /\ att'.status = "passed" /\ att'.stop = FALSE
      BY <2>1 DEF NewAttempt
    <2>4. pc' = "wrap" => att'.idx = Steps
      BY <2>1, <2>3, RunExecAssumption
    <2>5. RowsUpTo(att.idx)'
      BY <2>2, <2>3 DEF RowsUpTo
    <2>6. pc' = "wrap" => Explained'
      BY <2>2, <2>3, <2>4, <2>5 DEF Explained, NoneFailed
    <2> QED BY <2>1, <2>2, <2>3, <2>5, <2>6 DEF LoopInv, Committed
  <1>7. CASE StepEnds
    <2>1. PICK o \in {"passed", "failed", "skipped"}, exit \in BOOLEAN :
             att' = [att EXCEPT !.step = o, !.stop = exit,
                                !.status = IF o = "failed" THEN "failed" ELSE att.status]
      BY <1>7 DEF StepEnds
    <2>2. att.status = "passed" /\ RowsUpTo(att.idx) /\ NoneFailed
      BY <1>1, <1>7 DEF StepEnds, Goto, LoopInv
    <2>3. /\ att'.idx = att.idx
          /\ att'.status = IF att'.step = "failed" THEN "failed" ELSE "passed"
      BY <1>t, <2>1, <2>2 DEF Attempts
    <2>4. RowsUpTo(att.idx)' /\ NoneFailed'
      BY <1>7, <2>2, <2>3 DEF StepEnds, db, RowsUpTo, NoneFailed
    <2> QED BY <1>7, <2>3, <2>4 DEF StepEnds, Goto, LoopInv, Committed
  <1>8. CASE StepRetried \/ PageError \/ Screenshot
    <2>1. /\ rows' = rows /\ row' = row
          /\ att'.idx = att.idx /\ att'.stop = att.stop /\ att'.status = att.status
          /\ att'.step = att.step /\ (att.js => att'.js)
      BY <1>t, <1>8 DEF StepRetried, PageError, Screenshot, db, Attempts
    <2>2. /\ pc \in {"step", "shot", "persist"} /\ pc' \in {"step", "shot", "persist"}
          /\ pc' = "step" => pc = "step"
          /\ pc' # "step" => pc # "step"
      BY <1>8 DEF StepRetried, PageError, Screenshot, Goto
    <2>3. RowsUpTo(att.idx)' /\ NoneFailed'
      BY <1>1, <2>1, <2>2, SameRows DEF LoopInv
    <2> QED BY <1>1, <2>1, <2>2, <2>3 DEF LoopInv, Committed
  <1>9. CASE Persist
    <2>1. /\ RowsUpTo(att.idx) /\ NoneFailed /\ att.idx < Steps /\ att.idx \in Nat
          /\ att.status = IF att.step = "failed" THEN "failed" ELSE "passed"
      BY <1>t, <1>1, <1>9 DEF Persist, LoopInv, IndexInv, Attempts
    <2>2. /\ att'.idx = att.idx + 1 /\ att'.stop = att.stop /\ att'.status = att.status
          /\ att'.step = att.step /\ att'.js = att.js
      BY <1>t, <1>9 DEF Persist, Attempts
    <2> DEFINE new == [idx |-> att.idx, status |-> att.step]
    <2>3. rows' = rows \cup {new} /\ new.status = att.step /\ new.idx = att.idx
      BY <1>9 DEF Persist
    <2> HIDE DEF new
    <2>4. RowsUpTo(att.idx)'
      <3>1. {r.idx : r \in rows'} = 0 .. att.idx /\ \A q, r \in rows' : q.idx = r.idx => q = r
        BY <2>1, <2>3, InsertedRow DEF new
      <3>2. att'.idx - 1 = att.idx
        BY <2>1, <2>2
      <3> QED BY <3>1, <3>2 DEF RowsUpTo
    <2>5. \A r \in rows' : r.status = "failed" => r = new
      BY <2>1, <2>3 DEF NoneFailed
    <2>6. CASE att.step = "failed"
      <3>1. pc' = "wrap" /\ att'.status = "failed"
        BY <1>9, <2>1, <2>2, <2>6 DEF Persist
      <3>2. ~ NoneFailed'
        BY <2>3, <2>6 DEF NoneFailed
      <3>3. \A r \in rows' : r.status = "failed" => r.idx = att'.idx - 1
        BY <2>1, <2>2, <2>3, <2>5
      <3>4. Explained'
        BY <2>4, <3>1, <3>2, <3>3 DEF Explained
      <3> QED BY <3>1, <3>4 DEF LoopInv, Committed
    <2>7. CASE att.step # "failed"
      <3>1. /\ att'.status = "passed"
            /\ pc' = IF att.stop THEN "wrap" ELSE IF att.idx + 1 < Steps THEN "step" ELSE "wrap"
        BY <1>9, <2>1, <2>2, <2>7 DEF Persist, NextStep
      <3>2. NoneFailed'
        BY <2>3, <2>5, <2>7 DEF NoneFailed
      <3>3. CASE pc' = "step"
        <4>1. att'.stop = FALSE
          BY <1>t, <2>2, <3>1, <3>3 DEF Attempts
        <4> QED BY <2>4, <3>1, <3>2, <3>3, <4>1 DEF LoopInv, Committed
      <3>4. CASE pc' = "wrap"
        <4>1. att'.stop \/ att'.idx = Steps
          BY <2>1, <2>2, <3>1, <3>4, RunExecAssumption
        <4>2. Explained'
          BY <2>4, <3>1, <3>2, <4>1 DEF Explained, NoneFailed
        <4> QED BY <3>1, <3>4, <4>2 DEF LoopInv, Committed
      <3> QED BY <3>1, <3>3, <3>4
    <2> QED BY <2>6, <2>7
  <1>10. CASE Wrap
    <2>1. /\ att'.idx = att.idx /\ att'.stop = att.stop /\ att'.js = att.js
          /\ att'.status = IF att.status = "passed" /\ att.js THEN "failed" ELSE att.status
          /\ rows' = rows
      BY <1>t, <1>10 DEF Wrap, db, Attempts
    <2>2. Explained /\ att.status \in {"passed", "failed"} /\ pc' = "decide"
      BY <1>1, <1>10 DEF Wrap, Goto, LoopInv
    <2>3. Explained' /\ (att'.status = "passed" => ~ att'.js)
      BY <2>1, <2>2 DEF Explained, RowsUpTo, NoneFailed
    <2> QED BY <2>2, <2>3 DEF LoopInv, Committed
  <1>11. CASE Settle \/ Finalize \/ Post
    <2>1. /\ pc \in {"decide", "finalize", "post"} /\ pc' \in {"finalize", "post", "done"}
          /\ pc' = "done" => pc = "post" /\ row' = row
          /\ rows' = rows /\ att' = att
          /\ pc' = "post" => row' = RowSet(att.status)
      BY <1>11 DEF Settle, Finalize, Post, Goto, db
    <2>2. pc' \in {"finalize", "post"} /\ att'.status # "errored"
            => Explained' /\ (att'.status = "passed" => ~ att'.js)
      BY <1>1, <2>1, SameRows DEF LoopInv
    <2>3. Committed' => att.status # "errored"
      BY <2>1 DEF Committed, ControlInv, RowSet
    <2>4. Committed' => Explained' /\ (att'.status = "passed" => ~ att'.js)
      BY <1>1, <2>1, <2>3, SameRows DEF LoopInv
    <2> QED BY <2>1, <2>2, <2>4 DEF LoopInv
  <1>12. CASE Catch
    <2>1. pc' = "done" /\ row' \notin {"passed", "failed"}
      BY <1>12 DEF Catch, Goto, RowSet, ControlInv, Finished
    <2> QED BY <2>1 DEF LoopInv, Committed
  <1>13. CASE UNCHANGED vars
    <2>1. UNCHANGED <<pc, row, rows, att>>
      BY <1>13 DEF vars, db
    <2> QED BY <1>1, <2>1 DEF LoopInv, Committed, Explained, RowsUpTo, NoneFailed
  <1> QED
    BY <1>1, <1>2, <1>3, <1>4, <1>5, <1>6, <1>7, <1>8, <1>9, <1>10, <1>11, <1>12, <1>13 DEF Next, Worker

-----------------------------------------------------------------------------
(* A failure is settled when no retry is left. *)
LEMMA BudgetStep == TypeOK /\ BudgetSpent /\ [Next]_vars => BudgetSpent'
  <1> SUFFICES ASSUME TypeOK, BudgetSpent, [Next]_vars PROVE BudgetSpent'
    OBVIOUS
  <1>1. CASE Settle
    <2>1. retries' = retries /\ att' = att /\ (att.status = "failed" => ~ (retries < RetryOnFail))
      BY <1>1 DEF Settle, RetriesLeft, plan
    <2>2. retries \in 0 .. RetryOnFail
      BY DEF TypeOK
    <2> QED BY <2>1, <2>2, RunExecAssumption DEF BudgetSpent
  <1>2. CASE Finalize \/ User \/ UNCHANGED vars
    BY <1>2 DEF Finalize, User, RemoveRows, RemoveObjects, RemoveRow, RemoveRejected, Goto, vars, plan,
                BudgetSpent
  <1>3. CASE pc' \notin {"finalize", "post"}
    BY <1>3 DEF BudgetSpent
  <1> QED
    BY <1>1, <1>2, <1>3
       DEF Next, Worker, Load, Throw, DbThrow, NoBrowser, MarkRunning, ClearAttempt, Launch, Ready,
           StepEnds, StepRetried, Screenshot, Persist, PersistRejected, Wrap, Reauth, ReauthDone,
           Retry, Post, Catch, PageError, Goto, NextStep

(* An attempt starts without screenshots and takes one for each step it does. *)
LEMMA ShotsStep == TypeOK /\ ControlInv /\ ShotsInv /\ [Next]_vars => ShotsInv'
  <1> SUFFICES ASSUME TypeOK, ControlInv, ShotsInv, [Next]_vars, faults' = 0 PROVE ShotsInv'
    BY DEF ShotsInv
  <1>0. faults' \in {faults, faults + 1}
    BY DEF Next, Worker, Load, Throw, DbThrow, NoBrowser, MarkRunning, ClearAttempt, Launch, Ready,
       StepEnds, StepRetried, Screenshot, Persist, PersistRejected, Wrap, Reauth, ReauthDone, Retry, Settle, Finalize, Post, Catch,
       PageError, User, RemoveRows, RemoveObjects, RemoveRow, RemoveRejected, vars, Fault, NoFault
  <1>1. faults = 0 /\ att.idx \in Nat /\ att.status \in Finished
    BY <1>0, RunExecAssumption DEF TypeOK, Attempts
  <1>2. CASE ClearAttempt \/ Launch
    BY <1>1, <1>2 DEF ClearAttempt, Launch, Goto, db, Fault, ShotsInv, Committed
  <1>3. CASE Ready
    BY <1>1, <1>3 DEF Ready, Goto, NextStep, db, ShotsInv, ShotsUpTo, Committed
  <1>4. CASE StepEnds \/ StepRetried \/ PageError \/ Wrap
    <2>1. shots' = shots /\ att'.idx = att.idx /\ faults' = faults
      BY <1>4 DEF StepEnds, StepRetried, PageError, Wrap, db, TypeOK, Attempts
    <2>2. \/ pc = "step" /\ pc' \in {"step", "shot"}
          \/ pc \in {"step", "shot", "persist"} /\ pc' = pc
          \/ pc = "wrap" /\ pc' = "decide"
      BY <1>4 DEF StepEnds, StepRetried, PageError, Wrap, Goto
    <2> QED BY <1>1, <2>1, <2>2 DEF ShotsInv, ShotsUpTo, Committed
  <1>5. CASE Screenshot
    <2>1. shots' \subseteq shots \cup {att.idx} /\ att' = att /\ pc = "shot" /\ pc' = "persist"
      BY <1>5 DEF Screenshot, Goto
    <2>2. \A i \in shots : i < att.idx
      BY <1>1, <2>1 DEF ShotsInv, ShotsUpTo
    <2>3. \A i \in shots' : i < att.idx + 1
      BY <1>1, <2>1, <2>2 DEF TypeOK, Index
    <2> QED BY <2>1, <2>3 DEF ShotsInv, ShotsUpTo, Committed
  <1>6. CASE Persist
    <2>1. shots' = shots /\ att'.idx = att.idx + 1 /\ pc = "persist" /\ pc' \in {"wrap", "step"}
      BY <1>6 DEF Persist, NextStep, TypeOK, Attempts
    <2> QED BY <1>1, <2>1 DEF ShotsInv, ShotsUpTo, Committed
  <1>7. CASE Settle \/ Finalize \/ Post
    <2>1. /\ shots' = shots /\ att' = att /\ pc \in {"decide", "finalize", "post"}
          /\ pc' \in {"finalize", "post", "done"}
          /\ Committed' => att.status # "errored"
      BY <1>1, <1>7 DEF Settle, Finalize, Post, Goto, db, RowSet, Committed, ControlInv
    <2> QED BY <1>1, <2>1 DEF ShotsInv, ShotsUpTo
  <1>8. CASE User \/ UNCHANGED vars
    <2>1. /\ shots' \subseteq shots /\ att' = att /\ pc' = pc
          /\ Committed' => Committed
      BY <1>8 DEF User, RemoveRows, RemoveObjects, RemoveRow, RemoveRejected, vars, db, Committed
    <2> QED BY <1>1, <2>1 DEF ShotsInv, ShotsUpTo
  <1>9. CASE NoBrowser("start") \/ NoBrowser("launch")
    <2>1. att'.status = "errored" /\ pc' = "decide"
      BY <1>9 DEF NoBrowser, Goto, NewAttempt
    <2> QED BY <2>1 DEF ShotsInv, Committed
  <1>10. CASE Catch
    <2>1. row' \notin {"passed", "failed"} /\ pc' = "done"
      BY <1>10 DEF Catch, Goto, RowSet, ControlInv, Finished
    <2> QED BY <2>1 DEF ShotsInv, Committed
  <1>11. CASE pc' \in {"start", "clear", "catch", "reauth"}
    BY <1>11 DEF ShotsInv, Committed
  <1> QED
    BY <1>2, <1>3, <1>4, <1>5, <1>6, <1>7, <1>8, <1>9, <1>10, <1>11
       DEF Next, Worker, Load, Throw, DbThrow, MarkRunning, PersistRejected, Reauth, ReauthDone, Retry, Goto

(* What an execution that has ended leaves in the row. *)
EndedWell == pc = "done" => row \in Finished \cup {"deleted"} \/ faults > 0

(* It has finished the row, or the update of the catch failed. *)
LEMMA EndStep == TypeOK /\ ControlInv /\ EndedWell /\ [Next]_vars => EndedWell'
  <1> SUFFICES ASSUME TypeOK, ControlInv, EndedWell, [Next]_vars PROVE EndedWell'
    OBVIOUS
  <1>1. CASE Silent \/ MarkRunning \/ Finalize
    BY <1>1, SilentStep DEF MarkRunning, Finalize, Goto, EndedWell
  <1>2. CASE Post
    <2>1. att.status \in Finished
      BY DEF TypeOK, Attempts
    <2> QED BY <1>2, <2>1 DEF Post, Goto, db, ControlInv, EndedWell
  <1>3. CASE Catch
    <2>1. faults \in Nat
      BY RunExecAssumption DEF TypeOK
    <2>2. row' \in {"errored", "deleted"} \/ faults' = faults + 1
      BY <1>3 DEF Catch, RowSet, Fault
    <2>3. CASE row' \in {"errored", "deleted"}
      BY <2>3 DEF EndedWell, Finished
    <2>4. CASE faults' = faults + 1
      BY <2>1, <2>4 DEF EndedWell
    <2> QED BY <2>2, <2>3, <2>4
  <1>4. CASE User \/ UNCHANGED vars
    BY <1>4 DEF User, RemoveRows, RemoveObjects, RemoveRow, RemoveRejected, vars, db, EndedWell
  <1> QED BY <1>1, <1>2, <1>3, <1>4 DEF Next, Worker, Silent

(* The invariant of an execution: whatever throws, whatever fails, whenever
   the run is deleted. *)
THEOREM ExecSafe == Spec => []ExecInv
  <1>1. ExecInv /\ [Next]_vars => ExecInv'
    BY TypeStep, IndexStep, ControlStep, LoopStep, ShotsStep, BudgetStep, EndStep DEF ExecInv, EndedWell
  <1> QED BY ExecInit, <1>1, PTL DEF Spec

(* The step rows under a committed verdict explain it (run.ts:206-223, 306-395):
   retries, re-authentication and step retries never mix two attempts. *)
THEOREM VerdictsExplained == Spec => []VerdictExplained
  <1>1. ExecInv => VerdictExplained
    <2> SUFFICES ASSUME ExecInv, Committed, remover = "idle"
                 PROVE  /\ {r.idx : r \in rows} = 0 .. (att.idx - 1)
                        /\ \A q, r \in rows : q.idx = r.idx => q = r
                        /\ \A r \in rows : r.status = "failed" => r.idx = att.idx - 1
                        /\ row = "passed" =>
                              /\ \A r \in rows : r.status # "failed"
                              /\ att.stop \/ att.idx = Steps
                              /\ ~ att.js
                        /\ row = "failed" => att.js \/ \E r \in rows : r.status = "failed"
      BY DEF VerdictExplained
    <2>1. Explained /\ (att.status = "passed" => ~ att.js)
      BY DEF ExecInv, LoopInv
    <2>2. att.status = row
      BY DEF ExecInv, ControlInv, Committed
    <2> QED BY <2>1, <2>2 DEF Explained, RowsUpTo, NoneFailed
  <1> QED BY ExecSafe, <1>1, PTL

(* No screenshot of an earlier, longer attempt survives a verdict while the object
   store answers (209-213). *)
THEOREM ShotsCurrent == Spec => []NoStaleScreenshot
  <1>1. ExecInv => NoStaleScreenshot
    BY DEF ExecInv, ShotsInv, ShotsUpTo, NoStaleScreenshot
  <1> QED BY ExecSafe, <1>1, PTL

(* The browser never outlives the execution (420-424). *)
THEOREM BrowsersClosed == Spec => []BrowserClosed
  <1>1. ExecInv => BrowserClosed
    BY DEF ExecInv, ControlInv, BrowserClosed
  <1> QED BY ExecSafe, <1>1, PTL

(* An alert tells of the verdict that was committed. *)
THEOREM AlertsMatch == Spec => []AlertMatchesRow
  <1>1. ExecInv => AlertMatchesRow
    BY DEF ExecInv, ControlInv, AlertMatchesRow
  <1> QED BY ExecSafe, <1>1, PTL

(* A failure is committed after the whole retry budget (133-153). *)
THEOREM BudgetsSpent == Spec => []BudgetSpent
  <1>1. ExecInv => BudgetSpent
    BY DEF ExecInv
  <1> QED BY ExecSafe, <1>1, PTL

(* An execution that has ended has finished its row (91-108). *)
THEOREM RowsFinished == Spec => []EndsFinished
  <1>1. ExecInv => EndsFinished
    BY DEF ExecInv, EndsFinished
  <1> QED BY ExecSafe, <1>1, PTL

(* Nothing that follows a committed verdict overwrites it (169-170). *)
THEOREM VerdictsKept == Spec => VerdictKept
  <1>1. ExecInv /\ [Next]_vars => [(row \in Finished) => row' \in {row, "deleted"}]_vars
    <2> SUFFICES ASSUME ExecInv, [Next]_vars, row \in Finished PROVE row' \in {row, "deleted"}
      OBVIOUS
    <2>1. pc \in {"post", "done"}
      BY DEF ExecInv, ControlInv
    <2>2. ~ Silent
      BY <2>1, SilentStep
    <2> QED BY <2>1, <2>2 DEF Next, Worker, Silent, MarkRunning, Finalize, Post, Catch, Goto,
               User, RemoveRows, RemoveObjects, RemoveRow, RemoveRejected, vars, db
  <1> QED BY ExecSafe, <1>1, PTL DEF Spec, VerdictKept
=============================================================================
