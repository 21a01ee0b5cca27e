------------------------------ MODULE RunQueue ------------------------------
(***************************************************************************)
(* From "run now" to a verdict: the producers of apps/web (insert a run    *)
(* row, then add a job), BullMQ as packages/queue configures it, and the   *)
(* processor of apps/worker/src/queue.ts that serializes runs per          *)
(* application and defers the ones that find their application busy.       *)
(*                                                                         *)
(* The lock is taken at the level AppLock proves it implements: a key has  *)
(* one holder; the key of a holder that died is free again only when its   *)
(* lease has run out.  What an attempt does is in RunExec; here a run row  *)
(* only moves between absent, queued, running and finished.                *)
(***************************************************************************)
EXTENDS Naturals, Sequences, FiniteSets

CONSTANTS Run,          \* the runs that are asked for
          Request,      \* Request[r]: what the job says of its target
          Worker,       \* worker processes
          Slot,         \* concurrency slots, WORKER_CONCURRENCY for each worker
          WorkerOf,     \* the worker of each slot
          MaxJobs,      \* bound of the model: BullMQ jobs alive at once
          FaultKinds,   \* the faults that may happen
          MaxFaults     \* bound of the model: how many of them happen

(* Request[r].base is the host of the job's baseUrl, .version the version's id,
   .gotos its goto steps once the actions are expanded and variables replaced.
   Of each, .stored is the host that can be read off the version as it is
   stored, NoHost if the URL is relative or inside a shared action; .opened is
   the host of the URL the run has when it gets there, NoHost if relative.  A job
   without a version is added by nobody in this repository (schedules are
   groundwork), and a login capture takes no lock (queue.ts:84): both are left
   out here. *)
NoHost == "no host"       \* a missing, relative or unparsable URL
NoRun  == "no run"
NoSlot == "no slot"
Orphan == "orphan"        \* "holder" of a lease whose holder is gone

ASSUME RunQueueAssumption ==
    /\ Run \subseteq DOMAIN Request
    /\ \A r \in Run : DOMAIN Request[r].gotos \subseteq Nat
    /\ WorkerOf \in [Slot -> Worker]
    /\ NoRun \notin Run
    /\ NoSlot \notin Slot /\ Orphan \notin Slot
    /\ MaxJobs \in Nat \ {0} /\ MaxFaults \in Nat
    /\ FaultKinds \subseteq {"crash", "stall", "redis", "db"}

VARIABLES status,    \* status[r]: the run row
          pending,   \* runs whose row is inserted and whose job is not added yet
          jobs,      \* jobs[i]: BullMQ's jobs
          slot,      \* slot[s]: what each concurrency slot of each worker does
          lock,      \* lock[k]: the slot that holds key k
          faults     \* how many faults have happened

vars == <<status, pending, jobs, slot, lock, faults>>

JobId == 1 .. MaxJobs

Gone == [run |-> NoRun, state |-> "gone", owner |-> NoSlot, stalls |-> 0]
Idle == [run |-> NoRun, phase |-> "idle", job |-> 0]

Finished == {"verdict", "errored"}
NeverRedelivered == 0
MaxStalledCount  == 1     \* BullMQ's default

(* The goto steps in whose stored form targetAppKey finds a host. *)
Absolute(r) == {i \in DOMAIN Request[r].gotos : Request[r].gotos[i].stored # NoHost}

FirstOf(I) == CHOOSE i \in I : \A j \in I : i <= j

(* Keying by the version only, whatever the base URL says. *)
LockKeyIgnoringBase(r) ==
    IF Absolute(r) # {} THEN Request[r].gotos[FirstOf(Absolute(r))].stored
    ELSE Request[r].version

(* targetAppKey(job) ?? job.data.testVersionId: the base URL's host, else the
   first goto with an absolute URL, else the version. *)
TargetKey ==
    [r \in Run |->
        IF Request[r].base # NoHost THEN Request[r].base
        ELSE IF Absolute(r) # {} THEN Request[r].gotos[FirstOf(Absolute(r))].stored
        ELSE Request[r].version]
LockKey(r) == TargetKey[r]

(* What the run drives: an absolute URL is opened as it is, whatever the base
   URL, and a relative one under the base URL. *)
Visits(r) ==
    {LET h == Request[r].gotos[i].opened IN IF h = NoHost THEN Request[r].base ELSE h :
        i \in DOMAIN Request[r].gotos} \ {NoHost}

Keys == {LockKey(r) : r \in Run}

(* The slots whose processor is inside executeRun, under their lock. *)
Executing(s) == slot[s].phase \in {"exec", "attempt", "post"}

Fault(kind) == kind \in FaultKinds /\ faults < MaxFaults /\ faults' = faults + 1

(* runQueue.add: a new job for r under an unused id. *)
FreeIds == {i \in JobId : jobs[i].state = "gone"}
FreshId == CHOOSE i \in FreeIds : TRUE
Waiting(r, n) == [run |-> r, state |-> "waiting", owner |-> NoSlot, stalls |-> n]

(* BullMQ accepts the end of a job only from the delivery that still owns it. *)
JobsWithout(i, s) == IF jobs[i].owner = s THEN [jobs EXCEPT ![i] = Gone] ELSE jobs

-----------------------------------------------------------------------------
Init ==
    /\ status  = [r \in Run |-> "absent"]
    /\ pending = {}
    /\ jobs    = [i \in JobId |-> Gone]
    /\ slot    = [s \in Slot |-> Idle]
    /\ lock    = [k \in Keys |-> NoSlot]
    /\ faults  = 0

(* enqueueTestRuns, runs.retry, enqueueRun: the row goes in first. *)
InsertRow(r) ==
    /\ status[r] = "absent"
    /\ status'  = [status EXCEPT ![r] = "queued"]
    /\ pending' = pending \cup {r}
    /\ UNCHANGED <<jobs, slot, lock, faults>>

AddJob(r) ==
    /\ r \in pending /\ FreeIds # {}
    /\ jobs'    = [jobs EXCEPT ![FreshId] = Waiting(r, 0)]
    /\ pending' = pending \ {r}
    /\ UNCHANGED <<status, slot, lock, faults>>

(* Redis refuses the add, or the web process stops between the two calls. *)
AddFails(r) ==
    /\ r \in pending
    /\ Fault("redis")
    /\ pending' = pending \ {r}
    /\ UNCHANGED <<status, jobs, slot, lock>>

-----------------------------------------------------------------------------
(* BullMQ delivers a waiting job to an idle slot. *)
Take(i, s) ==
    /\ jobs[i].state = "waiting" /\ slot[s].phase = "idle"
    /\ jobs' = [jobs EXCEPT ![i] = [@ EXCEPT !.state = "active", !.owner = s]]
    /\ slot' = [slot EXCEPT ![s] = [run |-> jobs[i].run, phase |-> "key", job |-> i]]
    /\ UNCHANGED <<status, pending, lock, faults>>

Enters(s, from, to) ==
    /\ slot[s].phase = from
    /\ slot' = [slot EXCEPT ![s].phase = to]

(* The key is taken whoever has it. *)
LockWithoutCheck(s) ==
    /\ Enters(s, "key", "exec")
    /\ lock' = [lock EXCEPT ![LockKey(slot[s].run)] = s]
    /\ UNCHANGED <<status, pending, jobs, faults>>

(* targetAppKey answers and withLock gets the key. *)
Lock(s) ==
    /\ Enters(s, "key", "exec")
    /\ lock[LockKey(slot[s].run)] = NoSlot
    /\ lock' = [lock EXCEPT ![LockKey(slot[s].run)] = s]
    /\ UNCHANGED <<status, pending, jobs, faults>>

(* The slot waits for the key: no job is ever deferred. *)
BusyWaits(s) == FALSE /\ UNCHANGED vars

(* withLock returns false. *)
Busy(s) ==
    /\ Enters(s, "key", "defer")
    /\ lock[LockKey(slot[s].run)] # NoSlot
    /\ UNCHANGED <<status, pending, jobs, lock, faults>>

(* The version cannot be read (only a job with no base URL reads it), or the
   SET is answered with an error: the processor throws before executeRun. *)
KeyFails(s) ==
    /\ slot[s].phase = "key"
    /\ \/ Request[slot[s].run].base = NoHost /\ Fault("db")
       \/ Fault("redis")
    /\ jobs' = JobsWithout(slot[s].job, s)
    /\ slot' = [slot EXCEPT ![s] = Idle]
    /\ UNCHANGED <<status, pending, lock>>

(* The deferred job is dropped and nothing takes its place. *)
DeferWithoutAdd(s) ==
    /\ Enters(s, "defer", "finish")
    /\ FreeIds # {}
    /\ UNCHANGED <<status, pending, jobs, lock, faults>>

(* runQueue.add('run', job.data, { delay }): a copy of the job, before this
   one returns 'deferred'. *)
Defer(s) ==
    /\ Enters(s, "defer", "finish")
    /\ FreeIds # {}
    /\ jobs' = [jobs EXCEPT ![FreshId] = Waiting(slot[s].run, 0)]
    /\ UNCHANGED <<status, pending, lock, faults>>

DeferFails(s) ==
    /\ slot[s].phase = "defer"
    /\ Fault("redis")
    /\ jobs' = JobsWithout(slot[s].job, s)
    /\ slot' = [slot EXCEPT ![s] = Idle]
    /\ UNCHANGED <<status, pending, lock>>

(* runAttempt: the row is running. *)
Begin(s) ==
    /\ Enters(s, "exec", "attempt")
    /\ status' = [status EXCEPT ![slot[s].run] = "running"]
    /\ UNCHANGED <<pending, jobs, lock, faults>>

(* executeRunInner finalizes the row: the attempts' verdict is committed. *)
Commit(s) ==
    /\ Enters(s, "attempt", "post")
    /\ status' = [status EXCEPT ![slot[s].run] = "verdict"]
    /\ UNCHANGED <<pending, jobs, lock, faults>>

(* executeRunInner throws before the verdict is committed and executeRun's
   catch marks the row; that update is best effort. *)
Throw(s) ==
    /\ slot[s].phase \in {"exec", "attempt"}
    /\ \/ /\ status' = [status EXCEPT ![slot[s].run] = "errored"]
          /\ UNCHANGED faults
       \/ Fault("db") /\ UNCHANGED status
    /\ slot' = [slot EXCEPT ![s].phase = "post"]
    /\ UNCHANGED <<pending, jobs, lock>>

(* The key is given back on success only. *)
ReleaseForgotten(s) ==
    /\ Enters(s, "post", "finish")
    /\ LET k == LockKey(slot[s].run) IN
       lock' = [lock EXCEPT ![k] = IF status[slot[s].run] = "verdict" THEN NoSlot ELSE @]
    /\ UNCHANGED <<status, pending, jobs, faults>>

(* The finally of withLock: compare-and-delete, or a lease left behind when
   Redis answers the script with an error. *)
Release(s) ==
    /\ Enters(s, "post", "finish")
    /\ LET k == LockKey(slot[s].run) IN
       \/ /\ lock' = [lock EXCEPT ![k] = IF @ = s THEN NoSlot ELSE @]
          /\ UNCHANGED faults
       \/ /\ Fault("redis")
          /\ lock' = [lock EXCEPT ![k] = IF @ = s THEN Orphan ELSE @]
    /\ UNCHANGED <<status, pending, jobs>>

(* The delivery ends and BullMQ completes or fails the job. *)
Finish(s) ==
    /\ slot[s].phase = "finish"
    /\ jobs' = JobsWithout(slot[s].job, s)
    /\ slot' = [slot EXCEPT ![s] = Idle]
    /\ UNCHANGED <<status, pending, lock, faults>>

-----------------------------------------------------------------------------
(* A worker process dies with its deliveries and starts again. *)
Crash(w) ==
    /\ Fault("crash")
    /\ slot' = [s \in Slot |-> IF WorkerOf[s] = w THEN Idle ELSE slot[s]]
    /\ lock' = [k \in Keys |-> IF lock[k] \in Slot /\ WorkerOf[lock[k]] = w THEN Orphan ELSE lock[k]]
    /\ UNCHANGED <<status, pending, jobs>>

(* The lease of a key whose holder is gone runs out. *)
LeaseExpires(k) ==
    /\ lock[k] = Orphan
    /\ lock' = [lock EXCEPT ![k] = NoSlot]
    /\ UNCHANGED <<status, pending, jobs, slot, faults>>

OwnerGone(i) ==
    LET s == jobs[i].owner IN slot[s].phase = "idle" \/ slot[s].job # i

(* BullMQ finds an active job whose worker no longer renews it: the worker is
   gone, or was too busy to answer (then the delivery goes on as well).  The
   job is delivered again, or fails when it has stalled too often. *)
Stalled(i) ==
    /\ jobs[i].state = "active"
    /\ \/ OwnerGone(i) /\ UNCHANGED faults
       \/ ~ OwnerGone(i) /\ Fault("stall")
    /\ jobs' = [jobs EXCEPT ![i] = IF @.stalls < MaxStalledCount
                                    THEN Waiting(@.run, @.stalls + 1) ELSE Gone]
    /\ UNCHANGED <<status, pending, slot, lock>>

SlotStep(s) ==
    \/ Lock(s) \/ Busy(s) \/ KeyFails(s)
    \/ Defer(s) \/ DeferFails(s)
    \/ Begin(s) \/ Commit(s) \/ Throw(s) \/ Release(s) \/ Finish(s)

Next ==
    \/ \E r \in Run : InsertRow(r) \/ AddJob(r) \/ AddFails(r)
    \/ \E i \in JobId, s \in Slot : Take(i, s)
    \/ \E s \in Slot : SlotStep(s)
    \/ \E w \in Worker : Crash(w)
    \/ \E k \in Keys : LeaseExpires(k)
    \/ \E i \in JobId : Stalled(i)

(* A slot whose processor is running goes on; the row of a run that was asked
   for gets its job; a stalled job is noticed; a run's waiting job is not
   passed over for ever (BullMQ serves waiting jobs in order). *)
Working(s) ==
    \/ Lock(s) \/ Busy(s) \/ Defer(s) \/ Begin(s) \/ Commit(s) \/ Release(s) \/ Finish(s)

TakeRun(r) == \E i \in JobId, s \in Slot : jobs[i].run = r /\ Take(i, s)

Served ==
    /\ \A s \in Slot : WF_vars(Working(s))
    /\ \A r \in Run : WF_vars(AddJob(r)) /\ SF_vars(TakeRun(r))
    /\ \A i \in JobId : WF_vars(jobs[i].state = "active" /\ OwnerGone(i) /\ Stalled(i))

Leases == \A k \in Keys : WF_vars(LeaseExpires(k))

Spec == Init /\ [][Next]_vars
FairSpec == Spec /\ Served /\ Leases
(* Fairness without Redis ever expiring a lease. *)
NoExpirySpec == Spec /\ Served

-----------------------------------------------------------------------------
TypeOK ==
    /\ status  \in [Run -> {"absent", "queued", "running"} \cup Finished]
    /\ pending \subseteq Run
    /\ jobs    \in [JobId -> [run : Run \cup {NoRun}, state : {"gone", "waiting", "active"},
                              owner : Slot \cup {NoSlot}, stalls : 0 .. MaxStalledCount]]
    /\ slot    \in [Slot -> [run : Run \cup {NoRun}, job : {0} \cup JobId,
                             phase : {"idle", "key", "defer", "exec", "attempt", "post", "finish"}]]
    /\ lock    \in [Keys -> Slot \cup {NoSlot, Orphan}]
    /\ faults  \in 0 .. MaxFaults

(* A slot holds a key exactly while it executes a run of that key: no run
   executes unlocked and no delivery leaves its key behind. *)
LockMatchesExecution ==
    \A s \in Slot, k \in Keys :
        lock[k] = s <=> Executing(s) /\ LockKey(slot[s].run) = k

(* A job that exists is some run's, and a slot that is not idle serves one. *)
DeliveriesNamed ==
    /\ \A i \in JobId : jobs[i].state # "gone" => jobs[i].run \in Run
    /\ \A s \in Slot : slot[s].phase # "idle" => slot[s].run \in Run /\ slot[s].job \in JobId

(* The inductive invariant of the queue: above all, what lock the slots hold
   is exactly what they execute, through every fault. *)
QueueInv == TypeOK /\ DeliveriesNamed /\ LockMatchesExecution

(* "Any two runs that hit the same app - different tests included - never
   overlap" (queue.ts:71-75): no two slots execute runs whose steps open a
   common host.  The code does not keep this: the key is one host, found before
   the actions are expanded, and a run opens whatever its steps say. *)
SameAppSerialized ==
    \A s, t \in Slot :
        Executing(s) /\ Executing(t) /\ s # t
            => Visits(slot[s].run) \cap Visits(slot[t].run) = {}

(* r is a run of the application at h, by the job and the version alone: h is
   its base URL's host (features.md:87-88), or it has no base URL, opens nothing
   but h, and at least one of its own steps names h. *)
RunOf(r, h) ==
    /\ h # NoHost
    /\ \/ Request[r].base = h
       \/ /\ Request[r].base = NoHost /\ Visits(r) = {h}
          /\ {Request[r].gotos[i].stored : i \in Absolute(r)} = {h}

(* What it does keep, whichever tests the runs are of, however each names the
   application, and whatever else they open: two runs of one application do not
   overlap. *)
RunsOfAppSerialized ==
    \A s, t \in Slot :
        Executing(s) /\ Executing(t) /\ s # t
            => ~ \E h \in Keys : RunOf(slot[s].run, h) /\ RunOf(slot[t].run, h)

(* A run is never executed by two deliveries of its job at once, whatever
   BullMQ takes for stalled: a processor that works on the row has it alone. *)
RunExecutedAlone ==
    \A s, t \in Slot :
        Executing(s) /\ Executing(t) /\ slot[s].run = slot[t].run => s = t

(* A row that says queued or running has somebody left to finish it: its
   producer, a job, or a delivery (what run.ts:95-96 calls not wedged). *)
NotWedged ==
    \A r \in Run : status[r] \in {"queued", "running"} =>
        \/ r \in pending
        \/ \E i \in JobId : jobs[i].run = r
        \/ \E s \in Slot : slot[s].run = r /\ slot[s].phase \in {"key", "defer", "exec", "attempt"}

(* The faults under which it holds: a process dies once, or a delivery is once
   taken for dead.  A job that stalls again is failed by BullMQ. *)
FewFaults == FaultKinds \subseteq {"crash", "stall"} /\ MaxFaults <= 1

(* What it rests on: an unfinished row has a producer, a job nobody works on, or a
   delivery before its verdict; each stall of a job was a fault; and before the
   first fault every delivery owns its job. *)
Orphaned(i)  == jobs[i].state = "active" /\ OwnerGone(i)
Attending(s) == slot[s].phase \in {"key", "defer", "exec", "attempt"}
Attended(r) ==
    \/ r \in pending
    \/ \E i \in JobId : jobs[i].run = r /\ (jobs[i].state = "waiting" \/ Orphaned(i))
    \/ \E s \in Slot : slot[s].run = r /\ Attending(s)

OwnersKnown ==
    \A i \in JobId :
        /\ jobs[i].state = "active" => jobs[i].owner \in Slot
        /\ jobs[i].state # "active" => jobs[i].owner = NoSlot
        /\ jobs[i].state = "active" /\ ~ OwnerGone(i) => jobs[i].run = slot[jobs[i].owner].run
StallsCounted ==
    \A i \in JobId : jobs[i].state # "gone" => jobs[i].stalls + (IF Orphaned(i) THEN 1 ELSE 0) <= faults
DeliveriesOwn ==
    faults = 0 => \A s \in Slot : slot[s].phase # "idle" =>
        LET i == slot[s].job IN jobs[i].state = "active" /\ jobs[i].owner = s

AttendedInv ==
    /\ OwnersKnown /\ StallsCounted /\ DeliveriesOwn
    /\ \A r \in Run : status[r] \in {"queued", "running"} => Attended(r)

(* Every run that is asked for gets a verdict. *)
EveryRunFinishes == \A r \in Run : status[r] = "queued" ~> status[r] \in Finished

(* A lock nobody gives back holds up the runs of its own application only
   ("let the slot serve a run targeting a different app", queue.ts:94-95). *)
OtherAppsServed ==
    \A r \in Run :
        status[r] = "queued" ~> status[r] \in Finished \/ lock[LockKey(r)] = Orphan

(* Seen through its locks, the queue is the mutex of AppMutex. *)
Mutex == INSTANCE AppMutex
    WITH Job <- Slot, Key <- Keys,
         inside <- [k \in Keys |-> {s \in Slot : Executing(s) /\ LockKey(slot[s].run) = k}]
ImplementsMutex == Mutex!Spec
=============================================================================
