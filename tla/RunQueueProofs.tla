--------------------------- MODULE RunQueueProofs ---------------------------
(***************************************************************************)
(* Proofs about RunQueue, for any number of runs, slots, workers, jobs and *)
(* faults of every kind.  TypeOK and DeliveriesNamed come first; with them *)
(* LockMatchesExecution is preserved by every step, and the serialization  *)
(* of runs, the uniqueness of an execution and the refinement of AppMutex  *)
(* follow from it.                                                         *)
(***************************************************************************)
EXTENDS RunQueue, TLAPS, WellFoundedInduction

(* Types and the names of the runs, without the lock. *)
TypeInv == TypeOK /\ DeliveriesNamed

(* The key of a run is one of the keys. *)
LEMMA KeyOfRun == \A r \in Run : LockKey(r) \in Keys
  BY DEF Keys

(* A new job gets an id that no living job has. *)
LEMMA FreshIsFree ==
  ASSUME FreeIds # {}
  PROVE  FreshId \in JobId /\ jobs[FreshId].state = "gone"
  <1>1. \E i : i \in FreeIds
    OBVIOUS
  <1>2. FreshId \in FreeIds
    BY <1>1 DEF FreshId
  <1> QED BY <1>2 DEF FreeIds

(* The queue starts in its invariant. *)
LEMMA QueueInit == Init => QueueInv
  <1> SUFFICES ASSUME Init PROVE QueueInv
    OBVIOUS
  <1>1. TypeOK
    BY RunQueueAssumption DEF Init, TypeOK, Gone, Idle, MaxStalledCount, JobId
  <1>2. DeliveriesNamed
    BY DEF Init, DeliveriesNamed, Gone, Idle
  <1>3. LockMatchesExecution
    BY RunQueueAssumption DEF Init, LockMatchesExecution, Executing, Idle
  <1> QED BY <1>1, <1>2, <1>3 DEF QueueInv

(* A slot that moves from one phase to another stays well formed. *)
LEMMA EntersType ==
  ASSUME TypeInv, NEW s \in Slot, NEW from, from # "idle",
         NEW to \in {"key", "defer", "exec", "attempt", "post", "finish"},
         Enters(s, from, to)
  PROVE  /\ slot' \in [Slot -> [run : Run \cup {NoRun}, job : {0} \cup JobId,
                                phase : {"idle", "key", "defer", "exec", "attempt", "post", "finish"}]]
         /\ \A t \in Slot : slot'[t].phase # "idle" => slot'[t].run \in Run /\ slot'[t].job \in JobId
  BY DEF TypeInv, TypeOK, DeliveriesNamed, Enters

(* So does a slot that is done with its delivery. *)
LEMMA IdleType ==
  ASSUME TypeInv, NEW S, slot' = [s \in Slot |-> IF s \in S THEN Idle ELSE slot[s]]
  PROVE  /\ slot' \in [Slot -> [run : Run \cup {NoRun}, job : {0} \cup JobId,
                                phase : {"idle", "key", "defer", "exec", "attempt", "post", "finish"}]]
         /\ \A t \in Slot : slot'[t].phase # "idle" => slot'[t].run \in Run /\ slot'[t].job \in JobId
  BY DEF TypeInv, TypeOK, DeliveriesNamed, Idle

(* Jobs stay well formed when one of them ends. *)
LEMMA WithoutType ==
  ASSUME TypeInv, NEW i \in JobId, NEW s \in Slot, jobs' = JobsWithout(i, s)
  PROVE  /\ jobs' \in [JobId -> [run : Run \cup {NoRun}, state : {"gone", "waiting", "active"},
                                 owner : Slot \cup {NoSlot}, stalls : 0 .. MaxStalledCount]]
         /\ \A k \in JobId : jobs'[k].state # "gone" => jobs'[k].run \in Run
  BY DEF TypeInv, TypeOK, DeliveriesNamed, JobsWithout, Gone, MaxStalledCount

(* They do when one is added. *)
LEMMA WaitingType ==
  ASSUME TypeInv, NEW r \in Run, FreeIds # {}, jobs' = [jobs EXCEPT ![FreshId] = Waiting(r, 0)]
  PROVE  /\ jobs' \in [JobId -> [run : Run \cup {NoRun}, state : {"gone", "waiting", "active"},
                                 owner : Slot \cup {NoSlot}, stalls : 0 .. MaxStalledCount]]
         /\ \A k \in JobId : jobs'[k].state # "gone" => jobs'[k].run \in Run
  <1>1. FreshId \in JobId
    BY FreshIsFree
  <1> QED BY <1>1 DEF TypeInv, TypeOK, DeliveriesNamed, Waiting, MaxStalledCount

(* The faults that have happened stay within their bound. *)
LEMMA FaultType ==
  ASSUME TypeInv, NEW kind, Fault(kind)
  PROVE  faults' \in 0 .. MaxFaults
  BY RunQueueAssumption DEF TypeInv, TypeOK, Fault

(* Every step keeps the types and the names of the runs. *)
LEMMA TypeStep == TypeInv /\ [Next]_vars => TypeInv'
  <1> SUFFICES ASSUME TypeInv, [Next]_vars PROVE TypeInv'
    OBVIOUS
  <1> USE DEF TypeInv
  <1>1. ASSUME NEW r \in Run, InsertRow(r) PROVE TypeInv'
    BY <1>1 DEF InsertRow, TypeOK, DeliveriesNamed
  <1>2. ASSUME NEW r \in Run, AddJob(r) PROVE TypeInv'
    BY <1>2, WaitingType DEF AddJob, TypeOK, DeliveriesNamed
  <1>3. ASSUME NEW r \in Run, AddFails(r) PROVE TypeInv'
    BY <1>3, FaultType DEF AddFails, TypeOK, DeliveriesNamed
  <1>4. ASSUME NEW i \in JobId, NEW s \in Slot, Take(i, s) PROVE TypeInv'
    <2>1. jobs[i].run \in Run
      BY <1>4 DEF Take, DeliveriesNamed
    <2>2. TypeOK'
      BY <1>4, <2>1 DEF Take, TypeOK
    <2>3. DeliveriesNamed'
      BY <1>4, <2>1 DEF Take, TypeOK, DeliveriesNamed
    <2> QED BY <2>2, <2>3
  <1>5. ASSUME NEW s \in Slot, Lock(s) PROVE TypeInv'
    <2>1. slot[s].run \in Run
      BY <1>5 DEF Lock, Enters, DeliveriesNamed
    <2>2. lock' \in [Keys -> Slot \cup {NoSlot, Orphan}]
      BY <1>5, <2>1, KeyOfRun DEF Lock, TypeOK
    <2> QED BY <1>5, <2>2, EntersType DEF Lock, TypeOK, DeliveriesNamed
  <1>6. ASSUME NEW s \in Slot, Busy(s) PROVE TypeInv'
    BY <1>6, EntersType DEF Busy, TypeOK, DeliveriesNamed
  <1>7. ASSUME NEW s \in Slot, KeyFails(s) \/ DeferFails(s) \/ Finish(s) PROVE TypeInv'
    <2>1. /\ slot[s].phase # "idle" /\ slot' = [slot EXCEPT ![s] = Idle]
          /\ jobs' = JobsWithout(slot[s].job, s)
          /\ UNCHANGED <<status, pending, lock>>
      BY <1>7 DEF KeyFails, DeferFails, Finish
    <2>2. slot[s].job \in JobId
      BY <2>1 DEF DeliveriesNamed
    <2>3. slot' = [t \in Slot |-> IF t \in {s} THEN Idle ELSE slot[t]]
      BY <2>1 DEF TypeOK
    <2>4. faults' \in 0 .. MaxFaults
      BY <1>7, FaultType DEF KeyFails, DeferFails, Finish, TypeOK
    <2> QED BY <2>1, <2>2, <2>3, <2>4, WithoutType, IdleType DEF TypeOK, DeliveriesNamed
  <1>8. ASSUME NEW s \in Slot, Defer(s) PROVE TypeInv'
    <2>1. slot[s].run \in Run
      BY <1>8 DEF Defer, Enters, DeliveriesNamed
    <2> QED BY <1>8, <2>1, WaitingType, EntersType DEF Defer, TypeOK, DeliveriesNamed
  <1>9. ASSUME NEW s \in Slot, Begin(s) \/ Commit(s) PROVE TypeInv'
    <2>1. status' \in [Run -> {"absent", "queued", "running"} \cup Finished]
      BY <1>9 DEF Begin, Commit, TypeOK, Finished
    <2> QED BY <1>9, <2>1, EntersType DEF Begin, Commit, TypeOK, DeliveriesNamed
  <1>10. ASSUME NEW s \in Slot, Throw(s) PROVE TypeInv'
    <2>1. Enters(s, slot[s].phase, "post") /\ slot[s].phase # "idle"
      BY <1>10 DEF Throw, Enters
    <2>2. status' \in [Run -> {"absent", "queued", "running"} \cup Finished]
      BY <1>10 DEF Throw, TypeOK, Finished
    <2>3. faults' \in 0 .. MaxFaults
      BY <1>10, FaultType DEF Throw, TypeOK
    <2> QED BY <1>10, <2>1, <2>2, <2>3, EntersType DEF Throw, TypeOK, DeliveriesNamed
  <1>11. ASSUME NEW s \in Slot, Release(s) PROVE TypeInv'
    <2>1. lock' \in [Keys -> Slot \cup {NoSlot, Orphan}]
      BY <1>11 DEF Release, TypeOK
    <2>2. faults' \in 0 .. MaxFaults
      BY <1>11, FaultType DEF Release, TypeOK
    <2> QED BY <1>11, <2>1, <2>2, EntersType DEF Release, TypeOK, DeliveriesNamed
  <1>12. ASSUME NEW w \in Worker, Crash(w) PROVE TypeInv'
    <2>1. slot' = [s \in Slot |-> IF s \in {t \in Slot : WorkerOf[t] = w} THEN Idle ELSE slot[s]]
      BY <1>12 DEF Crash
    <2>2. lock' \in [Keys -> Slot \cup {NoSlot, Orphan}]
      BY <1>12 DEF Crash, TypeOK
    <2> QED BY <1>12, <2>1, <2>2, IdleType, FaultType DEF Crash, TypeOK, DeliveriesNamed
  <1>13. ASSUME NEW k \in Keys, LeaseExpires(k) PROVE TypeInv'
    BY <1>13 DEF LeaseExpires, TypeOK, DeliveriesNamed
  <1>14. ASSUME NEW i \in JobId, Stalled(i) PROVE TypeInv'
    <2>1. jobs[i].run \in Run
      BY <1>14 DEF Stalled, DeliveriesNamed
    <2>2. /\ jobs' \in [JobId -> [run : Run \cup {NoRun}, state : {"gone", "waiting", "active"},
                                 owner : Slot \cup {NoSlot}, stalls : 0 .. MaxStalledCount]]
          /\ \A k \in JobId : jobs'[k].state # "gone" => jobs'[k].run \in Run
      BY <1>14, <2>1 DEF Stalled, TypeOK, DeliveriesNamed, Waiting, Gone, MaxStalledCount
    <2>3. faults' \in 0 .. MaxFaults
      BY <1>14, FaultType DEF Stalled, TypeOK
    <2> QED BY <1>14, <2>2, <2>3 DEF Stalled, TypeOK, DeliveriesNamed
  <1>15. CASE UNCHANGED vars
    BY <1>15 DEF vars, TypeOK, DeliveriesNamed
  <1> QED
    BY <1>1, <1>2, <1>3, <1>4, <1>5, <1>6, <1>7, <1>8, <1>9, <1>10, <1>11, <1>12, <1>13, <1>14, <1>15
       DEF Next, SlotStep

-----------------------------------------------------------------------------
(* A step that changes neither the lock nor what is executed keeps the match
   of the two. *)
LEMMA SameExecution ==
  ASSUME LockMatchesExecution, lock' = lock,
         \A t \in Slot : /\ Executing(t)' <=> Executing(t)
                         /\ Executing(t) => slot'[t].run = slot[t].run
  PROVE  LockMatchesExecution'
  BY DEF LockMatchesExecution

(* Every step keeps it. *)
LEMMA LockStep == TypeInv /\ LockMatchesExecution /\ [Next]_vars => LockMatchesExecution'
  <1> SUFFICES ASSUME TypeInv, LockMatchesExecution, [Next]_vars PROVE LockMatchesExecution'
    OBVIOUS
  <1>t. /\ slot \in [Slot -> [run : Run \cup {NoRun}, job : {0} \cup JobId,
                            phase : {"idle", "key", "defer", "exec", "attempt", "post", "finish"}]]
        /\ lock \in [Keys -> Slot \cup {NoSlot, Orphan}]
    BY DEF TypeInv, TypeOK
  <1>1. CASE UNCHANGED slot /\ UNCHANGED lock
    BY <1>1, SameExecution DEF Executing
  <1>2. ASSUME NEW i \in JobId, NEW s \in Slot, Take(i, s) PROVE LockMatchesExecution'
    BY <1>t, <1>2, SameExecution DEF Take, Executing
  <1>3. ASSUME NEW s \in Slot, Lock(s) PROVE LockMatchesExecution'
    <2> DEFINE key == LockKey(slot[s].run)
    <2>1. slot[s].phase = "key" /\ ~ Executing(s) /\ key \in Keys
      BY <1>3, KeyOfRun DEF Lock, Enters, Executing, TypeInv, DeliveriesNamed
    <2>2. /\ Executing(s)' /\ slot'[s].run = slot[s].run
          /\ \A t \in Slot \ {s} : slot'[t] = slot[t]
      BY <1>t, <1>3 DEF Lock, Enters, Executing
    <2>3. /\ lock[key] = NoSlot /\ lock'[key] = s
          /\ \A k \in Keys \ {key} : lock'[k] = lock[k]
      BY <1>t, <1>3, <2>1 DEF Lock
    <2>4. ASSUME NEW t \in Slot, NEW k \in Keys
          PROVE  lock'[k] = t <=> (Executing(t) /\ LockKey(slot[t].run) = k)'
      <3>1. CASE t = s
        BY <3>1, <2>1, <2>2, <2>3 DEF LockMatchesExecution
      <3>2. CASE t # s /\ k # key
        BY <3>2, <2>2, <2>3 DEF LockMatchesExecution, Executing
      <3>3. CASE t # s /\ k = key
        BY <3>3, <2>2, <2>3, RunQueueAssumption DEF LockMatchesExecution, Executing
      <3> QED BY <3>1, <3>2, <3>3
    <2> QED BY <2>4 DEF LockMatchesExecution
  <1>4. ASSUME NEW s \in Slot, Busy(s) \/ Defer(s) \/ Begin(s) \/ Commit(s)
        PROVE  LockMatchesExecution'
    BY <1>t, <1>4, SameExecution DEF Busy, Defer, Begin, Commit, Enters, Executing
  <1>5. ASSUME NEW s \in Slot, KeyFails(s) \/ DeferFails(s) \/ Finish(s)
        PROVE  LockMatchesExecution'
    BY <1>t, <1>5, SameExecution DEF KeyFails, DeferFails, Finish, Executing, Idle
  <1>6. ASSUME NEW s \in Slot, Throw(s) PROVE LockMatchesExecution'
    BY <1>t, <1>6, SameExecution DEF Throw, Executing
  <1>7. ASSUME NEW s \in Slot, Release(s) PROVE LockMatchesExecution'
    <2> DEFINE key == LockKey(slot[s].run)
    <2>1. Executing(s) /\ key \in Keys
      BY <1>7, KeyOfRun DEF Release, Enters, Executing, TypeInv, DeliveriesNamed
    <2>2. /\ ~ Executing(s)'
          /\ \A t \in Slot \ {s} : slot'[t] = slot[t]
      BY <1>t, <1>7 DEF Release, Enters, Executing
    <2>3. lock[key] = s
      BY <2>1 DEF LockMatchesExecution
    <2>4. /\ lock'[key] \in {NoSlot, Orphan}
          /\ \A k \in Keys \ {key} : lock'[k] = lock[k]
      BY <1>t, <1>7, <2>1, <2>3 DEF Release
    <2>5. ASSUME NEW t \in Slot, NEW k \in Keys
          PROVE  lock'[k] = t <=> (Executing(t) /\ LockKey(slot[t].run) = k)'
      <3>1. CASE k = key
        BY <3>1, <2>1, <2>2, <2>3, <2>4, RunQueueAssumption DEF LockMatchesExecution, Executing
      <3>2. CASE k # key
        BY <3>2, <2>1, <2>2, <2>3, <2>4 DEF LockMatchesExecution, Executing
      <3> QED BY <3>1, <3>2
    <2> QED BY <2>5 DEF LockMatchesExecution
  <1>8. ASSUME NEW w \in Worker, Crash(w) PROVE LockMatchesExecution'
    <2>1. ASSUME NEW t \in Slot, NEW k \in Keys
          PROVE  lock'[k] = t <=> (Executing(t) /\ LockKey(slot[t].run) = k)'
      <3>1. CASE WorkerOf[t] = w
        <4>1. ~ Executing(t)'
          BY <1>8, <3>1 DEF Crash, Executing, Idle
        <4>2. lock'[k] # t
          BY <1>t, <1>8, <3>1, RunQueueAssumption DEF Crash
        <4> QED BY <4>1, <4>2
      <3>2. CASE WorkerOf[t] # w
        <4>1. slot'[t] = slot[t]
          BY <1>8, <3>2 DEF Crash
        <4>2. lock'[k] = t <=> lock[k] = t
          BY <1>t, <1>8, <3>2, RunQueueAssumption DEF Crash
        <4> QED BY <4>1, <4>2 DEF LockMatchesExecution, Executing
      <3> QED BY <3>1, <3>2
    <2> QED BY <2>1 DEF LockMatchesExecution
  <1>9. ASSUME NEW k \in Keys, LeaseExpires(k) PROVE LockMatchesExecution'
    <2>1. ASSUME NEW t \in Slot, NEW q \in Keys PROVE lock'[q] = t <=> lock[q] = t
      BY <1>t, <1>9, RunQueueAssumption DEF LeaseExpires
    <2>2. slot' = slot
      BY <1>9 DEF LeaseExpires
    <2> QED BY <2>1, <2>2 DEF LockMatchesExecution, Executing
  <1>10. ASSUME NEW r \in Run, InsertRow(r) \/ AddJob(r) \/ AddFails(r)
         PROVE  LockMatchesExecution'
    BY <1>1, <1>10 DEF InsertRow, AddJob, AddFails
  <1>11. ASSUME NEW i \in JobId, Stalled(i) PROVE LockMatchesExecution'
    BY <1>1, <1>11 DEF Stalled
  <1>12. CASE UNCHANGED vars
    BY <1>1, <1>12 DEF vars
  <1> QED
    BY <1>2, <1>3, <1>4, <1>5, <1>6, <1>7, <1>8, <1>9, <1>10, <1>11, <1>12 DEF Next, SlotStep

(* Through crashes, stalls and failures of Redis and of the database, the keys
   that slots hold are exactly those of the runs they execute. *)
THEOREM QueueSafe == Spec => []QueueInv
  <1>1. QueueInv /\ [Next]_vars => QueueInv'
    BY TypeStep, LockStep DEF QueueInv, TypeInv
  <1> QED BY QueueInit, <1>1, PTL DEF Spec

(* However often BullMQ takes a job for stalled and delivers it again, one
   slot at most executes the run. *)
THEOREM ExecutedAlone == Spec => []RunExecutedAlone
  <1>1. QueueInv => RunExecutedAlone
    BY KeyOfRun DEF QueueInv, DeliveriesNamed, LockMatchesExecution, RunExecutedAlone, Executing
  <1> QED BY QueueSafe, <1>1, PTL

(* A set of positions that is not empty has a first one. *)
LEMMA FirstIsThere ==
  ASSUME NEW I, I \subseteq Nat, I # {}
  PROVE  FirstOf(I) \in I
  <1> DEFINE Less == OpToRel(<, Nat)
  <1>1. \E i \in I : \A j \in I : ~ (<<j, i>> \in Less)
    BY NatLessThanWellFounded, WFMin, Zenon
  <1>2. \A i, j \in I : j < i => <<j, i>> \in Less
    BY Zenon DEF OpToRel
  <1> HIDE DEF Less
  <1>3. \E i \in I : \A j \in I : ~ (j < i)
    BY <1>1, <1>2, Zenon
  <1>4. \A i, j \in I : ~ (j < i) => i <= j
    OBVIOUS
  <1>5. \E i \in I : \A j \in I : i <= j
    BY <1>3, <1>4
  <1> QED BY <1>5 DEF FirstOf

(* The key of a run of an application is the application. *)
LEMMA KeyOfApp ==
  ASSUME NEW r \in Run, NEW h, RunOf(r, h)
  PROVE  LockKey(r) = h
  <1>1. CASE Request[r].base = h
    BY <1>1 DEF RunOf, LockKey, TargetKey
  <1>2. CASE Request[r].base = NoHost /\ {Request[r].gotos[i].stored : i \in Absolute(r)} = {h}
    <2>1. Absolute(r) # {} /\ Absolute(r) \subseteq Nat
      BY <1>2, RunQueueAssumption DEF Absolute
    <2>2. FirstOf(Absolute(r)) \in Absolute(r)
      BY <2>1, FirstIsThere
    <2>3. Request[r].gotos[FirstOf(Absolute(r))].stored = h
      BY <1>2, <2>2
    <2> QED BY <1>2, <2>1, <2>3 DEF LockKey, TargetKey
  <1> QED BY <1>1, <1>2 DEF RunOf

(* Two runs of one application never overlap, whichever of the two ways each
   has of naming it, and whatever else they open. *)
THEOREM Serialized == Spec => []RunsOfAppSerialized
  <1>1. QueueInv => RunsOfAppSerialized
    <2> SUFFICES ASSUME QueueInv, NEW s \in Slot, NEW t \in Slot, NEW h \in Keys,
                        Executing(s), Executing(t),
                        RunOf(slot[s].run, h), RunOf(slot[t].run, h)
                 PROVE  s = t
      BY DEF RunsOfAppSerialized
    <2>1. slot[s].run \in Run /\ slot[t].run \in Run
      BY DEF QueueInv, DeliveriesNamed, Executing
    <2>2. LockKey(slot[s].run) = h /\ LockKey(slot[t].run) = h
      BY <2>1, KeyOfApp
    <2> QED BY <2>2 DEF QueueInv, LockMatchesExecution
  <1> QED BY QueueSafe, <1>1, PTL

(* What the queue executes under its keys is the mutex of AppMutex: entering
   is Lock, leaving is Release or a Crash that takes several slots at once. *)
THEOREM QueueRefinement == Spec => ImplementsMutex
  <1> DEFINE In == [k \in Keys |-> {s \in Slot : Executing(s) /\ LockKey(slot[s].run) = k}]
  <1>1. Init => Mutex!Init
    BY DEF Init, Mutex!Init, Executing, Idle
  <1>2. ASSUME QueueInv, [Next]_vars PROVE [Mutex!Next]_In
    <2>t. /\ slot \in [Slot -> [run : Run \cup {NoRun}, job : {0} \cup JobId,
                              phase : {"idle", "key", "defer", "exec", "attempt", "post", "finish"}]]
          /\ lock \in [Keys -> Slot \cup {NoSlot, Orphan}]
      BY <1>2 DEF QueueInv, TypeOK
    <2>1. ASSUME NEW S \in SUBSET Slot,
                 \A t \in Slot : /\ Executing(t)' <=> Executing(t) /\ t \notin S
                                 /\ Executing(t)' => slot'[t].run = slot[t].run
          PROVE  [Mutex!Next]_In
      <3>1. In' = [k \in Keys |-> In[k] \ S]
        BY <2>1
      <3>2. Mutex!Leave(S)
        BY <3>1 DEF Mutex!Leave
      <3> QED BY <3>2 DEF Mutex!Next
    <2>2. ASSUME \A t \in Slot : /\ Executing(t)' <=> Executing(t)
                                 /\ Executing(t)' => slot'[t].run = slot[t].run
          PROVE  [Mutex!Next]_In
      BY <2>1, <2>2
    <2>3. CASE UNCHANGED slot
      BY <2>2, <2>3 DEF Executing
    <2>4. ASSUME NEW s \in Slot, Lock(s) PROVE [Mutex!Next]_In
      <3> DEFINE key == LockKey(slot[s].run)
      <3>1. ~ Executing(s) /\ key \in Keys /\ lock[key] = NoSlot
        BY <1>2, <2>4, KeyOfRun DEF Lock, Enters, Executing, QueueInv, DeliveriesNamed
      <3>2. /\ Executing(s)' /\ slot'[s].run = slot[s].run
            /\ \A t \in Slot \ {s} : slot'[t] = slot[t]
        BY <2>t, <2>4 DEF Lock, Enters, Executing
      <3>3. \A t \in Slot : ~ (Executing(t) /\ LockKey(slot[t].run) = key)
        BY <1>2, <3>1, RunQueueAssumption DEF QueueInv, LockMatchesExecution
      <3>4. In[key] = {}
        BY <3>1, <3>3
      <3>5. \A k \in Keys : In'[k] = IF k = key THEN {s} ELSE In[k]
        <4>1. \A t \in Slot \ {s} : Executing(t)' <=> Executing(t)
          BY <3>2 DEF Executing
        <4>2. In'[key] = {s}
          BY <3>1, <3>2, <3>3, <4>1
        <4>3. \A k \in Keys \ {key} : In'[k] = In[k]
          BY <3>1, <3>2, <4>1
        <4> QED BY <4>2, <4>3
      <3>6. In' = [In EXCEPT ![key] = {s}]
        BY <3>5
      <3>7. Mutex!Enter(s, key)
        BY <3>4, <3>6 DEF Mutex!Enter
      <3> QED BY <3>1, <3>7 DEF Mutex!Next
    <2>5. ASSUME NEW s \in Slot, Release(s) PROVE [Mutex!Next]_In
      <3>1. \A t \in Slot : /\ Executing(t)' <=> Executing(t) /\ t \notin {s}
                            /\ Executing(t)' => slot'[t].run = slot[t].run
        BY <2>t, <2>5 DEF Release, Enters, Executing
      <3> QED BY <2>1, <3>1
    <2>6. ASSUME NEW w \in Worker, Crash(w) PROVE [Mutex!Next]_In
      <3> DEFINE S == {t \in Slot : WorkerOf[t] = w}
      <3>1. \A t \in Slot : /\ Executing(t)' <=> Executing(t) /\ t \notin S
                            /\ Executing(t)' => slot'[t].run = slot[t].run
        BY <2>t, <2>6 DEF Crash, Executing, Idle
      <3> QED BY <2>1, <3>1
    <2>7. ASSUME NEW i \in JobId, NEW s \in Slot, Take(i, s) PROVE [Mutex!Next]_In
      BY <2>t, <2>2, <2>7 DEF Take, Executing
    <2>8. ASSUME NEW s \in Slot, Busy(s) \/ Defer(s) \/ Begin(s) \/ Commit(s)
          PROVE  [Mutex!Next]_In
      BY <2>t, <2>2, <2>8 DEF Busy, Defer, Begin, Commit, Enters, Executing
    <2>9. ASSUME NEW s \in Slot, KeyFails(s) \/ DeferFails(s) \/ Finish(s)
          PROVE  [Mutex!Next]_In
      BY <2>t, <2>2, <2>9 DEF KeyFails, DeferFails, Finish, Executing, Idle
    <2>10. ASSUME NEW s \in Slot, Throw(s) PROVE [Mutex!Next]_In
      BY <2>t, <2>2, <2>10 DEF Throw, Executing
    <2>11. ASSUME NEW r \in Run, InsertRow(r) \/ AddJob(r) \/ AddFails(r)
           PROVE  [Mutex!Next]_In
      BY <2>3, <2>11 DEF InsertRow, AddJob, AddFails
    <2>12. ASSUME NEW k \in Keys, LeaseExpires(k) PROVE [Mutex!Next]_In
      BY <2>3, <2>12 DEF LeaseExpires
    <2>13. ASSUME NEW i \in JobId, Stalled(i) PROVE [Mutex!Next]_In
      BY <2>3, <2>13 DEF Stalled
    <2>14. CASE UNCHANGED vars
      BY <2>3, <2>14 DEF vars
    <2> QED
      BY <1>2, <2>4, <2>5, <2>6, <2>7, <2>8, <2>9, <2>10, <2>11, <2>12, <2>13, <2>14
         DEF Next, SlotStep
  <1>3. QueueInv /\ [Next]_vars => [Mutex!Next]_In
    BY <1>2
  <1> QED BY <1>1, <1>3, QueueSafe, PTL DEF Spec, ImplementsMutex, Mutex!Spec

-----------------------------------------------------------------------------
(* At most one fault happens, and it is a death or a stall. *)
LEMMA OneFault ==
  ASSUME FewFaults, TypeInv
  PROVE  /\ ~ Fault("redis") /\ ~ Fault("db")
         /\ \A kind \in {"crash", "stall"} : Fault(kind) => faults = 0 /\ faults' = 1
  <1>1. MaxFaults \in Nat /\ MaxFaults <= 1 /\ faults \in 0 .. MaxFaults
    BY RunQueueAssumption DEF FewFaults, TypeInv, TypeOK
  <1> QED BY <1>1 DEF FewFaults, Fault

(* The same shape of a job and of a slot, for the steps below. *)
LEMMA Shapes ==
  ASSUME TypeInv
  PROVE  /\ \A i \in JobId : jobs[i].stalls \in Nat /\ jobs[i].state \in {"gone", "waiting", "active"}
         /\ faults \in Nat
         /\ \A i \in JobId : jobs[i].owner \in Slot \cup {NoSlot}
  BY RunQueueAssumption DEF TypeInv, TypeOK, MaxStalledCount

(* A job that waits for a worker, or for BullMQ to notice that its worker is
   gone: nobody works on it. *)
Ready(i) == jobs[i].state = "waiting" \/ Orphaned(i)

(* Slots that go on with the jobs they have, and jobs that are added, leave the
   owners of the other jobs as they are. *)
LEMMA SameOwners ==
  ASSUME TypeInv, AttendedInv, faults' = faults,
         \A i \in JobId : \/ jobs'[i] = jobs[i]
                          \/ jobs[i].state = "gone" /\ \E r \in Run : jobs'[i] = Waiting(r, 0),
         \A t \in Slot : /\ slot'[t].phase = "idle" <=> slot[t].phase = "idle"
                         /\ slot'[t].job = slot[t].job /\ slot'[t].run = slot[t].run
  PROVE  /\ OwnersKnown' /\ StallsCounted' /\ DeliveriesOwn'
         /\ \A i \in JobId : Ready(i) => Ready(i)' /\ jobs'[i].run = jobs[i].run
  <1>w. \A r \in Run : Waiting(r, 0).state = "waiting" /\ Waiting(r, 0).owner = NoSlot
                        /\ Waiting(r, 0).stalls = 0
    BY DEF Waiting
  <1>1. \A i \in JobId : jobs'[i].state = "active" =>
            jobs'[i] = jobs[i] /\ (OwnerGone(i)' <=> OwnerGone(i))
    BY <1>w DEF OwnerGone, AttendedInv, OwnersKnown
  <1>2. \A i \in JobId : Orphaned(i)' <=> Orphaned(i)
    BY <1>1, <1>w DEF Orphaned
  <1>3. OwnersKnown'
    BY <1>1, <1>w DEF AttendedInv, OwnersKnown
  <1>4. StallsCounted'
    <2> SUFFICES ASSUME NEW i \in JobId, jobs'[i].state # "gone"
                 PROVE  jobs'[i].stalls + (IF Orphaned(i)' THEN 1 ELSE 0) <= faults
      BY DEF StallsCounted
    <2>1. CASE jobs'[i] = jobs[i]
      BY <1>2, <2>1 DEF AttendedInv, StallsCounted
    <2>2. CASE jobs'[i] # jobs[i]
      <3>1. jobs'[i].stalls = 0 /\ ~ Orphaned(i)'
        BY <1>w, <2>2 DEF Orphaned
      <3> QED BY <3>1, Shapes
    <2> QED BY <2>1, <2>2
  <1>5. DeliveriesOwn'
    BY DEF AttendedInv, DeliveriesOwn, TypeInv, DeliveriesNamed
  <1>6. \A i \in JobId : Ready(i) => Ready(i)' /\ jobs'[i].run = jobs[i].run
    BY <1>2, <1>w DEF Ready, Orphaned
  <1> QED BY <1>3, <1>4, <1>5, <1>6

(* A run keeps its attendance when its jobs stay ready and its slots attend. *)
LEMMA AttendedKept ==
  ASSUME AttendedInv, OwnersKnown', StallsCounted', DeliveriesOwn',
         \A r \in Run : status'[r] \in {"queued", "running"} => Attended(r)'
  PROVE  AttendedInv'
  BY DEF AttendedInv

(* Attended in terms of Ready. *)
LEMMA AttendedBy ==
  /\ \A r : Attended(r) <=> \/ r \in pending
                            \/ \E i \in JobId : jobs[i].run = r /\ Ready(i)
                            \/ \E s \in Slot : slot[s].run = r /\ Attending(s)
  BY DEF Attended, Ready

(* InsertRow leaves the row's job to its producer. *)
LEMMA InsertAttended ==
  ASSUME TypeInv, AttendedInv, NEW r \in Run, InsertRow(r)
  PROVE  AttendedInv'
  <1>1. /\ OwnersKnown' /\ StallsCounted' /\ DeliveriesOwn'
        /\ \A i \in JobId : Ready(i) => Ready(i)' /\ jobs'[i].run = jobs[i].run
    BY SameOwners DEF InsertRow
  <1>2. \A q \in Run : Attended(q) => Attended(q)'
    BY DEF InsertRow, Attended, Orphaned, OwnerGone, Attending
  <1>3. Attended(r)'
    BY DEF InsertRow, Attended
  <1>4. \A q \in Run : q # r => status'[q] = status[q]
    BY DEF InsertRow, TypeInv, TypeOK
  <1> QED BY <1>1, <1>2, <1>3, <1>4 DEF AttendedInv

(* AddJob passes it on to a waiting job. *)
LEMMA AddAttended ==
  ASSUME TypeInv, AttendedInv, NEW r \in Run, AddJob(r)
  PROVE  AttendedInv'
  <1>1. PICK n \in JobId : /\ jobs[n].state = "gone" /\ jobs'[n] = Waiting(r, 0)
                          /\ \A i \in JobId : i # n => jobs'[i] = jobs[i]
    BY FreshIsFree DEF AddJob, TypeInv, TypeOK
  <1>2. /\ OwnersKnown' /\ StallsCounted' /\ DeliveriesOwn'
        /\ \A i \in JobId : Ready(i) => Ready(i)' /\ jobs'[i].run = jobs[i].run
    BY <1>1, SameOwners DEF AddJob
  <1>3. Ready(n)' /\ jobs'[n].run = r
    BY <1>1 DEF Ready, Waiting
  <1>4. \A q \in Run : Attended(q) => Attended(q)'
    <2> SUFFICES ASSUME NEW q \in Run, Attended(q) PROVE Attended(q)'
      OBVIOUS
    <2>1. CASE q = r
      BY <1>1, <1>3, <2>1 DEF Attended, Ready
    <2>2. CASE q # r /\ q \in pending
      BY <2>2 DEF AddJob, Attended
    <2>3. CASE \E i \in JobId : jobs[i].run = q /\ Ready(i)
      BY <1>2, <2>3 DEF Attended, Ready
    <2>4. CASE \E s \in Slot : slot[s].run = q /\ Attending(s)
      BY <2>4 DEF AddJob, Attended, Attending
    <2> QED BY <2>1, <2>2, <2>3, <2>4, AttendedBy
  <1> QED BY <1>2, <1>4 DEF AttendedInv, AddJob

(* Take hands it to the slot; the other jobs of that slot were left by a crash. *)
LEMMA TakeAttended ==
  ASSUME TypeInv, AttendedInv, NEW i \in JobId, NEW s \in Slot, Take(i, s)
  PROVE  AttendedInv'
  <1>1. /\ jobs[i].state = "waiting" /\ slot[s].phase = "idle" /\ jobs[i].run \in Run
        /\ jobs'[i].state = "active" /\ jobs'[i].owner = s
        /\ jobs'[i].run = jobs[i].run /\ jobs'[i].stalls = jobs[i].stalls
        /\ \A k \in JobId : k # i => jobs'[k] = jobs[k]
    BY DEF Take, TypeInv, TypeOK, DeliveriesNamed
  <1>2. /\ slot'[s].run = jobs[i].run /\ slot'[s].phase = "key" /\ slot'[s].job = i
        /\ \A t \in Slot : t # s => slot'[t] = slot[t]
    BY DEF Take, TypeInv, TypeOK
  <1>3. UNCHANGED <<status, pending, faults>>
    BY DEF Take
  <1>4. \A k \in JobId : k # i /\ jobs[k].state = "active" => (OwnerGone(k)' <=> OwnerGone(k))
    BY <1>1, <1>2 DEF OwnerGone, AttendedInv, OwnersKnown
  <1>5. ~ OwnerGone(i)' /\ ~ Orphaned(i)
    BY <1>1, <1>2 DEF OwnerGone, Orphaned
  <1>6. \A k \in JobId : Orphaned(k)' <=> Orphaned(k)
    BY <1>1, <1>4, <1>5 DEF Orphaned
  <1>7. OwnersKnown'
    <2> SUFFICES ASSUME NEW k \in JobId
                 PROVE  /\ jobs'[k].state = "active" => jobs'[k].owner \in Slot
                        /\ jobs'[k].state # "active" => jobs'[k].owner = NoSlot
                        /\ jobs'[k].state = "active" /\ ~ OwnerGone(k)' => jobs'[k].run = slot'[jobs'[k].owner].run
      BY DEF OwnersKnown
    <2>1. CASE k = i
      BY <1>1, <1>2, <2>1
    <2>2. CASE k # i
      BY <1>1, <1>2, <1>4, <2>2 DEF AttendedInv, OwnersKnown, OwnerGone
    <2> QED BY <2>1, <2>2
  <1>8. StallsCounted'
    BY <1>1, <1>3, <1>6 DEF AttendedInv, StallsCounted
  <1>9. DeliveriesOwn'
    BY <1>1, <1>2, <1>3 DEF AttendedInv, DeliveriesOwn, TypeInv, DeliveriesNamed
  <1>10. ASSUME NEW q \in Run, Attended(q) PROVE Attended(q)'
    <2>1. CASE q \in pending
      BY <1>3, <2>1 DEF Attended
    <2>2. ASSUME NEW k \in JobId, jobs[k].run = q, Ready(k) PROVE Attended(q)'
      <3>1. CASE k = i
        BY <1>2, <2>2, <3>1 DEF Attended, Attending
      <3>2. CASE k # i
        BY <1>1, <1>6, <2>2, <3>2 DEF Attended, Ready
      <3> QED BY <3>1, <3>2
    <2>3. ASSUME NEW t \in Slot, slot[t].run = q, Attending(t) PROVE Attended(q)'
      BY <1>1, <1>2, <2>3 DEF Attended, Attending
    <2> QED BY <1>10, <2>1, <2>2, <2>3, AttendedBy
  <1> QED BY <1>3, <1>7, <1>8, <1>9, <1>10 DEF AttendedInv

(* A slot that goes on with its run attends it until its row is finished. *)
LEMMA SlotAttended ==
  ASSUME TypeInv, AttendedInv, NEW s \in Slot, slot[s].phase # "idle",
         jobs' = jobs, faults' = faults, pending' = pending, NEW to, to # "idle",
         slot' = [slot EXCEPT ![s].phase = to],
         \A r \in Run \ {slot[s].run} : status'[r] = status[r],
         \/ Attending(s)'
         \/ ~ Attending(s) /\ status'[slot[s].run] = status[slot[s].run]
         \/ status'[slot[s].run] \in Finished
  PROVE  AttendedInv'
  <1>1. /\ slot'[s].phase = to /\ slot'[s].run = slot[s].run /\ slot'[s].job = slot[s].job
        /\ \A t \in Slot : t # s => slot'[t] = slot[t]
    BY DEF TypeInv, TypeOK
  <1>2. /\ OwnersKnown' /\ StallsCounted' /\ DeliveriesOwn'
        /\ \A i \in JobId : Ready(i) => Ready(i)' /\ jobs'[i].run = jobs[i].run
    BY <1>1, SameOwners
  <1>3. ASSUME NEW r \in Run, status'[r] \in {"queued", "running"} PROVE Attended(r)'
    <2>1. CASE r # slot[s].run
      <3>1. Attended(r)
        BY <1>3, <2>1 DEF AttendedInv
      <3> QED BY <1>1, <1>2, <2>1, <3>1 DEF Attended, Ready, Attending
    <2>2. CASE r = slot[s].run /\ Attending(s)'
      BY <1>1, <2>2 DEF Attended
    <2>3. CASE r = slot[s].run /\ ~ Attending(s) /\ status'[r] = status[r]
      <3>1. Attended(r)
        BY <1>3, <2>3 DEF AttendedInv
      <3> QED BY <1>1, <1>2, <2>3, <3>1 DEF Attended, Ready, Attending
    <2> QED BY <1>3, <2>1, <2>2, <2>3 DEF Finished
  <1> QED BY <1>2, <1>3 DEF AttendedInv

(* Defer leaves a waiting copy of the job before it ends. *)
LEMMA DeferAttended ==
  ASSUME TypeInv, AttendedInv, NEW s \in Slot, Defer(s)
  PROVE  AttendedInv'
  <1>1. PICK n \in JobId : /\ jobs[n].state = "gone" /\ jobs'[n] = Waiting(slot[s].run, 0)
                          /\ \A i \in JobId : i # n => jobs'[i] = jobs[i]
    BY FreshIsFree DEF Defer, TypeInv, TypeOK
  <1>2. /\ slot[s].phase = "defer" /\ slot[s].run \in Run /\ slot'[s].phase = "finish"
        /\ slot'[s].run = slot[s].run /\ slot'[s].job = slot[s].job
        /\ \A t \in Slot : t # s => slot'[t] = slot[t]
    BY DEF Defer, Enters, TypeInv, TypeOK, DeliveriesNamed
  <1>3. /\ OwnersKnown' /\ StallsCounted' /\ DeliveriesOwn'
        /\ \A i \in JobId : Ready(i) => Ready(i)' /\ jobs'[i].run = jobs[i].run
    BY <1>1, <1>2, SameOwners DEF Defer
  <1>4. Ready(n)' /\ jobs'[n].run = slot[s].run
    BY <1>1 DEF Ready, Waiting
  <1>5. ASSUME NEW q \in Run, Attended(q) PROVE Attended(q)'
    <2>1. CASE q = slot[s].run
      BY <1>4, <2>1 DEF Attended, Ready
    <2>2. CASE q # slot[s].run
      BY <1>2, <1>3, <1>5, <2>2 DEF Attended, Ready, Attending, Defer
    <2> QED BY <2>1, <2>2
  <1> QED BY <1>3, <1>5 DEF AttendedInv, Defer

(* The delivery that ends drops its own job at most, and no run depends on
   either any more. *)
LEMMA FinishAttended ==
  ASSUME TypeInv, AttendedInv, NEW s \in Slot, Finish(s)
  PROVE  AttendedInv'
  <1> DEFINE i == slot[s].job
  <1>1. /\ slot[s].phase = "finish" /\ i \in JobId /\ slot'[s] = Idle
        /\ \A t \in Slot : t # s => slot'[t] = slot[t]
    BY DEF Finish, TypeInv, TypeOK, DeliveriesNamed
  <1>2. UNCHANGED <<status, pending, faults>>
    BY DEF Finish
  <1>3. /\ jobs[i].owner = s => jobs'[i] = Gone
        /\ jobs[i].owner # s => jobs'[i] = jobs[i]
        /\ \A k \in JobId : k # i => jobs'[k] = jobs[k]
    BY <1>1 DEF Finish, JobsWithout, TypeInv, TypeOK
  <1>4. jobs[i].owner = s => jobs[i].state = "active" /\ ~ OwnerGone(i)
    BY <1>1, RunQueueAssumption DEF AttendedInv, OwnersKnown, OwnerGone
  <1>5. \A k \in JobId : jobs'[k].state = "active" =>
            jobs'[k] = jobs[k] /\ (OwnerGone(k)' <=> OwnerGone(k))
    <2> SUFFICES ASSUME NEW k \in JobId, jobs'[k].state = "active"
                 PROVE  jobs'[k] = jobs[k] /\ (OwnerGone(k)' <=> OwnerGone(k))
      OBVIOUS
    <2>1. jobs'[k] = jobs[k] /\ jobs[k].owner \in Slot
      BY <1>1, <1>3 DEF Gone, AttendedInv, OwnersKnown
    <2>2. CASE jobs[k].owner = s
      <3>1. k # i
        BY <1>3, <2>2, <2>1 DEF Gone
      <3> QED BY <1>1, <2>1, <2>2, <3>1 DEF OwnerGone, Idle
    <2>3. CASE jobs[k].owner # s
      BY <1>1, <2>1, <2>3 DEF OwnerGone
    <2> QED BY <2>1, <2>2, <2>3
  <1>6. \A k \in JobId : Orphaned(k)' <=> Orphaned(k)
    BY <1>1, <1>3, <1>4, <1>5 DEF Orphaned, Gone
  <1>7. OwnersKnown'
    <2> SUFFICES ASSUME NEW k \in JobId
                 PROVE  /\ jobs'[k].state = "active" => jobs'[k].owner \in Slot
                        /\ jobs'[k].state # "active" => jobs'[k].owner = NoSlot
                        /\ jobs'[k].state = "active" /\ ~ OwnerGone(k)' => jobs'[k].run = slot'[jobs'[k].owner].run
      BY DEF OwnersKnown
    <2>1. CASE jobs'[k] # jobs[k]
      BY <1>3, <2>1 DEF Gone
    <2>2. CASE jobs'[k] = jobs[k] /\ jobs[k].state # "active"
      BY <2>2 DEF AttendedInv, OwnersKnown
    <2>3. CASE jobs'[k] = jobs[k] /\ jobs[k].state = "active"
      <3>1. ~ OwnerGone(k)' => jobs[k].owner # s
        BY <1>1, <2>3 DEF OwnerGone, Idle
      <3> QED BY <1>1, <1>5, <2>3, <3>1 DEF AttendedInv, OwnersKnown
    <2> QED BY <2>1, <2>2, <2>3
  <1>8. StallsCounted'
    BY <1>2, <1>3, <1>6 DEF AttendedInv, StallsCounted, Gone
  <1>9. DeliveriesOwn'
    <2> SUFFICES ASSUME faults = 0, NEW t \in Slot, slot'[t].phase # "idle"
                 PROVE  jobs'[slot'[t].job].state = "active" /\ jobs'[slot'[t].job].owner = t
      BY <1>2 DEF DeliveriesOwn
    <2>1. t # s /\ slot'[t] = slot[t]
      BY <1>1 DEF Idle
    <2>2. slot[t].job \in JobId /\ jobs[slot[t].job].state = "active" /\ jobs[slot[t].job].owner = t
      BY <2>1 DEF AttendedInv, DeliveriesOwn, TypeInv, DeliveriesNamed
    <2>3. slot[t].job # i
      BY <1>1, <2>1, <2>2 DEF AttendedInv, DeliveriesOwn
    <2> QED BY <1>3, <2>1, <2>2, <2>3
  <1>10. ASSUME NEW q \in Run, Attended(q) PROVE Attended(q)'
    <2>1. CASE q \in pending
      BY <1>2, <2>1 DEF Attended
    <2>2. ASSUME NEW k \in JobId, jobs[k].run = q, Ready(k) PROVE Attended(q)'
      <3>1. jobs'[k] = jobs[k]
        BY <1>3, <1>4, <2>2 DEF Ready, Orphaned
      <3> QED BY <1>6, <2>2, <3>1 DEF Attended, Ready
    <2>3. ASSUME NEW t \in Slot, slot[t].run = q, Attending(t) PROVE Attended(q)'
      BY <1>1, <2>3 DEF Attended, Attending
    <2> QED BY <1>10, <2>1, <2>2, <2>3, AttendedBy
  <1> QED BY <1>2, <1>7, <1>8, <1>9, <1>10 DEF AttendedInv

(* A worker that dies before any other fault owned the jobs of its slots. *)
LEMMA CrashAttended ==
  ASSUME FewFaults, TypeInv, AttendedInv, NEW w \in Worker, Crash(w)
  PROVE  AttendedInv'
  <1>1. faults = 0 /\ faults' = 1
    BY OneFault DEF Crash
  <1>2. /\ \A t \in Slot : WorkerOf[t] = w => slot'[t] = Idle
        /\ \A t \in Slot : WorkerOf[t] # w => slot'[t] = slot[t]
    BY DEF Crash
  <1>3. UNCHANGED <<status, pending, jobs>>
    BY DEF Crash
  <1>4. \A k \in JobId : jobs[k].owner \in Slot /\ OwnerGone(k) => OwnerGone(k)'
    BY <1>2, <1>3 DEF OwnerGone, Idle
  <1>5. \A k \in JobId : Orphaned(k) => Orphaned(k)'
    BY <1>3, <1>4 DEF Orphaned, AttendedInv, OwnersKnown
  <1>6. OwnersKnown'
    <2>1. \A k \in JobId : jobs[k].state = "active" /\ ~ OwnerGone(k)' =>
              ~ OwnerGone(k) /\ slot'[jobs[k].owner] = slot[jobs[k].owner]
      BY <1>2, <1>3, <1>4 DEF OwnerGone, Idle, AttendedInv, OwnersKnown
    <2> QED BY <1>3, <2>1 DEF AttendedInv, OwnersKnown
  <1>7. StallsCounted'
    <2> SUFFICES ASSUME NEW k \in JobId, jobs[k].state # "gone"
                 PROVE  jobs[k].stalls + (IF Orphaned(k)' THEN 1 ELSE 0) <= 1
      BY <1>1, <1>3 DEF StallsCounted
    <2>1. jobs[k].stalls = 0
      BY <1>1, Shapes DEF AttendedInv, StallsCounted
    <2> QED BY <2>1
  <1>8. DeliveriesOwn'
    BY <1>1 DEF DeliveriesOwn
  <1>9. ASSUME NEW q \in Run, Attended(q) PROVE Attended(q)'
    <2>1. CASE q \in pending
      BY <1>3, <2>1 DEF Attended
    <2>2. ASSUME NEW k \in JobId, jobs[k].run = q, Ready(k) PROVE Attended(q)'
      BY <1>3, <1>5, <2>2 DEF Attended, Ready
    <2>3. ASSUME NEW t \in Slot, slot[t].run = q, Attending(t), WorkerOf[t] # w PROVE Attended(q)'
      BY <1>2, <2>3 DEF Attended, Attending
    <2>4. ASSUME NEW t \in Slot, slot[t].run = q, Attending(t), WorkerOf[t] = w PROVE Attended(q)'
      <3>1. PICK i \in JobId : /\ i = slot[t].job /\ slot[t].phase # "idle"
                             /\ jobs[i].state = "active" /\ jobs[i].owner = t
        BY <1>1, <2>4 DEF Attending, AttendedInv, DeliveriesOwn, TypeInv, DeliveriesNamed
      <3>2. jobs[i].run = q
        BY <2>4, <3>1 DEF AttendedInv, OwnersKnown, OwnerGone
      <3>3. Orphaned(i)'
        <4>1. jobs'[i].state = "active" /\ slot'[jobs'[i].owner].phase = "idle"
          BY <1>2, <1>3, <2>4, <3>1 DEF Idle
        <4> QED BY <4>1 DEF Orphaned, OwnerGone
      <3> QED BY <1>3, <3>1, <3>2, <3>3 DEF Attended
    <2> QED BY <1>9, <2>1, <2>2, <2>3, <2>4, AttendedBy
  <1> QED BY <1>3, <1>6, <1>7, <1>8, <1>9 DEF AttendedInv

(* A stalled job waits again: with one fault it has not stalled before. *)
LEMMA StalledAttended ==
  ASSUME FewFaults, TypeInv, AttendedInv, NEW i \in JobId, Stalled(i)
  PROVE  AttendedInv'
  <1>1. /\ jobs[i].state = "active" /\ jobs[i].owner \in Slot
        /\ UNCHANGED <<status, pending, slot>>
    BY DEF Stalled, AttendedInv, OwnersKnown
  <1>2. /\ jobs[i].stalls = 0 /\ faults' \in Nat /\ 1 <= faults' /\ faults <= faults'
    <2>1. CASE OwnerGone(i) /\ UNCHANGED faults
      <3>1. faults \in Nat /\ faults <= 1 /\ jobs[i].stalls \in Nat
        BY Shapes, RunQueueAssumption DEF FewFaults, TypeInv, TypeOK
      <3>2. jobs[i].stalls + 1 <= faults
        BY <1>1, <2>1 DEF AttendedInv, StallsCounted, Orphaned
      <3> QED BY <2>1, <3>1, <3>2
    <2>2. CASE ~ OwnerGone(i) /\ Fault("stall")
      <3>1. faults = 0 /\ faults' = 1
        BY <2>2, OneFault
      <3>2. jobs[i].stalls \in Nat /\ jobs[i].stalls + 0 <= 0
        BY <1>1, <2>2, <3>1, Shapes DEF AttendedInv, StallsCounted, Orphaned
      <3> QED BY <3>1, <3>2
    <2> QED BY <2>1, <2>2 DEF Stalled
  <1>3. /\ jobs'[i] = Waiting(jobs[i].run, 1)
        /\ \A k \in JobId : k # i => jobs'[k] = jobs[k]
    BY <1>2 DEF Stalled, TypeInv, TypeOK, MaxStalledCount
  <1>4. \A k \in JobId : k # i => (OwnerGone(k)' <=> OwnerGone(k)) /\ (Orphaned(k)' <=> Orphaned(k))
    BY <1>1, <1>3 DEF OwnerGone, Orphaned
  <1>5. Ready(i)' /\ ~ Orphaned(i)' /\ jobs'[i].run = jobs[i].run
    BY <1>3 DEF Ready, Orphaned, Waiting
  <1>6. OwnersKnown'
    BY <1>1, <1>3, <1>4 DEF AttendedInv, OwnersKnown, Waiting
  <1>7. StallsCounted'
    <2> SUFFICES ASSUME NEW k \in JobId, jobs'[k].state # "gone"
                 PROVE  jobs'[k].stalls + (IF Orphaned(k)' THEN 1 ELSE 0) <= faults'
      BY DEF StallsCounted
    <2>1. CASE k = i
      BY <1>2, <1>3, <1>5, <2>1 DEF Waiting
    <2>2. CASE k # i
      <3>1. jobs'[k] = jobs[k] /\ jobs[k].stalls \in Nat /\ faults \in Nat
            /\ jobs[k].stalls + (IF Orphaned(k) THEN 1 ELSE 0) <= faults
        BY <1>3, <2>2, Shapes DEF AttendedInv, StallsCounted
      <3> QED BY <1>2, <1>4, <2>2, <3>1
    <2> QED BY <2>1, <2>2
  <1>8. DeliveriesOwn'
    BY <1>2 DEF DeliveriesOwn
  <1>9. ASSUME NEW q \in Run, Attended(q) PROVE Attended(q)'
    <2>1. CASE q \in pending
      BY <1>1, <2>1 DEF Attended
    <2>2. ASSUME NEW k \in JobId, jobs[k].run = q, Ready(k) PROVE Attended(q)'
      <3>1. CASE k = i
        BY <1>5, <2>2, <3>1 DEF Attended, Ready
      <3>2. CASE k # i
        BY <1>3, <1>4, <2>2, <3>2 DEF Attended, Ready
      <3> QED BY <3>1, <3>2
    <2>3. ASSUME NEW t \in Slot, slot[t].run = q, Attending(t) PROVE Attended(q)'
      BY <1>1, <2>3 DEF Attended, Attending
    <2> QED BY <1>9, <2>1, <2>2, <2>3, AttendedBy
  <1> QED BY <1>1, <1>6, <1>7, <1>8, <1>9 DEF AttendedInv

(* Every step keeps the unfinished rows attended. *)
LEMMA AttendedStep == FewFaults /\ TypeInv /\ AttendedInv /\ [Next]_vars => AttendedInv'
  <1> SUFFICES ASSUME FewFaults, TypeInv, AttendedInv, [Next]_vars PROVE AttendedInv'
    OBVIOUS
  <1>1. ASSUME NEW r \in Run, InsertRow(r) \/ AddJob(r) PROVE AttendedInv'
    BY <1>1, InsertAttended, AddAttended
  <1>2. ASSUME NEW i \in JobId, NEW s \in Slot, Take(i, s) PROVE AttendedInv'
    BY <1>2, TakeAttended
  <1>3. ASSUME NEW s \in Slot, Lock(s) \/ Busy(s) PROVE AttendedInv'
    <2>1. PICK to \in {"exec", "defer"} : slot' = [slot EXCEPT ![s].phase = to]
      BY <1>3 DEF Lock, Busy, Enters
    <2>2. Attending(s)'
      BY <2>1 DEF Attending, TypeInv, TypeOK
    <2>3. /\ UNCHANGED <<jobs, faults, pending, status>>
          /\ slot[s].phase # "idle" /\ to # "idle"
      BY <1>3, <2>1 DEF Lock, Busy, Enters
    <2> QED BY <2>1, <2>2, <2>3, SlotAttended
  <1>4. ASSUME NEW s \in Slot, Begin(s) PROVE AttendedInv'
    <2>1. Attending(s)'
      BY <1>4 DEF Begin, Enters, Attending, TypeInv, TypeOK
    <2>2. /\ UNCHANGED <<jobs, faults, pending>>
          /\ slot[s].phase # "idle" /\ slot' = [slot EXCEPT ![s].phase = "attempt"]
          /\ \A r \in Run \ {slot[s].run} : status'[r] = status[r]
      BY <1>4 DEF Begin, Enters, TypeInv, TypeOK
    <2> QED BY <2>1, <2>2, SlotAttended
  <1>5. ASSUME NEW s \in Slot, Commit(s) \/ Throw(s) PROVE AttendedInv'
    <2>1. /\ UNCHANGED <<jobs, faults, pending>>
          /\ slot[s].phase # "idle" /\ slot' = [slot EXCEPT ![s].phase = "post"]
          /\ \A r \in Run \ {slot[s].run} : status'[r] = status[r]
          /\ status'[slot[s].run] \in Finished
      BY <1>5, OneFault DEF Commit, Throw, Enters, TypeInv, TypeOK, DeliveriesNamed, Finished
    <2> QED BY <2>1, SlotAttended
  <1>6. ASSUME NEW s \in Slot, Release(s) PROVE AttendedInv'
    <2>1. /\ UNCHANGED <<status, jobs, faults, pending>> /\ ~ Attending(s)
          /\ slot[s].phase # "idle" /\ slot' = [slot EXCEPT ![s].phase = "finish"]
      BY <1>6, OneFault DEF Release, Enters, Attending
    <2> QED BY <2>1, SlotAttended
  <1>7. ASSUME NEW s \in Slot, Defer(s) \/ Finish(s) PROVE AttendedInv'
    BY <1>7, DeferAttended, FinishAttended
  <1>8. ASSUME NEW w \in Worker, Crash(w) PROVE AttendedInv'
    BY <1>8, CrashAttended
  <1>9. ASSUME NEW i \in JobId, Stalled(i) PROVE AttendedInv'
    BY <1>9, StalledAttended
  <1>10. CASE UNCHANGED <<status, pending, jobs, slot, faults>>
    <2>1. /\ OwnersKnown' /\ StallsCounted' /\ DeliveriesOwn'
          /\ \A i \in JobId : Ready(i) => Ready(i)' /\ jobs'[i].run = jobs[i].run
      BY <1>10, SameOwners
    <2>2. \A r \in Run : Attended(r) => Attended(r)'
      BY <1>10, <2>1 DEF Attended, Ready, Attending
    <2> QED BY <1>10, <2>1, <2>2 DEF AttendedInv
  <1>11. ASSUME NEW k \in Keys, LeaseExpires(k) PROVE AttendedInv'
    BY <1>10, <1>11 DEF LeaseExpires
  <1>12. /\ \A s \in Slot : ~ KeyFails(s) /\ ~ DeferFails(s)
         /\ \A r \in Run : ~ AddFails(r)
    BY OneFault DEF KeyFails, DeferFails, AddFails
  <1>13. CASE UNCHANGED vars
    BY <1>10, <1>13 DEF vars
  <1> QED
    BY <1>1, <1>2, <1>3, <1>4, <1>5, <1>6, <1>7, <1>8, <1>9, <1>11, <1>12, <1>13
       DEF Next, SlotStep

(* With one death of a worker, or one stall, at most, a row that says queued or
   running always has its producer, a job or a delivery left to finish it. *)
THEOREM NeverWedged == FewFaults => (Spec => []NotWedged)
  <1> SUFFICES ASSUME FewFaults PROVE Spec => []NotWedged
    OBVIOUS
  <1>1. Init => AttendedInv
    BY DEF Init, AttendedInv, OwnersKnown, StallsCounted, DeliveriesOwn, Gone, Idle, Orphaned
  <1>2. TypeInv /\ AttendedInv /\ [Next]_vars => AttendedInv'
    BY AttendedStep
  <1>3. QueueInv => TypeInv
    BY DEF QueueInv, TypeInv
  <1>4. AttendedInv => NotWedged
    BY DEF AttendedInv, NotWedged, Attended, Attending
  <1> QED BY QueueSafe, <1>1, <1>2, <1>3, <1>4, PTL DEF Spec
=============================================================================
