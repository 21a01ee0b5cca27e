------------------------------ MODULE AppLock -------------------------------
(***************************************************************************)
(* The per-application lock: withLock of packages/queue/src/index.ts, as   *)
(* the workers call it (apps/worker/src/queue.ts).  A caller writes a      *)
(* token with SET NX PX, runs its work while the lease lasts and deletes   *)
(* the key only if it still holds its own token.  Redis, its clock and the *)
(* ioredis connection are part of the model: a command is executed some    *)
(* time after it was issued, a lease expires on its own, a reply can be    *)
(* lost (ioredis then sends the command again), the release can fail, a    *)
(* worker process can die and come back.                                   *)
(***************************************************************************)
EXTENDS Integers

CONSTANTS Job,        \* the jobs BullMQ delivers, possibly several times each
          Process,    \* the worker processes
          Key,        \* lock keys: one per application under test
          KeyOf,      \* the key of each job
          PidOf,      \* process.pid of each worker process
          Ttl,        \* TEST_LOCK_TTL_MS, in ticks of the clock
          SetDelay,   \* the longest time from a token to the SET that carries it
          RunBound,   \* the longest time from the SET to the end of the work
          MaxClock    \* bound of the model: the clock stops here

ASSUME AppLockAssumption ==
    /\ KeyOf \in [Job -> Key]
    /\ PidOf \in [Process -> Nat]
    /\ Ttl \in Nat \ {0}
    /\ SetDelay \in Nat
    /\ RunBound \in Nat
    /\ MaxClock \in Nat

VARIABLES clock,   \* time, the same for Redis and every worker
          boot,    \* boot[p]: when process p last started (origin of performance.now)
          entry,   \* entry[k]: the value Redis stores at gw:lock:k and when it expires
          pc,      \* pc[j]: where the current delivery of job j is in withLock
          at,      \* at[j]: the process that delivery runs in
          token,   \* token[j]: the token it computed
          since    \* since[j]: when it asked for the key or, later, was granted it

vars == <<clock, boot, entry, pc, at, token, since>>

Token == Nat \X Nat
Free  == [token |-> <<0, 0>>, expires |-> 0]    \* no key in Redis
Phase == {"idle", "asked", "granted", "running", "releasing", "busy", "done", "lost"}

(* The SET that carries the job's token is on its way to Redis. *)
Asking(j)  == pc[j] = "asked"
(* The job has written its token and has not ended its work. *)
Holding(j) == pc[j] \in {"granted", "running"}
(* The job still has its token in memory and may yet compare it. *)
Using(j)   == Holding(j) \/ pc[j] = "releasing"

Live(k)    == clock < entry[k].expires
(* The key holds this job's token and has not expired. *)
Owns(j)    == Live(KeyOf[j]) /\ entry[KeyOf[j]].token = token[j]

(* A token that does not tell one call of a process from its next. *)
TokenAtPidOnly(p) == <<PidOf[p], 0>>
(* `${process.pid}-${Math.floor(performance.now())}` *)
TokenAt(p) == <<PidOf[p], clock - boot[p]>>

-----------------------------------------------------------------------------
Init ==
    /\ clock = 0
    /\ boot  = [p \in Process |-> 0]
    /\ entry = [k \in Key |-> Free]
    /\ pc    = [j \in Job |-> "idle"]
    /\ at    \in [Job -> Process]
    /\ token = [j \in Job |-> Free.token]
    /\ since = [j \in Job |-> 0]

(* A delivery of job j in process p computes its token and sends the SET. *)
Ask(j, p) ==
    /\ pc[j] = "idle"
    /\ at'    = [at EXCEPT ![j] = p]
    /\ token' = [token EXCEPT ![j] = TokenAt(p)]
    /\ since' = [since EXCEPT ![j] = clock]
    /\ pc'    = [pc EXCEPT ![j] = "asked"]
    /\ UNCHANGED <<clock, boot, entry>>

Written(j) == [token |-> token[j], expires |-> clock + Ttl]

(* SET without NX: the key is taken from whoever holds it. *)
AcquireWithoutNX(j) ==
    /\ Asking(j)
    /\ entry' = [entry EXCEPT ![KeyOf[j]] = Written(j)]
    /\ since' = [since EXCEPT ![j] = clock]
    /\ pc'    = [pc EXCEPT ![j] = "granted"]
    /\ UNCHANGED <<clock, boot, at, token>>

(* Redis executes the SET NX PX and finds the key free.  The reply is on its
   way. *)
Acquire(j) ==
    /\ Asking(j) /\ ~ Live(KeyOf[j])
    /\ entry' = [entry EXCEPT ![KeyOf[j]] = Written(j)]
    /\ since' = [since EXCEPT ![j] = clock]
    /\ pc'    = [pc EXCEPT ![j] = "granted"]
    /\ UNCHANGED <<clock, boot, at, token>>

(* The same SET finds the key taken: withLock returns false and its token is
   never used again. *)
Refuse(j) ==
    /\ Asking(j) /\ Live(KeyOf[j])
    /\ pc' = [pc EXCEPT ![j] = "busy"]
    /\ UNCHANGED <<clock, boot, entry, at, token, since>>

(* The connection drops after the SET was executed and before its reply:
   ioredis sends it again and it meets the job's own token (or, by then,
   another's). *)
ResendRefused(j) ==
    /\ pc[j] = "granted"
    /\ Live(KeyOf[j])
    /\ pc' = [pc EXCEPT ![j] = "busy"]
    /\ UNCHANGED <<clock, boot, entry, at, token, since>>

(* As above, when the first lease has already run out. *)
ResendGranted(j) ==
    /\ pc[j] = "granted"
    /\ ~ Live(KeyOf[j])
    /\ entry' = [entry EXCEPT ![KeyOf[j]] = Written(j)]
    /\ since' = [since EXCEPT ![j] = clock]
    /\ UNCHANGED <<clock, boot, pc, at, token>>

(* The reply arrives and fn() starts. *)
Enter(j) ==
    /\ pc[j] = "granted"
    /\ pc' = [pc EXCEPT ![j] = "running"]
    /\ UNCHANGED <<clock, boot, entry, at, token, since>>

(* fn() returns or throws; the finally block is next. *)
Finish(j) ==
    /\ pc[j] = "running"
    /\ pc' = [pc EXCEPT ![j] = "releasing"]
    /\ UNCHANGED <<clock, boot, entry, at, token, since>>

(* DEL with no comparison. *)
ReleaseUnconditionally(j) ==
    /\ pc[j] = "releasing"
    /\ entry' = [entry EXCEPT ![KeyOf[j]] = Free]
    /\ pc'    = [pc EXCEPT ![j] = "done"]
    /\ UNCHANGED <<clock, boot, at, token, since>>

(* The Lua script: delete the key only if it holds this job's token. *)
Release(j) ==
    /\ pc[j] = "releasing"
    /\ entry' = IF Owns(j) THEN [entry EXCEPT ![KeyOf[j]] = Free] ELSE entry
    /\ pc'    = [pc EXCEPT ![j] = "done"]
    /\ UNCHANGED <<clock, boot, at, token, since>>

(* Redis answers the script with an error, which is swallowed (.catch). *)
ReleaseFails(j) ==
    /\ pc[j] = "releasing"
    /\ pc' = [pc EXCEPT ![j] = "done"]
    /\ UNCHANGED <<clock, boot, entry, at, token, since>>

(* The job, or the copy that deferral adds, is due to be delivered again; the
   locals of the delivery that ended are gone. *)
Redeliver(j) ==
    /\ pc[j] \in {"busy", "done", "lost"}
    /\ pc'    = [pc EXCEPT ![j] = "idle"]
    /\ token' = [token EXCEPT ![j] = Free.token]
    /\ since' = [since EXCEPT ![j] = 0]
    /\ UNCHANGED <<clock, boot, entry, at>>

(* Process p dies with every delivery in it and starts again. *)
Restart(p) ==
    /\ boot' = [boot EXCEPT ![p] = clock]
    /\ pc'   = [j \in Job |-> IF at[j] = p /\ pc[j] # "idle" THEN "lost" ELSE pc[j]]
    /\ UNCHANGED <<clock, entry, at, token, since>>

(* Time passes, as long as no SET is later than SetDelay and no work outlasts
   RunBound. *)
Tick ==
    /\ clock < MaxClock
    /\ \A j \in Job : Asking(j)  => clock < since[j] + SetDelay
    /\ \A j \in Job : Holding(j) => clock < since[j] + RunBound
    /\ clock' = clock + 1
    /\ UNCHANGED <<boot, entry, pc, at, token, since>>

JobStep(j) ==
    \/ \E p \in Process : Ask(j, p)
    \/ Acquire(j) \/ Refuse(j)
    \/ ResendRefused(j) \/ ResendGranted(j)
    \/ Enter(j) \/ Finish(j)
    \/ Release(j) \/ ReleaseFails(j)
    \/ Redeliver(j)

Next ==
    \/ \E j \in Job : JobStep(j)
    \/ \E p \in Process : Restart(p)
    \/ Tick

Spec == Init /\ [][Next]_vars

-----------------------------------------------------------------------------
(* What the deployment must guarantee and the code does not enforce: the
   lease outlasts the longest run (line 26 and queue.ts:13-16); it outlasts
   the time a SET may wait in ioredis for a connection, so that two calls of
   one millisecond, whose tokens are equal, never both get the key; and no two
   worker processes share a pid. *)
LeaseOutlastsRun == RunBound < Ttl
PromptSets == SetDelay < Ttl
PidsDistinct == \A p, q \in Process : PidOf[p] = PidOf[q] => p = q

(* Every variable keeps its type; a token is a pid and an uptime. *)
TypeOK ==
    /\ clock \in Nat
    /\ boot  \in [Process -> Nat]
    /\ entry \in [Key -> [token : Token, expires : Nat]]
    /\ pc    \in [Job -> Phase]
    /\ at    \in [Job -> Process]
    /\ token \in [Job -> Token]
    /\ since \in [Job -> Nat]

(* No process started in the future: uptimes are never negative. *)
BootInPast == \A p \in Process : boot[p] <= clock

(* Two jobs never execute under one key at once (lines 18-20), over every
   interleaving of deliveries, crashes, lost replies and failed releases. *)
MutualExclusion ==
    \A i, j \in Job :
        pc[i] = "running" /\ pc[j] = "running" /\ KeyOf[i] = KeyOf[j] => i = j

(* While a job works, Redis holds its token on an unexpired lease: the lock
   is never lost under a running job. *)
HolderOwnsLock ==
    \A j \in Job :
        Holding(j) => /\ entry[KeyOf[j]] = [token |-> token[j], expires |-> since[j] + Ttl]
                      /\ clock <= since[j] + RunBound

(* A token in use was computed by the live incarnation of its process; while
   its SET is on its way, since says when. *)
TokenFromProcess ==
    \A j \in Job :
        Asking(j) \/ Using(j) =>
            /\ token[j][1] = PidOf[at[j]]
            /\ boot[at[j]] + token[j][2] <= clock
            /\ Asking(j) => /\ boot[at[j]] + token[j][2] = since[j]
                            /\ clock <= since[j] + SetDelay

(* Two deliveries that may still compare tokens for a key have different ones. *)
TokensDiffer ==
    \A i, j \in Job :
        Using(i) /\ Using(j) /\ KeyOf[i] = KeyOf[j] /\ token[i] = token[j] => i = j

(* A token computed at this very instant, or carried by a SET that is on its
   way, is in use only under an unexpired lease: what makes a pid and a
   millisecond enough to tell tokens apart. *)
FreshTokenStored ==
    \A j \in Job :
        Using(j) /\ token[j] = TokenAt(at[j]) => Owns(j)
SentTokenStored ==
    \A i, j \in Job :
        Using(i) /\ Asking(j) /\ KeyOf[i] = KeyOf[j] /\ token[i] = token[j] => Owns(i)

(* A lease runs for Ttl at least after its token was computed. *)
LeaseAfterToken ==
    \A j \in Job :
        Using(j) /\ Owns(j) => boot[at[j]] + token[j][2] + Ttl <= entry[KeyOf[j]].expires

(* The inductive invariants: of the tokens alone, and with the lease. *)
TokenInv == /\ TypeOK /\ BootInPast /\ TokenFromProcess /\ TokensDiffer
            /\ FreshTokenStored /\ SentTokenStored /\ LeaseAfterToken
LockInv  == TokenInv /\ HolderOwnsLock

(* No step of another job takes away a lock from the job that owns it and is
   still using it: in particular a late release "never deletes a lock that
   already expired and was re-acquired by another job" (lines 39-40), even
   when runs outlast their lease. *)
OwnedLockKept ==
    [][\A j \in Job :
          Holding(j) /\ Owns(j) /\ pc'[j] = pc[j] => entry'[KeyOf[j]] = entry[KeyOf[j]]]_vars

(* The lock implements the mutex its callers are promised. *)
Mutex == INSTANCE AppMutex
    WITH inside <- [k \in Key |-> {j \in Job : KeyOf[j] = k /\ pc[j] = "running"}]
ImplementsMutex == Mutex!Spec
=============================================================================
