---------------------------- MODULE AppLockProofs ---------------------------
(***************************************************************************)
(* Theorems about AppLock, for every set of jobs, processes and keys and   *)
(* every value of the lease, the delays and the clock bound.               *)
(***************************************************************************)
EXTENDS AppLock, TLAPS

(* Every variable keeps its type: in particular an uptime is never negative. *)
LEMMA TypeInit == Init => TypeOK
<1> SUFFICES ASSUME Init PROVE TypeOK
  OBVIOUS
<1>1. Free.token \in Token /\ Free \in [token : Token, expires : Nat]
  BY DEF Free, Token
<1> QED
  BY <1>1 DEF Init, TypeOK, Phase

(* Every step keeps the types; BootInPast is what keeps uptimes natural. *)
LEMMA TypeStep == TypeOK /\ BootInPast /\ [Next]_vars => TypeOK' /\ BootInPast'
<1> SUFFICES ASSUME TypeOK, BootInPast, [Next]_vars
             PROVE  TypeOK' /\ BootInPast'
  OBVIOUS
<1> USE AppLockAssumption DEF TypeOK, BootInPast, Phase
<1>1. ASSUME NEW p \in Process PROVE TokenAt(p) \in Token
  BY DEF TokenAt, Token
<1>2. Free.token \in Token /\ Free \in [token : Token, expires : Nat]
  BY DEF Free, Token
<1>3. ASSUME NEW j \in Job, NEW p \in Process, Ask(j, p) PROVE TypeOK' /\ BootInPast'
  BY <1>1, <1>3 DEF Ask
<1>4. ASSUME NEW j \in Job, Acquire(j) \/ ResendGranted(j) PROVE TypeOK' /\ BootInPast'
  <2>1. Written(j) \in [token : Token, expires : Nat]
    BY DEF Written
  <2>2. entry' \in [Key -> [token : Token, expires : Nat]]
    BY <1>4, <2>1 DEF Acquire, ResendGranted
  <2>3. UNCHANGED <<clock, boot, at, token>> /\ since' = [since EXCEPT ![j] = clock]
        /\ pc' \in [Job -> Phase]
    BY <1>4 DEF Acquire, ResendGranted
  <2> QED
    BY <2>2, <2>3
<1>5. ASSUME NEW j \in Job, Refuse(j) \/ ResendRefused(j) \/ Enter(j) \/ Finish(j) \/ ReleaseFails(j)
      PROVE  TypeOK' /\ BootInPast'
  BY <1>5 DEF Refuse, ResendRefused, Enter, Finish, ReleaseFails
<1>6. ASSUME NEW j \in Job, Release(j) PROVE TypeOK' /\ BootInPast'
  BY <1>2, <1>6 DEF Release
<1>7. ASSUME NEW j \in Job, Redeliver(j) PROVE TypeOK' /\ BootInPast'
  BY <1>2, <1>7 DEF Redeliver
<1>8. ASSUME NEW p \in Process, Restart(p) PROVE TypeOK' /\ BootInPast'
  BY <1>8 DEF Restart
<1>9. CASE Tick
  BY <1>9 DEF Tick
<1>10. CASE UNCHANGED vars
  BY <1>10 DEF vars
<1> QED
  BY <1>3, <1>4, <1>5, <1>6, <1>7, <1>8, <1>9, <1>10 DEF Next, JobStep

-----------------------------------------------------------------------------
(* The tokens alone tell deliveries apart: no assumption on how long a run
   lasts, only that live worker processes have distinct pids. *)
LEMMA TokenInit == Init => TokenInv
  BY TypeInit DEF Init, TokenInv, TypeOK, BootInPast, TokenFromProcess, TokensDiffer,
     FreshTokenStored, SentTokenStored, LeaseAfterToken, Asking, Using, Holding

(* A step that leaves Redis and the clock alone and at most ends some
   deliveries keeps what the tokens promise. *)
LEMMA TokenShrink ==
    ASSUME TokenInv, UNCHANGED <<clock, entry, at>>,
           \A i \in Job : Using(i)' => Using(i) /\ token'[i] = token[i] /\ boot'[at[i]] = boot[at[i]],
           \A i \in Job : Asking(i)' => /\ Asking(i) /\ token'[i] = token[i]
                                        /\ boot'[at[i]] = boot[at[i]] /\ since'[i] = since[i]
    PROVE  TokenFromProcess' /\ TokensDiffer' /\ FreshTokenStored' /\ SentTokenStored' /\ LeaseAfterToken'
<1> USE DEF TokenInv
<1>1. TokenFromProcess'
  BY DEF TokenFromProcess
<1>2. TokensDiffer'
  BY DEF TokensDiffer
<1>3. \A i \in Job : Using(i)' => (Owns(i)' <=> Owns(i))
  BY DEF Owns, Live
<1>4. FreshTokenStored'
  BY <1>3 DEF FreshTokenStored, TokenAt
<1>5. SentTokenStored'
  BY <1>3 DEF SentTokenStored
<1>6. LeaseAfterToken'
  BY <1>3 DEF LeaseAfterToken
<1> QED
  BY <1>1, <1>2, <1>4, <1>5, <1>6

(* A step that stores a job's token under a key nobody owns, whether the job
   first gets it or the SET was sent twice. *)
LEMMA TokenWrite ==
    ASSUME TokenInv, NEW j \in Job, ~ Live(KeyOf[j]), Asking(j) \/ Using(j),
           entry' = [entry EXCEPT ![KeyOf[j]] = Written(j)],
           UNCHANGED <<clock, boot, at, token>>,
           Using(j)', \A i \in Job : Using(i)' => Using(i) \/ i = j,
           \A i \in Job : Asking(i)' => Asking(i) /\ since'[i] = since[i]
    PROVE  TokenFromProcess' /\ TokensDiffer' /\ FreshTokenStored' /\ SentTokenStored' /\ LeaseAfterToken'
<1> USE AppLockAssumption DEF TokenInv, TypeOK
<1>1. TokenFromProcess'
  BY DEF TokenFromProcess
<1>2. ASSUME NEW i \in Job, Using(i), Owns(i) PROVE KeyOf[i] # KeyOf[j] /\ Owns(i)'
  BY <1>2 DEF Owns, Live
<1>3. Owns(j)'
  BY DEF Owns, Live, Written
<1>4. TokensDiffer'
  <2>1. ASSUME NEW i \in Job \ {j}, Using(i), KeyOf[i] = KeyOf[j], token[i] = token[j]
        PROVE  FALSE
    <3>1. CASE Asking(j)
      BY <2>1, <3>1, <1>2 DEF SentTokenStored
    <3>2. CASE Using(j)
      BY <2>1, <3>2 DEF TokensDiffer
    <3> QED
      BY <3>1, <3>2
  <2> QED
    BY <2>1 DEF TokensDiffer
<1>5. FreshTokenStored'
  <2> SUFFICES ASSUME NEW i \in Job, Using(i)', token[i] = TokenAt(at[i]) PROVE Owns(i)'
    BY DEF FreshTokenStored, TokenAt
  <2> QED
    BY <1>2, <1>3 DEF FreshTokenStored
<1>6. SentTokenStored'
  <2> SUFFICES ASSUME NEW i \in Job, NEW k \in Job, Using(i)', Asking(k),
                      KeyOf[i] = KeyOf[k], token[i] = token[k]
               PROVE  Owns(i)'
    BY DEF SentTokenStored
  <2> QED
    BY <1>2, <1>3 DEF SentTokenStored
<1>7. LeaseAfterToken'
  <2> SUFFICES ASSUME NEW i \in Job, Using(i)', Owns(i)'
               PROVE  boot[at[i]] + token[i][2] + Ttl <= entry'[KeyOf[i]].expires
    BY DEF LeaseAfterToken
  <2>1. CASE i = j
    <3>1. boot[at[j]] + token[j][2] <= clock
      BY DEF TokenFromProcess
    <3>2. entry'[KeyOf[j]].expires = clock + Ttl
      BY DEF Written
    <3>3. boot[at[j]] \in Nat /\ token[j][2] \in Nat
      BY DEF Token
    <3> QED
      BY <2>1, <3>1, <3>2, <3>3
  <2>2. CASE i # j /\ KeyOf[i] = KeyOf[j]
    <3>1. token[i] = token[j]
      BY <2>2 DEF Owns, Written
    <3> QED
      BY <2>2, <3>1, <1>4 DEF TokensDiffer
  <2>3. CASE i # j /\ KeyOf[i] # KeyOf[j]
    <3>1. Using(i) /\ Owns(i) /\ entry'[KeyOf[i]] = entry[KeyOf[i]]
      BY <2>3 DEF Owns, Live
    <3> QED
      BY <3>1 DEF LeaseAfterToken
  <2> QED
    BY <2>1, <2>2, <2>3
<1> QED
  BY <1>1, <1>4, <1>5, <1>6, <1>7

(* Every step keeps the token invariant. *)
LEMMA TokenStep ==
    ASSUME PidsDistinct, PromptSets, TokenInv, [Next]_vars
    PROVE  TokenInv'
<1> DEFINE Goal == TokenFromProcess' /\ TokensDiffer' /\ FreshTokenStored' /\ SentTokenStored' /\ LeaseAfterToken'
<1> USE AppLockAssumption
<1>1. TypeOK' /\ BootInPast'
  BY TypeStep DEF TokenInv
<1> SUFFICES Goal
  BY <1>1 DEF TokenInv
<1> USE DEF TokenInv, TypeOK, BootInPast
<1>2. ASSUME NEW j \in Job, NEW p \in Process, Ask(j, p) PROVE Goal
  <2>1. /\ at' = [at EXCEPT ![j] = p] /\ token' = [token EXCEPT ![j] = TokenAt(p)]
        /\ since' = [since EXCEPT ![j] = clock] /\ pc[j] = "idle"
        /\ pc' = [pc EXCEPT ![j] = "asked"] /\ UNCHANGED <<clock, boot, entry>>
    BY <1>2 DEF Ask
  <2>2. \A i \in Job : /\ Using(i)' => i # j /\ Using(i)
                       /\ i # j /\ Asking(i)' => Asking(i)
    BY <2>1 DEF Using, Holding, Asking
  <2>3. \A i \in Job \ {j} : token'[i] = token[i] /\ at'[i] = at[i] /\ since'[i] = since[i]
                             /\ (Owns(i)' <=> Owns(i))
    BY <2>1 DEF Owns, Live
  <2>4. TokenFromProcess'
    <3> SUFFICES ASSUME NEW i \in Job, Asking(i)' \/ Using(i)'
                 PROVE  /\ token'[i][1] = PidOf[at'[i]]
                        /\ boot[at'[i]] + token'[i][2] <= clock
                        /\ Asking(i)' => /\ boot[at'[i]] + token'[i][2] = since'[i]
                                         /\ clock <= since'[i] + SetDelay
      BY <2>1 DEF TokenFromProcess
    <3>1. CASE i = j
      <4>1. token'[i] = <<PidOf[p], clock - boot[p]>> /\ at'[i] = p /\ since'[i] = clock
        BY <2>1, <3>1 DEF TokenAt
      <4> QED
        BY <4>1
    <3>2. CASE i # j
      BY <2>2, <2>3, <3>2 DEF TokenFromProcess
    <3> QED
      BY <3>1, <3>2
  <2>5. TokensDiffer'
    BY <2>2, <2>3 DEF TokensDiffer
  <2>6. FreshTokenStored'
    <3> SUFFICES ASSUME NEW i \in Job, Using(i)', token'[i] = TokenAt(at[i])' PROVE Owns(i)'
      BY DEF FreshTokenStored
    <3>1. TokenAt(at[i])' = TokenAt(at[i])
      BY <2>1, <2>2 DEF TokenAt
    <3> QED
      BY <2>2, <2>3, <3>1 DEF FreshTokenStored
  <2>7. SentTokenStored'
    <3> SUFFICES ASSUME NEW i \in Job, NEW k \in Job, Using(i)', Asking(k)',
                        KeyOf[i] = KeyOf[k], token'[i] = token'[k]
                 PROVE  Owns(i)
      BY <2>2, <2>3 DEF SentTokenStored
    <3>1. CASE k # j
      BY <2>2, <2>3, <3>1 DEF SentTokenStored
    <3>2. CASE k = j
      <4>1. token[i] = TokenAt(p) /\ Using(i)
        BY <2>1, <2>2, <2>3, <3>2
      <4>2. PidOf[at[i]] = PidOf[p]
        BY <4>1 DEF TokenFromProcess, TokenAt
      <4>3. at[i] = p
        BY <4>2 DEF PidsDistinct
      <4> QED
        BY <4>1, <4>3 DEF FreshTokenStored
    <3> QED
      BY <3>1, <3>2
  <2>8. LeaseAfterToken'
    BY <2>1, <2>2, <2>3 DEF LeaseAfterToken
  <2> QED
    BY <2>4, <2>5, <2>6, <2>7, <2>8
<1>3. ASSUME NEW j \in Job, Acquire(j) PROVE Goal
  BY <1>3, TokenWrite DEF Acquire, Asking, Using, Holding
<1>4. ASSUME NEW j \in Job, ResendGranted(j) PROVE Goal
  BY <1>4, TokenWrite DEF ResendGranted, Asking, Using, Holding
<1>5. ASSUME NEW j \in Job,
             Refuse(j) \/ ResendRefused(j) \/ Enter(j) \/ Finish(j) \/ ReleaseFails(j) \/ Redeliver(j)
      PROVE  Goal
  BY <1>5, TokenShrink DEF Refuse, ResendRefused, Enter, Finish, ReleaseFails, Redeliver, Asking, Using, Holding
<1>6. ASSUME NEW j \in Job, Release(j) PROVE Goal
  <2>1. /\ UNCHANGED <<clock, boot, at, token, since>> /\ Using(j)
        /\ \A i \in Job : Using(i)' => Using(i) /\ i # j
        /\ \A i \in Job : Asking(i)' => Asking(i)
        /\ entry' = IF Owns(j) THEN [entry EXCEPT ![KeyOf[j]] = Free] ELSE entry
    BY <1>6 DEF Release, Using, Holding, Asking
  <2>2. TokenFromProcess' /\ TokensDiffer'
    BY <2>1 DEF TokenFromProcess, TokensDiffer
  <2>3. ASSUME NEW i \in Job, Using(i)', Owns(i)
        PROVE  Owns(i)'
    <3>1. CASE KeyOf[i] = KeyOf[j]
      <4>1. ~ Owns(j)
        BY <2>1, <2>3, <3>1 DEF TokensDiffer, Owns
      <4> QED
        BY <4>1, <2>1, <2>3 DEF Owns, Live
    <3>2. CASE KeyOf[i] # KeyOf[j]
      BY <3>2, <2>1, <2>3 DEF Owns, Live
    <3> QED
      BY <3>1, <3>2
  <2>4. FreshTokenStored' /\ SentTokenStored'
    BY <2>1, <2>3 DEF FreshTokenStored, SentTokenStored, TokenAt
  <2>5. ASSUME NEW i \in Job, Owns(i)' PROVE Owns(i) /\ entry'[KeyOf[i]] = entry[KeyOf[i]]
    BY <2>1, <2>5 DEF Owns, Live, Free
  <2>6. LeaseAfterToken'
    BY <2>1, <2>5 DEF LeaseAfterToken
  <2> QED
    BY <2>2, <2>4, <2>6
<1>7. ASSUME NEW p \in Process, Restart(p) PROVE Goal
  <2>1. /\ UNCHANGED <<clock, entry, at, token, since>>
        /\ \A i \in Job : Using(i)' => Using(i) /\ at[i] # p
        /\ \A i \in Job : Asking(i)' => Asking(i) /\ at[i] # p
        /\ \A q \in Process : q # p => boot'[q] = boot[q]
    BY <1>7 DEF Restart, Using, Holding, Asking
  <2> QED
    BY <2>1, TokenShrink
<1>8. CASE Tick
  <2>1. UNCHANGED <<boot, entry, pc, at, token, since>> /\ clock' = clock + 1
    BY <1>8 DEF Tick
  <2>2. \A i \in Job : (Using(i)' <=> Using(i)) /\ (Asking(i)' <=> Asking(i))
    BY <2>1 DEF Using, Holding, Asking
  <2>3. \A i \in Job : Asking(i) => clock < since[i] + SetDelay
    BY <1>8 DEF Tick
  <2>4. \A i \in Job : token[i][2] \in Nat /\ boot[at[i]] \in Nat
    BY DEF Token
  <2>5. TokenFromProcess'
    BY <2>1, <2>2, <2>3, <2>4 DEF TokenFromProcess
  <2>6. TokensDiffer'
    BY <2>1, <2>2 DEF TokensDiffer
  <2>7. ASSUME NEW i \in Job, Using(i) PROVE token[i] # TokenAt(at[i])'
    <3>1. boot[at[i]] + token[i][2] <= clock
      BY <2>7 DEF TokenFromProcess
    <3>2. TokenAt(at[i])' = <<PidOf[at[i]], (clock + 1) - boot[at[i]]>>
      BY <2>1 DEF TokenAt
    <3> QED
      BY <3>1, <3>2, <2>4
  <2>8. FreshTokenStored'
    BY <2>1, <2>2, <2>7 DEF FreshTokenStored
  <2>9. SentTokenStored'
    <3> SUFFICES ASSUME NEW i \in Job, NEW k \in Job, Using(i), Asking(k),
                        KeyOf[i] = KeyOf[k], token[i] = token[k]
                 PROVE  Owns(i)'
      BY <2>1, <2>2 DEF SentTokenStored
    <3>1. Owns(i)
      BY DEF SentTokenStored
    <3>2. at[i] = at[k]
      BY DEF TokenFromProcess, PidsDistinct
    <3>3. boot[at[i]] + token[i][2] + Ttl <= entry[KeyOf[i]].expires
      BY <3>1 DEF LeaseAfterToken
    <3>4. boot[at[i]] + token[i][2] = since[k] /\ clock < since[k] + SetDelay
      BY <2>3, <3>2 DEF TokenFromProcess
    <3>5. clock + 1 < entry[KeyOf[i]].expires
      BY <3>3, <3>4 DEF PromptSets
    <3> QED
      BY <2>1, <3>1, <3>5 DEF Owns, Live
  <2>10. LeaseAfterToken'
    <3>1. \A i \in Job : Owns(i)' => Owns(i)
      BY <2>1 DEF Owns, Live
    <3> QED
      BY <2>1, <2>2, <3>1 DEF LeaseAfterToken
  <2> QED
    BY <2>5, <2>6, <2>8, <2>9, <2>10
<1>9. CASE UNCHANGED vars
  BY <1>9, TokenShrink DEF vars, Using, Holding, Asking
<1> QED
  BY <1>2, <1>3, <1>4, <1>5, <1>6, <1>7, <1>8, <1>9 DEF Next, JobStep

(* The token invariant holds of every behaviour, however long runs take. *)
THEOREM TokensSafe == PidsDistinct /\ PromptSets => (Spec => []TokenInv)
<1> SUFFICES ASSUME PidsDistinct, PromptSets PROVE Spec => []TokenInv
  OBVIOUS
<1>1. Init => TokenInv
  BY TokenInit
<1>2. TokenInv /\ [Next]_vars => TokenInv'
  BY TokenStep
<1> QED
  BY <1>1, <1>2, PTL DEF Spec

(* No step takes the lock from a job that owns it and goes on working: the
   late release of a run that outlived its lease included (lines 39-40). *)
THEOREM OwnedLockSafe == PidsDistinct /\ PromptSets => (Spec => OwnedLockKept)
<1> DEFINE Kept == \A j \in Job :
              Holding(j) /\ Owns(j) /\ pc'[j] = pc[j] => entry'[KeyOf[j]] = entry[KeyOf[j]]
<1>1. ASSUME TokenInv, [Next]_vars PROVE [Kept]_vars
  <2> USE <1>1, AppLockAssumption DEF TokenInv, TypeOK
  <2> SUFFICES ASSUME NEW j \in Job, Holding(j), Owns(j), pc'[j] = pc[j]
               PROVE  entry'[KeyOf[j]] = entry[KeyOf[j]]
    OBVIOUS
  <2>1. ASSUME NEW i \in Job, NEW p \in Process, Ask(i, p)
        PROVE  entry'[KeyOf[j]] = entry[KeyOf[j]]
    BY <2>1 DEF Ask
  <2>2. ASSUME NEW i \in Job, Acquire(i) \/ ResendGranted(i)
        PROVE  entry'[KeyOf[j]] = entry[KeyOf[j]]
    BY <2>2 DEF Acquire, ResendGranted, Owns
  <2>3. ASSUME NEW i \in Job, Release(i)
        PROVE  entry'[KeyOf[j]] = entry[KeyOf[j]]
    <3>1. Using(i) /\ Using(j) /\ i # j
      BY <2>3 DEF Release, Using, Holding
    <3>2. CASE KeyOf[i] = KeyOf[j] /\ Owns(i)
      BY <3>1, <3>2 DEF TokensDiffer, Owns
    <3>3. CASE KeyOf[i] # KeyOf[j] \/ ~ Owns(i)
      BY <2>3, <3>3 DEF Release
    <3> QED
      BY <3>2, <3>3
  <2>4. ASSUME NEW i \in Job,
               Refuse(i) \/ ResendRefused(i) \/ Enter(i) \/ Finish(i) \/ ReleaseFails(i) \/ Redeliver(i)
        PROVE  entry'[KeyOf[j]] = entry[KeyOf[j]]
    BY <2>4 DEF Refuse, ResendRefused, Enter, Finish, ReleaseFails, Redeliver
  <2>5. ASSUME NEW p \in Process, Restart(p)
        PROVE  entry'[KeyOf[j]] = entry[KeyOf[j]]
    BY <2>5 DEF Restart
  <2>6. CASE Tick \/ UNCHANGED vars
    BY <2>6 DEF Tick, vars
  <2> QED
    BY <2>1, <2>2, <2>3, <2>4, <2>5, <2>6 DEF Next, JobStep
<1> SUFFICES ASSUME PidsDistinct, PromptSets PROVE Spec => OwnedLockKept
  OBVIOUS
<1>2. TokenInv /\ [Next]_vars => [Kept]_vars
  BY <1>1
<1>3. Spec => []TokenInv
  BY TokensSafe
<1> QED
  BY <1>2, <1>3, PTL DEF Spec, OwnedLockKept

-----------------------------------------------------------------------------
(* With a lease longer than the longest run, the lock is never lost under a
   working job. *)
LEMMA LockStep ==
    ASSUME PidsDistinct, PromptSets, LeaseOutlastsRun, LockInv, [Next]_vars
    PROVE  LockInv'
<1> USE AppLockAssumption DEF LockInv, LeaseOutlastsRun
<1>1. TokenInv'
  BY TokenStep
<1> SUFFICES ASSUME NEW i \in Job, Holding(i)'
             PROVE  /\ entry'[KeyOf[i]] = [token |-> token'[i], expires |-> since'[i] + Ttl]
                    /\ clock' <= since'[i] + RunBound
  BY <1>1 DEF HolderOwnsLock
<1> USE DEF TokenInv, TypeOK
<1>2. ASSUME NEW j \in Job, Holding(j)
      PROVE  /\ Live(KeyOf[j]) /\ Owns(j)
             /\ entry[KeyOf[j]] = [token |-> token[j], expires |-> since[j] + Ttl]
             /\ clock <= since[j] + RunBound
  BY <1>2 DEF HolderOwnsLock, Live, Owns
<1>3. ASSUME NEW j \in Job, NEW p \in Process, Ask(j, p)
      PROVE  /\ entry'[KeyOf[i]] = [token |-> token'[i], expires |-> since'[i] + Ttl]
             /\ clock' <= since'[i] + RunBound
  <2>1. i # j /\ Holding(i)
    BY <1>3 DEF Ask, Holding
  <2> QED
    BY <1>2, <1>3, <2>1 DEF Ask
<1>4. ASSUME NEW j \in Job, Acquire(j)
      PROVE  /\ entry'[KeyOf[i]] = [token |-> token'[i], expires |-> since'[i] + Ttl]
             /\ clock' <= since'[i] + RunBound
  <2>1. CASE i = j
    BY <1>4, <2>1 DEF Acquire, Written
  <2>2. CASE i # j
    <3>1. Holding(i)
      BY <1>4, <2>2 DEF Acquire, Holding
    <3>2. KeyOf[i] # KeyOf[j]
      BY <1>2, <1>4, <3>1 DEF Acquire
    <3> QED
      BY <1>2, <1>4, <2>2, <3>1, <3>2 DEF Acquire
  <2> QED
    BY <2>1, <2>2
<1>5. ASSUME NEW j \in Job, ResendGranted(j) PROVE FALSE
  BY <1>2, <1>5 DEF ResendGranted, Holding
<1>6. ASSUME NEW j \in Job,
             Refuse(j) \/ ResendRefused(j) \/ Enter(j) \/ Finish(j) \/ ReleaseFails(j)
      PROVE  /\ entry'[KeyOf[i]] = [token |-> token'[i], expires |-> since'[i] + Ttl]
             /\ clock' <= since'[i] + RunBound
  <2>1. Holding(i) /\ UNCHANGED <<clock, entry, token, since>>
    BY <1>6 DEF Refuse, ResendRefused, Enter, Finish, ReleaseFails, Asking, Holding
  <2> QED
    BY <1>2, <2>1
<1>7. ASSUME NEW j \in Job, Release(j)
      PROVE  /\ entry'[KeyOf[i]] = [token |-> token'[i], expires |-> since'[i] + Ttl]
             /\ clock' <= since'[i] + RunBound
  <2>1. Holding(i) /\ i # j /\ Using(j) /\ Using(i)
    BY <1>7 DEF Release, Holding, Using
  <2>2. KeyOf[i] # KeyOf[j] \/ ~ Owns(j)
    BY <1>2, <2>1 DEF TokensDiffer, Owns
  <2> QED
    BY <1>2, <1>7, <2>1, <2>2 DEF Release
<1>8. ASSUME NEW j \in Job, Redeliver(j)
      PROVE  /\ entry'[KeyOf[i]] = [token |-> token'[i], expires |-> since'[i] + Ttl]
             /\ clock' <= since'[i] + RunBound
  <2>1. Holding(i) /\ i # j
    BY <1>8 DEF Redeliver, Holding
  <2> QED
    BY <1>2, <1>8, <2>1 DEF Redeliver
<1>9. ASSUME NEW p \in Process, Restart(p)
      PROVE  /\ entry'[KeyOf[i]] = [token |-> token'[i], expires |-> since'[i] + Ttl]
             /\ clock' <= since'[i] + RunBound
  <2>1. Holding(i) /\ UNCHANGED <<clock, entry, token, since>>
    BY <1>9 DEF Restart, Holding
  <2> QED
    BY <1>2, <2>1
<1>10. CASE Tick
  <2>1. Holding(i) /\ UNCHANGED <<entry, token, since>> /\ clock' = clock + 1
    BY <1>10 DEF Tick, Holding
  <2>2. clock < since[i] + RunBound
    BY <1>10, <2>1 DEF Tick
  <2> QED
    BY <1>2, <2>1, <2>2
<1>11. CASE UNCHANGED vars
  <2>1. Holding(i) /\ UNCHANGED <<clock, entry, token, since>>
    BY <1>11 DEF vars, Holding
  <2> QED
    BY <1>2, <2>1
<1> QED
  BY <1>3, <1>4, <1>5, <1>6, <1>7, <1>8, <1>9, <1>10, <1>11 DEF Next, JobStep

(* The full invariant holds of every behaviour. *)
THEOREM LockSafe == PidsDistinct /\ PromptSets /\ LeaseOutlastsRun => (Spec => []LockInv)
<1> SUFFICES ASSUME PidsDistinct, PromptSets, LeaseOutlastsRun PROVE Spec => []LockInv
  OBVIOUS
<1>1. Init => LockInv
  BY TokenInit DEF LockInv, Init, HolderOwnsLock, Holding
<1>2. LockInv /\ [Next]_vars => LockInv'
  BY LockStep
<1> QED
  BY <1>1, <1>2, PTL DEF Spec

(* Owners of one key are one job. *)
LEMMA OneHolder ==
    ASSUME LeaseOutlastsRun, LockInv, NEW i \in Job, NEW j \in Job,
           Holding(i), Holding(j), KeyOf[i] = KeyOf[j]
    PROVE  i = j
<1>1. entry[KeyOf[i]].token = token[i] /\ entry[KeyOf[j]].token = token[j]
  <2>1. entry[KeyOf[i]] = [token |-> token[i], expires |-> since[i] + Ttl]
    BY DEF LockInv, HolderOwnsLock
  <2>2. entry[KeyOf[j]] = [token |-> token[j], expires |-> since[j] + Ttl]
    BY DEF LockInv, HolderOwnsLock
  <2> QED
    BY <2>1, <2>2
<1> QED
  BY <1>1 DEF LockInv, TokenInv, TokensDiffer, Using

(* Two runs against one application never execute at once (lines 18-20). *)
THEOREM Exclusion == PidsDistinct /\ PromptSets /\ LeaseOutlastsRun => (Spec => []MutualExclusion)
<1> SUFFICES ASSUME PidsDistinct, PromptSets, LeaseOutlastsRun PROVE Spec => []MutualExclusion
  OBVIOUS
<1>1. LockInv => MutualExclusion
  BY OneHolder DEF MutualExclusion, Holding
<1> QED
  BY <1>1, LockSafe, PTL

-----------------------------------------------------------------------------
(* The lock with its leases, tokens, crashes and lost replies implements the
   mutex it promises. *)
THEOREM Refinement == PidsDistinct /\ PromptSets /\ LeaseOutlastsRun => (Spec => ImplementsMutex)
<1> DEFINE In == [k \in Key |-> {j \in Job : KeyOf[j] = k /\ pc[j] = "running"}]
<1> SUFFICES ASSUME PidsDistinct, PromptSets, LeaseOutlastsRun PROVE Spec => Mutex!Spec
  BY DEF ImplementsMutex
<1>1. Init => Mutex!Init
  BY DEF Init, Mutex!Init
<1>2. ASSUME LockInv, [Next]_vars PROVE [Mutex!Next]_In
  <2> USE <1>2, AppLockAssumption DEF LockInv, TokenInv, TypeOK
  <2>1. ASSUME NEW j \in Job, Enter(j) PROVE [Mutex!Next]_In
    <3>1. \A i \in Job : KeyOf[i] = KeyOf[j] => pc[i] # "running"
      BY <2>1, OneHolder DEF Enter, Holding
    <3>2. In[KeyOf[j]] = {}
      BY <3>1
    <3>3. In' = [In EXCEPT ![KeyOf[j]] = {j}]
      BY <2>1, <3>1 DEF Enter
    <3>4. Mutex!Enter(j, KeyOf[j])
      BY <3>2, <3>3 DEF Mutex!Enter
    <3> QED
      BY <3>4 DEF Mutex!Next
  <2>2. ASSUME NEW S \in SUBSET Job, \A i \in Job : pc'[i] = "running" <=> pc[i] = "running" /\ i \notin S
        PROVE  [Mutex!Next]_In
    <3>1. In' = [k \in Key |-> In[k] \ S]
      BY <2>2
    <3>2. Mutex!Leave(S)
      BY <3>1 DEF Mutex!Leave
    <3> QED
      BY <3>2 DEF Mutex!Next
  <2>3. ASSUME NEW j \in Job, Finish(j) PROVE [Mutex!Next]_In
    <3>1. \A i \in Job : pc'[i] = "running" <=> pc[i] = "running" /\ i \notin {j}
      BY <2>3 DEF Finish
    <3> QED
      BY <2>2, <3>1
  <2>4. ASSUME NEW p \in Process, Restart(p) PROVE [Mutex!Next]_In
    <3> DEFINE S == {i \in Job : at[i] = p}
    <3>1. \A i \in Job : pc'[i] = "running" <=> pc[i] = "running" /\ i \notin S
      BY <2>4 DEF Restart
    <3> QED
      BY <2>2, <3>1
  <2>5. ASSUME \A i \in Job : pc'[i] = "running" <=> pc[i] = "running"
        PROVE  [Mutex!Next]_In
    BY <2>5
  <2>6. ASSUME NEW j \in Job, NEW p \in Process, Ask(j, p) PROVE [Mutex!Next]_In
    BY <2>5, <2>6 DEF Ask
  <2>7. ASSUME NEW j \in Job,
               \/ Acquire(j) \/ Refuse(j) \/ ResendRefused(j) \/ ResendGranted(j)
               \/ Release(j) \/ ReleaseFails(j) \/ Redeliver(j)
        PROVE  [Mutex!Next]_In
    BY <2>5, <2>7 DEF Asking, Acquire, Refuse, ResendRefused, ResendGranted, Release, ReleaseFails, Redeliver
  <2>8. CASE Tick \/ UNCHANGED vars
    BY <2>5, <2>8 DEF Tick, vars
  <2> QED
    BY <2>1, <2>3, <2>4, <2>6, <2>7, <2>8 DEF Next, JobStep
<1>3. LockInv /\ [Next]_vars => [Mutex!Next]_In
  BY <1>2
<1>4. Spec => []LockInv
  BY LockSafe
<1> QED
  BY <1>1, <1>3, <1>4, PTL DEF Spec, Mutex!Spec
=============================================================================
