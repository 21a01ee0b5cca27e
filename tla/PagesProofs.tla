------------------------------ MODULE PagesProofs ------------------------------
(***************************************************************************)
(* Proofs about Pages, for any tests, folders, runs and settings, any      *)
(* number of acts, turns of the others and failed requests.                *)
(***************************************************************************)
EXTENDS Pages, FiniteSetTheorems, TLAPS

-----------------------------------------------------------------------------
(* Records and tasks. *)

LEMMA Merged ==
    ASSUME NEW f, NEW g
    PROVE  /\ DOMAIN (f ++ g) = DOMAIN f \cup DOMAIN g
           /\ \A k \in DOMAIN f : (f ++ g)[k] = f[k]
           /\ \A k \in DOMAIN g \ DOMAIN f : (f ++ g)[k] = g[k]
BY DEF ++

LEMMA Entered ==
    ASSUME NEW k, NEW v
    PROVE  DOMAIN Entry(k, v) = {k} /\ Entry(k, v)[k] = v
BY DEF Entry

LEMMA Tasks ==
    ASSUME NEW who, NEW gen, NEW asks, NEW x
    PROVE  LET k == Task(who, gen, asks, x) IN
           /\ DOMAIN k = {"who", "gen", "at", "asks", "arg", "got"}
           /\ k.who = who /\ k.gen = gen /\ k.at = "sent" /\ k.asks = asks /\ k.arg = x
           /\ k.got = << >> /\ DOMAIN k.got = {}
BY DEF Task

LEMMA Timers ==
    ASSUME NEW who, NEW gen
    PROVE  LET k == Timer(who, gen) IN
           /\ DOMAIN k = {"who", "gen", "at", "asks", "arg", "got"}
           /\ k.who = who /\ k.gen = gen /\ k.at = "timer" /\ k.asks = {} /\ k.got = << >> /\ DOMAIN k.got = {}
BY DEF Task, Timer, None

(* One of a page's tasks asks again, is served, or fails. *)
LEMMA Changed ==
    ASSUME NEW k, DOMAIN k = {"who", "gen", "at", "asks", "arg", "got"}, NEW asks, NEW got
    PROVE  LET a == [k EXCEPT !.asks = asks, !.got = got]  e == [k EXCEPT !.at = "error"] IN
           /\ DOMAIN a = DOMAIN k /\ a.who = k.who /\ a.gen = k.gen /\ a.at = k.at /\ a.asks = asks
           /\ a.arg = k.arg /\ a.got = got
           /\ DOMAIN e = DOMAIN k /\ e.who = k.who /\ e.gen = k.gen /\ e.at = "error" /\ e.asks = k.asks
           /\ e.arg = k.arg /\ e.got = k.got
OBVIOUS

(* What the page sets, and what it leaves. *)
LEMMA SetParts ==
    ASSUME NEW what, Set(what)
    PROVE  /\ DOMAIN ui' = DOMAIN what \cup DOMAIN ui
           /\ \A f \in DOMAIN what : ui'[f] = what[f]
           /\ \A f \in DOMAIN ui \ DOMAIN what : ui'[f] = ui[f]
BY DEF Set, ++

-----------------------------------------------------------------------------
(* The chains of polls. *)

LEMMA ChainsSwap ==
    ASSUME ChainsKnown, NEW k \in tasks, NEW ks, Then(k, ks), setup' = setup, ui'.gen = ui.gen,
           \A j \in ks : TaskKnown(j) /\ (Newest(j) => Newest(k) /\ j.who = k.who),
           \A i, j \in ks : Newest(i) /\ Newest(j) => i = j
    PROVE  ChainsKnown'
<1>1. \A j : (TaskKnown(j)' <=> TaskKnown(j)) /\ (Newest(j)' <=> Newest(j))
  BY DEF TaskKnown, Newest, Page
<1>2. \A j \in tasks' : TaskKnown(j)'
  BY <1>1 DEF ChainsKnown, Then
<1>3. \A i, j \in tasks' : Newest(i)' /\ Newest(j)' /\ i.who = j.who => i = j
  BY <1>1 DEF ChainsKnown, Then
<1> QED
  BY <1>2, <1>3 DEF ChainsKnown

LEMMA ChainsFew ==
    ASSUME ChainsKnown, tasks' \subseteq tasks, setup' = setup, ui'.gen = ui.gen
    PROVE  ChainsKnown'
<1>1. \A j : (TaskKnown(j)' <=> TaskKnown(j)) /\ (Newest(j)' <=> Newest(j))
  BY DEF TaskKnown, Newest, Page
<1> QED
  BY <1>1 DEF ChainsKnown

LEMMA ChainsAdd ==
    ASSUME ChainsKnown, NEW k, tasks' = tasks \cup {k}, setup' = setup, ui'.gen = ui.gen,
           TaskKnown(k), k.who \notin Pollers
    PROVE  ChainsKnown'
<1>1. \A j : (TaskKnown(j)' <=> TaskKnown(j)) /\ (Newest(j)' <=> Newest(j))
  BY DEF TaskKnown, Newest, Page
<1>2. ~ Newest(k)
  BY DEF Newest
<1> QED
  BY <1>1, <1>2 DEF ChainsKnown

(* A new chain retires the one before, with its timer. *)
LEMMA ChainsBump ==
    ASSUME ChainsKnown, NEW who \in Pollers \ {"tick"}, NEW k \in tasks, Chain(who, k), setup' = setup, ui'.gen = Bump(who),
           who \in WhoOn[Page]
    PROVE  ChainsKnown'
<1>1. PICK new : new = Ask(who, ui.gen[who] + 1)
  OBVIOUS
<1>2. /\ DOMAIN ui'.gen = Pollers /\ ui'.gen[who] = ui.gen[who] + 1 /\ ui'.gen.tick = 0
      /\ \A w \in Pollers \ {who} : ui'.gen[w] = ui.gen[w]
      /\ \A w \in Pollers : ui'.gen[w] \in Nat /\ ui.gen[w] \in Nat
  BY DEF ChainsKnown, Bump, Pollers
<1>3. \A j \in tasks' : (j \in tasks /\ ~ (j.who = who /\ j.at = "timer")) \/ j = new
  BY <1>1 DEF Chain
<1>4. /\ DOMAIN new = {"who", "gen", "at", "asks", "arg", "got"}
      /\ new.who = who /\ new.gen = ui.gen[who] + 1 /\ new.at = "sent" /\ new.asks = {Asked[who]} /\ DOMAIN new.got = {}
  BY <1>1, Tasks DEF Ask
<1>5. {Asked[who]} \in Stages[who]
  BY DEF Pollers, Stages, Asked
<1>6. TaskKnown(new)'
  <2>1. new.who \in WhoOn[Page]' /\ new.asks \cup DOMAIN new.got \in Stages[new.who]
    BY <1>4, <1>5 DEF Page
  <2>2. new.gen \in Nat /\ new.gen <= ui'.gen[new.who]
    BY <1>2, <1>4
  <2> QED
    BY <2>1, <2>2, <1>4 DEF TaskKnown, Page
<1>7. \A j \in tasks : j.who # who \/ j.at # "timer" => TaskKnown(j)'
  <2> SUFFICES ASSUME NEW j \in tasks, j.who # who \/ j.at # "timer" PROVE TaskKnown(j)'
    OBVIOUS
  <2>1. TaskKnown(j)
    BY DEF ChainsKnown
  <2>2. j.who \in Pollers => ui.gen[j.who] <= ui'.gen[j.who] /\ (j.who # who => ui'.gen[j.who] = ui.gen[j.who])
    BY <1>2
  <2>3. j.who \in Pollers => j.gen \in Nat /\ j.gen <= ui'.gen[j.who] /\ (j.at = "timer" => j.gen = ui'.gen[j.who])
    BY <2>1, <2>2, <1>2 DEF TaskKnown
  <2> QED
    BY <2>1, <2>3 DEF TaskKnown, Page
<1>8. \A j \in tasks : ~ (j.who = who /\ Newest(j)')
  <2> SUFFICES ASSUME NEW j \in tasks, j.who = who PROVE j.gen # ui.gen[who] + 1
    BY <1>2 DEF Newest
  <2>1. j.gen \in Nat /\ j.gen <= ui.gen[who]
    BY DEF ChainsKnown, TaskKnown
  <2> QED
    BY <2>1, <1>2
<1>9. \A j \in tasks : j.who # who /\ Newest(j)' => Newest(j)
  BY <1>2 DEF Newest
<1>10. \A i, j \in tasks' : Newest(i)' /\ Newest(j)' /\ i.who = j.who => i = j
  BY <1>3, <1>4, <1>8, <1>9 DEF ChainsKnown
<1>11. \A j \in tasks' : TaskKnown(j)'
  BY <1>3, <1>6, <1>7
<1> QED
  BY <1>2, <1>10, <1>11 DEF ChainsKnown

-----------------------------------------------------------------------------
(* What the server does. *)

(* The rank of a run among those that are made at once. *)
LEMMA Ranks ==
    ASSUME NEW S, IsFiniteSet(S), NEW n, S \subseteq Nat \X (1 .. n), NEW c \in S
    PROVE  Cardinality({b \in S : Before(b, c)}) \in 0 .. Cardinality(S) - 1
<1> DEFINE below == {b \in S : Before(b, c)}
<1>1. below \in SUBSET (S \ {c})
  BY DEF Before
<1>2. IsFiniteSet(S \ {c}) /\ Cardinality(S \ {c}) = Cardinality(S) - 1
  BY FS_RemoveElement
<1>3. IsFiniteSet(below) /\ Cardinality(below) <= Cardinality(S \ {c})
  BY <1>1, <1>2, FS_Subset
<1>4. Cardinality(below) \in Nat /\ Cardinality(S) \in Nat
  BY <1>3, FS_CardinalityType
<1> QED
  BY <1>2, <1>3, <1>4

(* What changes in the runs: those there were, and queued ones with new numbers. *)
RunsKept(old, new) ==
    /\ old.next \in Nat /\ new.next \in Nat /\ old.next <= new.next
    /\ \A r \in DOMAIN new.runs :
          \/ r \in DOMAIN old.runs /\ new.runs[r] = old.runs[r]
          \/ /\ r \in Nat /\ r >= old.next /\ r < new.next
             /\ DOMAIN new.runs[r] = {"test", "status", "rows", "triage"}
             /\ new.runs[r].status = "queued" /\ new.runs[r].rows = 0

LEMMA Queued ==
    ASSUME NEW ts, NEW n \in Nat, NEW d, DbKnown(d)
    PROVE  LET e == Queue(ts, n, d) IN
           /\ DOMAIN e = DOMAIN d /\ e.tests = d.tests /\ e.folders = d.folders /\ e.settings = d.settings
           /\ RunsKept(d, e) /\ IsFiniteSet(DOMAIN e.runs)
           /\ \A r \in DOMAIN e.runs \ DOMAIN d.runs : e.runs[r].test \in ts
<1> DEFINE new == (ts \cap DOMAIN d.tests) \X (1 .. n)
           id(c) == d.next + Cardinality({b \in new : Before(b, c)})
           ids == {id(c) : c \in new}
           made == [r \in ids |-> [test |-> (CHOOSE c \in new : id(c) = r)[1], status |-> "queued", rows |-> 0, triage |-> FALSE]]
           e == Queue(ts, n, d)
<1>1. IsFiniteSet(new) /\ new \subseteq Nat \X (1 .. n)
  <2>1. ts \cap DOMAIN d.tests \in SUBSET DOMAIN d.tests /\ IsFiniteSet(DOMAIN d.tests) /\ DOMAIN d.tests \subseteq Nat
    BY DEF DbKnown
  <2>2. IsFiniteSet(ts \cap DOMAIN d.tests)
    BY <2>1, FS_Subset
  <2>3. IsFiniteSet(1 .. n)
    BY FS_Interval
  <2>4. IsFiniteSet(new)
    BY <2>2, <2>3, FS_Product
  <2> QED
    BY <2>1, <2>4
<1>2. Cardinality(new) \in Nat
  BY <1>1, FS_CardinalityType
<1>4. e = [d EXCEPT !.next = d.next + Cardinality(new), !.runs = made ++ d.runs]
  BY DEF Queue
<1>5. /\ DOMAIN e = DOMAIN d /\ e.tests = d.tests /\ e.folders = d.folders /\ e.settings = d.settings
      /\ e.next = d.next + Cardinality(new) /\ e.runs = made ++ d.runs
  <2> HIDE DEF e, made, new
  <2> QED
    BY <1>4 DEF DbKnown
<1>6. \A r \in ids : r \in Nat /\ r >= d.next /\ r < d.next + Cardinality(new)
  <2> SUFFICES ASSUME NEW c \in new
               PROVE  id(c) \in Nat /\ id(c) >= d.next /\ id(c) < d.next + Cardinality(new)
    OBVIOUS
  <2>1. Cardinality({b \in new : Before(b, c)}) \in 0 .. Cardinality(new) - 1
    <3> HIDE DEF new
    <3> QED
      BY <1>1, Ranks
  <2>2. PICK m \in 0 .. Cardinality(new) - 1 : id(c) = d.next + m
    BY <2>1
  <2> HIDE DEF id, new
  <2> QED
    BY <1>2, <2>2 DEF DbKnown
<1>7. \A r \in ids : /\ DOMAIN made[r] = {"test", "status", "rows", "triage"} /\ made[r].status = "queued" /\ made[r].rows = 0
                     /\ made[r].test \in ts
  <2> SUFFICES ASSUME NEW r \in ids PROVE (CHOOSE c \in new : id(c) = r)[1] \in ts
    OBVIOUS
  <2>1. \E c \in new : id(c) = r
    OBVIOUS
  <2>2. \A c \in new : c[1] \in ts
    OBVIOUS
  <2> HIDE DEF id, new
  <2> QED
    BY <2>1, <2>2
<1>8. DOMAIN made = ids
  OBVIOUS
<1> HIDE DEF made, ids, new, e
<1>9. /\ DOMAIN e.runs = ids \cup DOMAIN d.runs
      /\ \A r \in ids : e.runs[r] = made[r]
      /\ \A r \in DOMAIN d.runs \ ids : e.runs[r] = d.runs[r]
  BY <1>5, <1>8 DEF ++
<1>10. RunsKept(d, e)
  <2>1. d.next \in Nat /\ e.next \in Nat /\ d.next <= e.next
    BY <1>2, <1>5 DEF DbKnown
  <2> QED
    BY <2>1, <1>5, <1>6, <1>7, <1>9 DEF RunsKept
<1>11. IsFiniteSet(DOMAIN e.runs)
  <2>1. ids \in SUBSET (d.next .. d.next + Cardinality(new) - 1)
    BY <1>2, <1>6 DEF DbKnown
  <2>2. d.next \in Int /\ d.next + Cardinality(new) - 1 \in Int
    BY <1>2 DEF DbKnown
  <2>3. IsFiniteSet(ids)
    BY <2>1, <2>2, FS_Interval, FS_Subset
  <2>4. IsFiniteSet(DOMAIN d.runs)
    BY DEF DbKnown
  <2> QED
    BY <2>3, <2>4, <1>9, FS_Union
<1> QED
  BY <1>5, <1>7, <1>9, <1>10, <1>11 DEF e

LEMMA RunsKnown ==
    ASSUME NEW d, NEW e, DbKnown(d), RunsKept(d, e), IsFiniteSet(DOMAIN e.runs), DOMAIN e = DOMAIN d,
           IsFiniteSet(DOMAIN e.tests), DOMAIN e.tests \subseteq Nat,
           \A f \in DOMAIN e.folders : DOMAIN e.folders[f] = {"up", "closed"}
    PROVE  DbKnown(e)
<1>1. \A r \in DOMAIN e.runs : r \in Nat /\ r < e.next /\ DOMAIN e.runs[r] = {"test", "status", "rows", "triage"} /\ e.runs[r].rows \in Nat
  BY DEF DbKnown, RunsKept
<1> QED
  BY <1>1 DEF DbKnown, RunsKept

LEMMA RunsDropped ==
    ASSUME NEW d, NEW S, DbKnown(d)
    PROVE  /\ IsFiniteSet(DOMAIN Drop(d.runs, S))
           /\ \A e : e.next = d.next /\ e.runs = Drop(d.runs, S) => RunsKept(d, e)
<1>1. IsFiniteSet(DOMAIN d.runs) /\ d.next \in Nat
  BY DEF DbKnown
<1>2. DOMAIN Drop(d.runs, S) \in SUBSET DOMAIN d.runs /\ \A r \in DOMAIN Drop(d.runs, S) : Drop(d.runs, S)[r] = d.runs[r]
  BY DEF Drop
<1>3. IsFiniteSet(DOMAIN Drop(d.runs, S))
  BY <1>1, <1>2, FS_Subset
<1>4. \A e : e.next = d.next /\ e.runs = Drop(d.runs, S) => RunsKept(d, e)
  BY <1>1, <1>2 DEF RunsKept
<1> QED
  BY <1>3, <1>4

(* A server goes on holding what a server holds. *)
EffectOn(d, e) == DbKnown(e) /\ RunsKept(d, e) /\ DOMAIN e = DOMAIN d

LEMMA Fields ==
    ASSUME NEW d, DbKnown(d)
    PROVE  /\ \A v : LET e == [d EXCEPT !.tests = v] IN
                /\ DOMAIN e = DOMAIN d /\ e.tests = v /\ e.folders = d.folders /\ e.runs = d.runs
                /\ e.next = d.next /\ e.settings = d.settings
           /\ \A v : LET e == [d EXCEPT !.folders = v] IN
                /\ DOMAIN e = DOMAIN d /\ e.tests = d.tests /\ e.folders = v /\ e.runs = d.runs
                /\ e.next = d.next /\ e.settings = d.settings
           /\ \A v : LET e == [d EXCEPT !.runs = v] IN
                /\ DOMAIN e = DOMAIN d /\ e.tests = d.tests /\ e.folders = d.folders /\ e.runs = v
                /\ e.next = d.next /\ e.settings = d.settings
           /\ \A v : LET e == [d EXCEPT !.settings = v] IN
                /\ DOMAIN e = DOMAIN d /\ e.tests = d.tests /\ e.folders = d.folders /\ e.runs = d.runs
                /\ e.next = d.next /\ e.settings = v
           /\ \A v, w : LET e == [d EXCEPT !.tests = v, !.runs = w] IN
                /\ DOMAIN e = DOMAIN d /\ e.tests = v /\ e.folders = d.folders /\ e.runs = w
                /\ e.next = d.next /\ e.settings = d.settings
           /\ \A v, w : LET e == [d EXCEPT !.tests = v, !.folders = w] IN
                /\ DOMAIN e = DOMAIN d /\ e.tests = v /\ e.folders = w /\ e.runs = d.runs
                /\ e.next = d.next /\ e.settings = d.settings
           /\ \A v, w : LET e == [d EXCEPT !.next = v, !.folders = w] IN
                /\ DOMAIN e = DOMAIN d /\ e.tests = d.tests /\ e.folders = w /\ e.runs = d.runs
                /\ e.next = v /\ e.settings = d.settings
BY DEF DbKnown

LEMMA SameRuns ==
    ASSUME NEW d, NEW e, DbKnown(d), e.runs = d.runs, e.next \in Nat, d.next <= e.next
    PROVE  RunsKept(d, e) /\ IsFiniteSet(DOMAIN e.runs)
BY DEF DbKnown, RunsKept

LEMMA EffectKnown ==
    ASSUME NEW ask, NEW x, NEW d, DbKnown(d), setup \in Setups
    PROVE  LET e == Effect(ask, x, d) IN
           /\ EffectOn(d, e)
           /\ ask \notin {"createFolder", "removeFolder", "setCollapsed"} => e.folders = d.folders
           /\ ask # "updateSettings" => e.settings = d.settings
<1> DEFINE e == Effect(ask, x, d)
<1>1. IsFiniteSet(DOMAIN d.tests) /\ DOMAIN d.tests \subseteq Nat /\ d.next \in Nat
      /\ \A f \in DOMAIN d.folders : DOMAIN d.folders[f] = {"up", "closed"}
  BY DEF DbKnown
<1>2. RunsKept(d, d) /\ IsFiniteSet(DOMAIN d.runs)
  BY SameRuns, <1>1
<1>3. CASE \E ts : \E n \in Nat : e = Queue(ts, n, d)
  <2>4. PICK ts : \E n \in Nat : e = Queue(ts, n, d)
    BY <1>3
  <2>1. PICK n \in Nat : e = Queue(ts, n, d)
    BY <2>4
  <2> HIDE DEF e
  <2>2. /\ DOMAIN e = DOMAIN d /\ e.tests = d.tests /\ e.folders = d.folders /\ e.settings = d.settings
        /\ RunsKept(d, e) /\ IsFiniteSet(DOMAIN e.runs)
    BY <2>1, Queued
  <2>3. DbKnown(e)
    BY <1>1, <2>2, RunsKnown
  <2> QED
    BY <2>2, <2>3 DEF e, EffectOn
<1>4. CASE ask = "removeRun"
  <2>1. e = [d EXCEPT !.runs = Drop(d.runs, {x.run})]
    BY <1>4 DEF Effect
  <2> HIDE DEF e
  <2>2. /\ DOMAIN e = DOMAIN d /\ e.tests = d.tests /\ e.folders = d.folders /\ e.settings = d.settings
        /\ e.next = d.next /\ e.runs = Drop(d.runs, {x.run})
    BY <2>1, Fields
  <2>3. RunsKept(d, e) /\ IsFiniteSet(DOMAIN e.runs)
    BY <2>2, RunsDropped
  <2>4. DbKnown(e)
    BY <1>1, <2>2, <2>3, RunsKnown
  <2> QED
    BY <2>2, <2>3, <2>4 DEF e, EffectOn
<1>5. CASE ask = "removeTest"
  <2>1. e = [d EXCEPT !.tests = Drop(d.tests, {x.test}), !.runs = Drop(d.runs, RunsOf(x.test, d))]
    BY <1>5 DEF Effect
  <2> HIDE DEF e
  <2>2. /\ DOMAIN e = DOMAIN d /\ e.tests = Drop(d.tests, {x.test}) /\ e.folders = d.folders /\ e.settings = d.settings
        /\ e.next = d.next /\ e.runs = Drop(d.runs, RunsOf(x.test, d))
    BY <2>1, Fields
  <2>3. RunsKept(d, e) /\ IsFiniteSet(DOMAIN e.runs)
    BY <2>2, RunsDropped
  <2>4. DOMAIN e.tests \in SUBSET DOMAIN d.tests
    BY <2>2 DEF Drop
  <2>5. IsFiniteSet(DOMAIN e.tests) /\ DOMAIN e.tests \subseteq Nat
    BY <1>1, <2>4, FS_Subset
  <2>6. DbKnown(e)
    BY <1>1, <2>2, <2>3, <2>5, RunsKnown
  <2> QED
    BY <1>5, <2>2, <2>3, <2>6 DEF e, EffectOn
<1>6. CASE ask = "move"
  <2> DEFINE v == [t \in DOMAIN d.tests |-> IF t = x.test THEN x.folder ELSE d.tests[t]]
  <2>1. e = [d EXCEPT !.tests = v]
    BY <1>6 DEF Effect
  <2>5. DOMAIN v = DOMAIN d.tests
    OBVIOUS
  <2> HIDE DEF e, v
  <2>2. /\ DOMAIN e = DOMAIN d /\ DOMAIN e.tests = DOMAIN d.tests /\ e.folders = d.folders /\ e.settings = d.settings
        /\ e.next = d.next /\ e.runs = d.runs
    BY <2>1, <2>5, Fields
  <2>3. RunsKept(d, e) /\ IsFiniteSet(DOMAIN e.runs)
    BY <1>1, <2>2, SameRuns
  <2>4. DbKnown(e)
    BY <1>1, <2>2, <2>3, RunsKnown
  <2> QED
    BY <1>6, <2>2, <2>3, <2>4 DEF e, EffectOn
<1>7. CASE ask = "setCollapsed"
  <2> DEFINE v == [f \in DOMAIN d.folders |-> IF f = x.folder THEN [d.folders[f] EXCEPT !.closed = x.closed] ELSE d.folders[f]]
  <2>1. e = [d EXCEPT !.folders = v]
    BY <1>7 DEF Effect
  <2>2. \A f \in DOMAIN v : DOMAIN v[f] = {"up", "closed"}
    BY <1>1
  <2> HIDE DEF e, v
  <2>3. /\ DOMAIN e = DOMAIN d /\ e.tests = d.tests /\ e.folders = v /\ e.settings = d.settings
        /\ e.next = d.next /\ e.runs = d.runs
    BY <2>1, Fields
  <2>4. RunsKept(d, e) /\ IsFiniteSet(DOMAIN e.runs)
    BY <1>1, <2>3, SameRuns
  <2>5. DbKnown(e)
    BY <1>1, <2>2, <2>3, <2>4, RunsKnown
  <2> QED
    BY <1>7, <2>3, <2>4, <2>5 DEF e, EffectOn
<1>8. CASE ask = "createFolder"
  <2> DEFINE v == Entry(d.next, [up |-> x.folder, closed |-> FALSE]) ++ d.folders
  <2>1. e = [d EXCEPT !.next = d.next + 1, !.folders = v]
    BY <1>8 DEF Effect
  <2>2. \A f \in DOMAIN v : DOMAIN v[f] = {"up", "closed"}
    BY <1>1 DEF ++, Entry
  <2> HIDE DEF e, v
  <2>3. /\ DOMAIN e = DOMAIN d /\ e.tests = d.tests /\ e.folders = v /\ e.settings = d.settings
        /\ e.next = d.next + 1 /\ e.runs = d.runs
    BY <2>1, Fields
  <2>4. RunsKept(d, e) /\ IsFiniteSet(DOMAIN e.runs)
    BY <1>1, <2>3, SameRuns
  <2>5. DbKnown(e)
    BY <1>1, <2>2, <2>3, <2>4, RunsKnown
  <2> QED
    BY <1>8, <2>3, <2>4, <2>5 DEF e, EffectOn
<1>9. CASE ask = "removeFolder"
  <2>1. e = Lift(x.folder, d)
    BY <1>9 DEF Effect
  <2>2. CASE x.folder \notin DOMAIN d.folders
    <3>1. e = d
      BY <2>1, <2>2 DEF Lift
    <3> QED
      BY <3>1, <1>2, <1>9 DEF EffectOn
  <2>3. CASE x.folder \in DOMAIN d.folders
    <3> DEFINE up(y) == IF y = x.folder THEN d.folders[x.folder].up ELSE y
               v == [t \in DOMAIN d.tests |-> up(d.tests[t])]
               w == [g \in DOMAIN d.folders \ {x.folder} |-> [up |-> up(d.folders[g].up), closed |-> d.folders[g].closed]]
    <3>1. e = [d EXCEPT !.tests = v, !.folders = w]
      BY <2>1, <2>3 DEF Lift
    <3>2. DOMAIN v = DOMAIN d.tests /\ \A g \in DOMAIN w : DOMAIN w[g] = {"up", "closed"}
      BY <1>1
    <3> HIDE DEF e, v, w
    <3>3. /\ DOMAIN e = DOMAIN d /\ e.tests = v /\ e.folders = w /\ e.settings = d.settings
          /\ e.next = d.next /\ e.runs = d.runs
      BY <3>1, Fields
    <3>4. RunsKept(d, e) /\ IsFiniteSet(DOMAIN e.runs)
      BY <1>1, <3>3, SameRuns
    <3>5. DbKnown(e)
      BY <1>1, <3>2, <3>3, <3>4, RunsKnown
    <3> QED
      BY <1>9, <3>3, <3>4, <3>5 DEF e, EffectOn
  <2> QED
    BY <2>2, <2>3
<1>10. CASE ask = "updateSettings"
  <2>1. e = [d EXCEPT !.settings = x.settings]
    BY <1>10 DEF Effect
  <2> HIDE DEF e
  <2>2. /\ DOMAIN e = DOMAIN d /\ e.tests = d.tests /\ e.folders = d.folders
        /\ e.next = d.next /\ e.runs = d.runs
    BY <2>1, Fields
  <2>3. RunsKept(d, e) /\ IsFiniteSet(DOMAIN e.runs)
    BY <1>1, <2>2, SameRuns
  <2>4. DbKnown(e)
    BY <1>1, <2>2, <2>3, RunsKnown
  <2> QED
    BY <1>10, <2>2, <2>3, <2>4 DEF e, EffectOn
<1>11. CASE e = d
  BY <1>2, <1>11 DEF EffectOn
<1>13. setup.fan \in Nat /\ 1 \in Nat
  BY SetupsAssumption
<1>12. \/ \E ts : \E n \in Nat : e = Queue(ts, n, d)
       \/ ask \in {"removeRun", "removeTest", "move", "setCollapsed", "createFolder", "removeFolder", "updateSettings"}
       \/ e = d
  BY <1>13, Zenon DEF Effect
<1> QED
  BY <1>3, <1>4, <1>5, <1>6, <1>7, <1>8, <1>9, <1>10, <1>11, <1>12

(* What is done in part is done as well as all of it. *)
LEMMA PartlyKnown ==
    ASSUME NEW ask, NEW x, NEW d, DbKnown(d), setup \in Setups, NEW e \in Partly(ask, x, d)
    PROVE  /\ EffectOn(d, e)
           /\ ask \notin {"createFolder", "removeFolder", "setCollapsed"} => e.folders = d.folders
           /\ ask # "updateSettings" => e.settings = d.settings
<1>1. CASE e = Effect(ask, x, d)
  BY <1>1, EffectKnown
<1>2. CASE e = d
  BY <1>2, SameRuns DEF EffectOn, DbKnown
<1>3. CASE ask = "create" /\ \E n \in 1 .. setup.fan - 1 : e = Queue(x.tests, n, d)
  <2>4. PICK ts : ts = x.tests
    OBVIOUS
  <2>5. 1 .. setup.fan - 1 \subseteq Nat
    BY SetupsAssumption
  <2>1. PICK n \in Nat : e = Queue(ts, n, d)
    BY <1>3, <2>4, <2>5
  <2>6. DbKnown(d)
    OBVIOUS
  <2>2. /\ DOMAIN e = DOMAIN d /\ e.tests = d.tests /\ e.folders = d.folders /\ e.settings = d.settings
        /\ RunsKept(d, e) /\ IsFiniteSet(DOMAIN e.runs)
    BY ONLY <2>1, <2>6, Queued
  <2>3. DbKnown(e)
    BY <2>2, RunsKnown DEF DbKnown
  <2> QED
    BY <2>2, <2>3 DEF EffectOn
<1> QED
  BY <1>1, <1>2, <1>3 DEF Partly

-----------------------------------------------------------------------------
(* The page and the world of every state. *)

LEMMA SetFits ==
    ASSUME NEW what, Set(what), DOMAIN what \subseteq DOMAIN ui
    PROVE  DOMAIN ui' = DOMAIN ui
BY SetParts

LEMMA ActCounts ==
    ASSUME NEW name, Act(name), WorldKnown
    PROVE  ui.mounted /\ count' \in [acts : Nat, others : Nat, faults : Nat] /\ count'.acts > count.acts
BY DEF Act, WorldKnown

HistKept == DOMAIN hist' = DOMAIN hist /\ hist'.mixed \in BOOLEAN /\ hist'.reloads \in Nat /\ hist'.wrote \in Nat

(* A step of the page adds to no run of the button, to no loss and to no work of others. *)
Own == hist'.mine = hist.mine /\ hist'.again = hist.again /\ hist'.lost = hist.lost /\ hist'.wrote = hist.wrote

LEMMA HistFields ==
    ASSUME WorldKnown
    PROVE  /\ UNCHANGED hist => HistKept /\ Own
           /\ \A v : hist' = [hist EXCEPT !.late = v] => HistKept /\ Own
           /\ \A v, w : hist' = [hist EXCEPT !.mine = v, !.again = w] => HistKept
           /\ \A v : hist' = [hist EXCEPT !.lost = v] => HistKept
           /\ \A v : hist' = [hist EXCEPT !.edited = v] => HistKept /\ Own
           /\ Mixes => HistKept /\ Own
           /\ hist' = [hist EXCEPT !.reloads = @ + 1] => HistKept /\ Own
<1>1. \A b \in BOOLEAN : hist' = [hist EXCEPT !.mixed = b] => HistKept /\ Own
  BY DEF WorldKnown, HistKept, Own
<1>2. ASSUME Mixes PROVE \E b \in BOOLEAN : hist' = [hist EXCEPT !.mixed = b]
  <2>1. PICK b \in BOOLEAN : b = (hist.mixed \/ \E k \in tasks : k.who \in Folding)
    OBVIOUS
  <2> QED
    BY <1>2, <2>1, Zenon DEF Mixes
<1>3. hist' = [hist EXCEPT !.reloads = @ + 1] => HistKept /\ Own
  BY DEF WorldKnown, HistKept, Own
<1>4. \A v : hist' = [hist EXCEPT !.late = v] \/ hist' = [hist EXCEPT !.edited = v] => HistKept /\ Own
  BY DEF WorldKnown, HistKept, Own
<1>5. /\ UNCHANGED hist => HistKept /\ Own
      /\ \A v : hist' = [hist EXCEPT !.lost = v] => HistKept
      /\ \A v, w : hist' = [hist EXCEPT !.mine = v, !.again = w] => HistKept
  BY DEF WorldKnown, HistKept, Own
<1> QED
  BY <1>1, <1>2, <1>3, <1>4, <1>5

(* A step of the page alone. *)
PageStep == UNCHANGED << setup, db >> /\ DOMAIN ui' = DOMAIN ui /\ HistKept /\ Own

LEMMA UserSteps ==
    ASSUME WorldKnown,
           \/ Page = "home" /\ UserOnList
           \/ Page = "now" /\ PressRunNow
           \/ Page = "recent" /\ UserOnRecent
           \/ Page = "run" /\ UserOnRun
           \/ Page = "settings" /\ UserOnSettings
    PROVE  PageStep /\ \E name : Act(name)
<1> USE DEF PageStep
<1>1. DOMAIN ui = {"mounted", "gen"} \cup Signals[Page]
  BY DEF WorldKnown
<1>2. CASE Page = "home" /\ UserOnList
  <2>1. DOMAIN ui = {"mounted", "gen", "tests", "folders", "closed", "selected", "running", "prompt"}
    BY <1>1, <1>2 DEF Signals
  <2>2. ASSUME NEW t, ToggleSelected(t) PROVE PageStep /\ \E name : Act(name)
    BY <2>1, <2>2, SetFits, HistFields DEF ToggleSelected
  <2>3. ASSUME NEW t, RunOne(t) PROVE PageStep /\ \E name : Act(name)
    BY <2>3, HistFields DEF RunOne
  <2>4. ASSUME NEW t, RemoveTest(t) PROVE PageStep /\ \E name : Act(name)
    BY <2>4, HistFields DEF RemoveTest
  <2>5. ASSUME NEW t, NEW f, MoveTest(t, f) PROVE PageStep /\ \E name : Act(name)
    BY <2>5, HistFields DEF MoveTest
  <2>6. ASSUME NEW ids, ToggleMany(ids) PROVE PageStep /\ \E name : Act(name)
    BY <2>1, <2>6, SetFits, HistFields DEF ToggleMany
  <2>7. ASSUME ClearSelected \/ CancelPrompt PROVE PageStep /\ \E name : Act(name)
    BY <2>1, <2>7, SetFits, HistFields DEF ClearSelected, CancelPrompt
  <2>8. ASSUME RunSelected PROVE PageStep /\ \E name : Act(name)
    BY <2>1, <2>8, SetFits, HistFields DEF RunSelected
  <2>9. ASSUME NEW f, Toggle(f) PROVE PageStep /\ \E name : Act(name)
    BY <2>1, <2>9, SetFits, HistFields DEF Toggle
  <2>10. ASSUME NEW f, RemoveFolder(f) PROVE PageStep /\ \E name : Act(name)
    BY <2>1, <2>10, SetFits, HistFields DEF RemoveFolder
  <2>11. ASSUME NEW p, OpenPrompt(p) PROVE PageStep /\ \E name : Act(name)
    BY <2>1, <2>11, SetFits, HistFields DEF OpenPrompt
  <2>12. ASSUME NEW same, SubmitPrompt(same) PROVE PageStep /\ \E name : Act(name)
    BY <2>1, <2>12, SetFits, HistFields DEF SubmitPrompt
  <2> QED
    BY <1>2, <2>2, <2>3, <2>4, <2>5, <2>6, <2>7, <2>8, <2>9, <2>10, <2>11, <2>12 DEF UserOnList
<1>3. CASE Page = "now" /\ PressRunNow
  <2>1. DOMAIN ui = {"mounted", "gen", "active", "starting"}
    BY <1>1, <1>3 DEF Signals
  <2> QED
    BY <2>1, <1>3, SetFits, HistFields DEF PressRunNow
<1>4. CASE Page = "recent" /\ UserOnRecent
  <2>1. DOMAIN ui = {"mounted", "gen", "runs", "deleting"}
    BY <1>1, <1>4 DEF Signals
  <2> QED
    BY <2>1, <1>4, SetFits, HistFields DEF UserOnRecent, RemoveListedRun
<1>5. CASE Page = "run" /\ UserOnRun
  <2>1. DOMAIN ui = {"mounted", "gen", "run", "status", "rows", "triage", "busy"}
    BY <1>1, <1>5 DEF Signals
  <2> QED
    BY <2>1, <1>5, SetFits, HistFields DEF UserOnRun, Retry, RemoveShownRun
<1>6. CASE Page = "settings" /\ UserOnSettings
  <2>1. DOMAIN ui = {"mounted", "gen", "form", "busy"}
    BY <1>1, <1>6 DEF Signals
  <2>2. ASSUME NEW b, ToggleBrowser(b) PROVE PageStep /\ \E name : Act(name)
    BY <2>1, <2>2, SetFits, HistFields DEF ToggleBrowser
  <2>3. ASSUME NEW key, NEW n, EditSetting(key, n) PROVE PageStep /\ \E name : Act(name)
    BY <2>1, <2>3, SetFits, HistFields DEF EditSetting
  <2>4. ASSUME SaveSettings PROVE PageStep /\ \E name : Act(name)
    BY <2>1, <2>4, SetFits, HistFields DEF SaveSettings
  <2> QED
    BY <1>6, <2>2, <2>3, <2>4 DEF UserOnSettings
<1> QED
  BY <1>2, <1>3, <1>4, <1>5, <1>6

(* What the page does with an answer. *)
LEMMA ResumeSteps ==
    ASSUME WorldKnown, ChainsKnown, NEW who, NEW k \in tasks, Continue(who, k)
    PROVE  PageStep /\ UNCHANGED count
<1> USE DEF PageStep
<1>1. DOMAIN ui = {"mounted", "gen"} \cup Signals[Page] /\ k.who = who /\ who \in WhoOn[Page]
      /\ UNCHANGED << setup, db, count >>
  BY DEF WorldKnown, ChainsKnown, TaskKnown, Continue
<1>2. Page \in {"home", "now", "recent", "run", "settings"}
  BY SetupsAssumption DEF WorldKnown, Page
<1>3. CASE Page = "home"
  <2>1. DOMAIN ui = {"mounted", "gen", "tests", "folders", "closed", "selected", "running", "prompt"}
        /\ who \in {"poll", "batch", "runOne", "remove", "move", "toggle", "unfile", "prompt"}
    BY <1>1, <1>3 DEF Signals, WhoOn
  <2>2. CASE who = "poll"
    BY <2>1, <2>2, <1>1, SetFits, HistFields DEF Continue, ResumePoll
  <2>3. CASE who = "batch"
    BY <2>1, <2>3, <1>1, SetFits, HistFields DEF Continue, ResumeBatch
  <2>4. CASE who = "runOne"
    BY <2>1, <2>4, <1>1, SetFits, HistFields DEF Continue, ResumeRunOne
  <2>5. CASE who \in {"remove", "move", "toggle"}
    BY <2>1, <2>5, <1>1, SetFits, HistFields DEF Continue, ResumeEdit
  <2>6. CASE who \in {"unfile", "prompt"}
    BY <2>1, <2>6, <1>1, SetFits, HistFields DEF Continue, ResumeFolders, Refreshed
  <2> QED
    BY <2>1, <2>2, <2>3, <2>4, <2>5, <2>6
<1>4. CASE Page = "now"
  <2>1. DOMAIN ui = {"mounted", "gen", "active", "starting"} /\ who \in {"now", "press"}
    BY <1>1, <1>4 DEF Signals, WhoOn
  <2>2. CASE who = "now"
    BY <2>1, <2>2, <1>1, SetFits, HistFields DEF Continue, ResumeNow
  <2>3. CASE who = "press"
    BY <2>1, <2>3, <1>1, SetFits, HistFields DEF Continue, ResumePress
  <2> QED
    BY <2>1, <2>2, <2>3
<1>5. CASE Page = "recent"
  <2>1. DOMAIN ui = {"mounted", "gen", "runs", "deleting"} /\ who \in {"recent", "removeListed"}
    BY <1>1, <1>5 DEF Signals, WhoOn
  <2>2. CASE who = "recent"
    BY <2>1, <2>2, <1>1, SetFits, HistFields DEF Continue, ResumeRecent
  <2>3. CASE who = "removeListed"
    BY <2>1, <2>3, <1>1, SetFits, HistFields DEF Continue, ResumeRemoveListed
  <2> QED
    BY <2>1, <2>2, <2>3
<1>6. CASE Page = "run"
  <2>1. DOMAIN ui = {"mounted", "gen", "run", "status", "rows", "triage", "busy"} /\ who \in {"tick", "load", "retry", "removeShown"}
    BY <1>1, <1>6 DEF Signals, WhoOn
  <2>2. CASE who = "tick"
    BY <2>1, <2>2, <1>1, SetFits, HistFields DEF Continue, ResumeTick, Reload
  <2>3. CASE who = "load"
    BY <2>1, <2>3, <1>1, SetFits, HistFields DEF Continue, ResumeLoad
  <2>4. CASE who = "retry"
    BY <2>1, <2>4, <1>1, SetFits, HistFields DEF Continue, ResumeRetry
  <2>5. CASE who = "removeShown"
    BY <2>1, <2>5, <1>1, SetFits, HistFields DEF Continue, ResumeRemoveShown
  <2> QED
    BY <2>1, <2>2, <2>3, <2>4, <2>5
<1>7. CASE Page = "settings"
  <2>1. DOMAIN ui = {"mounted", "gen", "form", "busy"} /\ who \in {"save"}
    BY <1>1, <1>7 DEF Signals, WhoOn
  <2> QED
    BY <2>1, <1>1, SetFits, HistFields DEF Continue, ResumeSave
<1> QED
  BY <1>2, <1>3, <1>4, <1>5, <1>6, <1>7

(* What the server does, for the page or for others. *)
Asks == db' = db \/ \E k \in tasks : \E ask \in k.asks : db' \in Partly(ask, k.arg, db)

LEMMA ServeSteps ==
    ASSUME WorldKnown, NEW who, Serve(who)
    PROVE  UNCHANGED << setup, ui, count >> /\ HistKept /\ Asks
BY HistFields DEF Serve, Asks, Partly

LEMMA BreakSteps ==
    ASSUME WorldKnown, NEW k \in tasks, Break(k)
    PROVE  UNCHANGED << setup, ui >> /\ HistKept /\ Asks /\ count' \in [acts : Nat, others : Nat, faults : Nat]
<1>1. UNCHANGED << setup, ui >> /\ count' \in [acts : Nat, others : Nat, faults : Nat]
  BY DEF Break, WorldKnown
<1>2. \E lost : hist' = [hist EXCEPT !.lost = lost]
  BY DEF Break
<1>3. HistKept
  BY <1>2, HistFields
<1>4. Asks
  BY DEF Asks, Break
<1> QED
  BY <1>1, <1>3, <1>4

(* What the worker does to a run. *)
Works(d, e) ==
    \E r \in DOMAIN d.runs : \E run \in Progress(d.runs[r]) :
       DOMAIN e = DOMAIN d /\ e = [d EXCEPT !.runs = e.runs] /\ e.runs = [d.runs EXCEPT ![r] = run]

OthersStep == OthersWork \/ OthersRun \/ OthersRemoveTest \/ OthersRemoveRun \/ OthersFile \/ OthersFold

LEMMA Progressed ==
    ASSUME NEW run, NEW new \in Progress(run), DOMAIN run = {"test", "status", "rows", "triage"}, run.rows \in Nat
    PROVE  /\ DOMAIN new = DOMAIN run /\ new.test = run.test /\ new.rows \in Nat
           /\ new.rows = 0 \/ new.rows = run.rows \/ new.rows = run.rows + 1
BY DEF Progress, Active

(* A run that goes on after its end is one that was delivered once more. *)
AgainKept ==
    /\ hist.again \subseteq hist'.again
    /\ \A r \in DOMAIN db.runs \cap DOMAIN db'.runs : Reopened(db.runs[r], db'.runs[r]) => r \in hist'.again

LEMMA OthersSteps ==
    ASSUME WorldKnown, OthersStep
    PROVE  /\ UNCHANGED << setup, ui, tasks >> /\ HistKept /\ count' \in [acts : Nat, others : Nat, faults : Nat]
           /\ hist' = [hist EXCEPT !.mixed = hist'.mixed, !.wrote = hist'.wrote, !.again = hist'.again] /\ AgainKept
           /\ \/ Works(db, db') /\ hist'.wrote = hist.wrote + 1 /\ hist'.mixed = hist.mixed
              \/ /\ \E ask \in {"create", "removeTest", "removeRun", "move"} : \E x : db' = Effect(ask, x, db)
                 /\ hist'.wrote = hist.wrote /\ hist'.mixed = hist.mixed
              \/ /\ \E x : db' = Effect("setCollapsed", x, db)
                 /\ hist'.wrote = hist.wrote /\ hist'.mixed = TRUE
<1> DEFINE Kept == /\ UNCHANGED << setup, ui, tasks >> /\ HistKept /\ count' \in [acts : Nat, others : Nat, faults : Nat]
                   /\ hist' = [hist EXCEPT !.mixed = hist'.mixed, !.wrote = hist'.wrote, !.again = hist'.again] /\ AgainKept
<1>0. ASSUME NEW name, NEW d, Others(name, d), NEW b \in BOOLEAN, b = (hist.mixed \/ name = "toggle"),
             NEW n, n = hist.wrote + (IF name = "work" THEN 1 ELSE 0)
      PROVE  Kept /\ db' = d /\ hist'.mixed = b /\ hist'.wrote = n
  <2>1. UNCHANGED << setup, ui, tasks >> /\ count' \in [acts : Nat, others : Nat, faults : Nat] /\ db' = d
    BY <1>0 DEF Others, WorldKnown
  <2>4. PICK g : g = hist.again \cup {r \in DOMAIN db.runs \cap DOMAIN d.runs : Reopened(db.runs[r], d.runs[r])}
    OBVIOUS
  <2>2. hist' = [hist EXCEPT !.mixed = b, !.wrote = n, !.again = g]
    BY <1>0, <2>4, Zenon DEF Others
  <2>3. n \in Nat
    BY <1>0 DEF WorldKnown
  <2>5. HistKept /\ hist'.mixed = b /\ hist'.wrote = n /\ hist'.again = g
    BY <2>2, <2>3 DEF WorldKnown, HistKept
  <2>6. AgainKept
    BY <2>1, <2>4, <2>5 DEF AgainKept
  <2> QED
    BY <2>1, <2>2, <2>5, <2>6
<1>1. ASSUME NEW d, Others("work", d) PROVE Kept /\ db' = d /\ hist'.mixed = hist.mixed /\ hist'.wrote = hist.wrote + 1
  <2>1. hist.mixed \in BOOLEAN /\ hist.wrote \in Nat
    BY DEF WorldKnown
  <2>2. hist.mixed = (hist.mixed \/ "work" = "toggle")
    BY <2>1
  <2> HIDE DEF Kept
  <2> QED
    BY <1>0, <1>1, <2>1, <2>2
<1>8. ASSUME NEW name \in {"run", "remove", "removeRun", "move"}, NEW d, Others(name, d)
      PROVE  Kept /\ db' = d /\ hist'.mixed = hist.mixed /\ hist'.wrote = hist.wrote
  <2>1. hist.mixed \in BOOLEAN /\ hist.wrote \in Nat
    BY DEF WorldKnown
  <2>2. hist.mixed = (hist.mixed \/ name = "toggle")
    BY <2>1
  <2> HIDE DEF Kept
  <2> QED
    BY <1>0, <1>8, <2>1, <2>2
<1>9. ASSUME NEW d, Others("toggle", d) PROVE Kept /\ db' = d /\ hist'.mixed = TRUE /\ hist'.wrote = hist.wrote
  <2>1. hist.mixed \in BOOLEAN /\ hist.wrote \in Nat
    BY DEF WorldKnown
  <2>2. PICK b \in BOOLEAN : b = (hist.mixed \/ "toggle" = "toggle")
    OBVIOUS
  <2>3. b = TRUE
    BY <2>2
  <2>5. PICK n : n = hist.wrote + (IF "toggle" = "work" THEN 1 ELSE 0)
    OBVIOUS
  <2>6. n = hist.wrote
    BY <2>1, <2>5
  <2> HIDE DEF Kept
  <2>4. Kept /\ db' = d /\ hist'.mixed = b /\ hist'.wrote = n
    BY <1>0, <1>9, <2>2, <2>5, Zenon
  <2> QED
    BY <2>3, <2>4, <2>6, Zenon
<1>2. CASE OthersWork
  <2>1. PICK r \in DOMAIN db.runs : \E run \in Progress(db.runs[r]) : Others("work", [db EXCEPT !.runs[r] = run])
    BY <1>2 DEF OthersWork
  <2>5. PICK run \in Progress(db.runs[r]) : Others("work", [db EXCEPT !.runs[r] = run])
    BY <2>1
  <2>2. PICK d : d = [db EXCEPT !.runs[r] = run]
    OBVIOUS
  <2>3. DOMAIN d = DOMAIN db /\ d = [db EXCEPT !.runs = d.runs] /\ d.runs = [db.runs EXCEPT ![r] = run]
    BY <2>2 DEF WorldKnown, DbKnown
  <2>4. Works(db, db')
    <3>1. Others("work", d)
      BY <2>5, <2>2
    <3>2. db' = d
      BY <3>1, <1>1
    <3> QED
      BY <3>2, <2>3 DEF Works
  <2> QED
    BY <2>4, <2>5, <1>1
<1>3. CASE OthersRun
  <2>1. PICK t \in DOMAIN db.tests : Others("run", Queue({t}, setup.fan, db))
    BY <1>3 DEF OthersRun
  <2>2. PICK x : x = [tests |-> {t}]
    OBVIOUS
  <2>3. PICK d : d = Effect("create", x, db)
    OBVIOUS
  <2>4. Others("run", d)
    BY <2>1, <2>2, <2>3 DEF Effect
  <2> QED
    BY <2>3, <2>4, <1>8
<1>4. CASE OthersRemoveTest
  <2>1. PICK x : Others("remove", Effect("removeTest", x, db))
    BY <1>4 DEF OthersRemoveTest
  <2>2. PICK d : d = Effect("removeTest", x, db) /\ Others("remove", d)
    BY <2>1
  <2> QED
    BY <2>2, <1>8
<1>5. CASE OthersRemoveRun
  <2>1. PICK x : Others("removeRun", Effect("removeRun", x, db))
    BY <1>5 DEF OthersRemoveRun
  <2>2. PICK d : d = Effect("removeRun", x, db) /\ Others("removeRun", d)
    BY <2>1
  <2> QED
    BY <2>2, <1>8
<1>6. CASE OthersFile
  <2>1. PICK x : Others("move", Effect("move", x, db))
    BY <1>6 DEF OthersFile
  <2>2. PICK d : d = Effect("move", x, db) /\ Others("move", d)
    BY <2>1
  <2> QED
    BY <2>2, <1>8
<1>7. CASE OthersFold
  <2>1. PICK x : Others("toggle", Effect("setCollapsed", x, db))
    BY <1>7 DEF OthersFold
  <2>2. PICK d : d = Effect("setCollapsed", x, db) /\ Others("toggle", d)
    BY <2>1
  <2> HIDE DEF Kept
  <2>3. Kept /\ db' = d /\ hist'.mixed = TRUE /\ hist'.wrote = hist.wrote
    BY <2>2, <1>9, Zenon
  <2> QED
    BY <2>2, <2>3, Zenon DEF Kept
<1> QED
  BY <1>2, <1>3, <1>4, <1>5, <1>6, <1>7 DEF OthersStep

LEMMA WorksKnown ==
    ASSUME NEW d, NEW e, DbKnown(d), Works(d, e)
    PROVE  DbKnown(e) /\ DOMAIN e.runs = DOMAIN d.runs /\ e.tests = d.tests /\ e.folders = d.folders /\ e.next = d.next
           /\ e.settings = d.settings
<1>0. PICK r \in DOMAIN d.runs : \E run \in Progress(d.runs[r]) :
         DOMAIN e = DOMAIN d /\ e = [d EXCEPT !.runs = e.runs] /\ e.runs = [d.runs EXCEPT ![r] = run]
  BY DEF Works
<1>1. PICK run \in Progress(d.runs[r]) :
         DOMAIN e = DOMAIN d /\ e = [d EXCEPT !.runs = e.runs] /\ e.runs = [d.runs EXCEPT ![r] = run]
  BY <1>0
<1>2. e.tests = d.tests /\ e.folders = d.folders /\ e.next = d.next /\ e.settings = d.settings
  <2>1. PICK v : v = e.runs
    OBVIOUS
  <2>2. e = [d EXCEPT !.runs = v]
    BY <1>1, <2>1
  <2> QED
    BY <2>2, Fields
<1>3. DOMAIN run = {"test", "status", "rows", "triage"} /\ run.rows \in Nat
  BY Progressed DEF DbKnown
<1> QED
  BY <1>1, <1>2, <1>3 DEF DbKnown

(* Every step is the user's, the page's, the server's or the others'. *)
UserStep ==
    \/ Page = "home" /\ UserOnList
    \/ Page = "now" /\ PressRunNow
    \/ Page = "recent" /\ UserOnRecent
    \/ Page = "run" /\ UserOnRun
    \/ Page = "settings" /\ UserOnSettings

LEMMA Steps ==
    ASSUME [Next]_vars
    PROVE  \/ UNCHANGED vars
           \/ UserStep
           \/ Leave
           \/ \E who \in Who : Tick(who)
           \/ \E who \in Who : Serve(who)
           \/ \E who \in Who : \E k \in tasks : Continue(who, k)
           \/ \E k \in tasks : Break(k)
           \/ OthersStep
BY DEF Next, UserStep, OthersStep, Resume

LEMMA WorldFrom ==
    ASSUME WorldKnown, setup' = setup, DbKnown(db'), DOMAIN ui' = DOMAIN ui, HistKept,
           count' \in [acts : Nat, others : Nat, faults : Nat]
    PROVE  WorldKnown'
BY DEF WorldKnown, HistKept, Page, DbKnown

LEMMA AsksKnown ==
    ASSUME DbKnown(db), setup \in Setups, Asks
    PROVE  EffectOn(db, db')
<1>1. RunsKept(db, db) /\ EffectOn(db, db)
  BY SameRuns DEF EffectOn, DbKnown
<1>2. ASSUME NEW ask, NEW x, db' \in Partly(ask, x, db) PROVE EffectOn(db, db')
  BY <1>2, PartlyKnown
<1>3. CASE db' = db
  BY <1>1, <1>3
<1> QED
  BY <1>2, <1>3 DEF Asks

LEMMA WorldNext ==
    ASSUME WorldKnown, ChainsKnown, [Next]_vars
    PROVE  WorldKnown' /\ setup' = setup
<1>1. DbKnown(db) /\ setup \in Setups /\ count \in [acts : Nat, others : Nat, faults : Nat] /\ (UNCHANGED hist => HistKept)
  BY HistFields DEF WorldKnown
<1>2. CASE UNCHANGED vars
  BY <1>1, <1>2, WorldFrom DEF vars
<1>3. CASE UserStep
  <2>1. PageStep /\ \E name : Act(name)
    BY <1>3, UserSteps DEF UserStep
  <2>2. count' \in [acts : Nat, others : Nat, faults : Nat]
    BY <2>1, ActCounts
  <2> QED
    BY <1>1, <2>1, <2>2, WorldFrom DEF PageStep
<1>4. CASE Leave
  <2>1. DOMAIN ui' = DOMAIN ui
    BY <1>4, SetFits DEF Leave, WorldKnown
  <2> QED
    BY <1>1, <1>4, <2>1, WorldFrom DEF Leave
<1>5. ASSUME NEW who, Tick(who) PROVE WorldKnown' /\ setup' = setup
  BY <1>1, <1>5, WorldFrom DEF Tick
<1>6. ASSUME NEW who, Serve(who) PROVE WorldKnown' /\ setup' = setup
  BY <1>1, <1>6, ServeSteps, AsksKnown, WorldFrom DEF EffectOn
<1>7. ASSUME NEW who, NEW k \in tasks, Continue(who, k) PROVE WorldKnown' /\ setup' = setup
  BY <1>1, <1>7, ResumeSteps, WorldFrom DEF PageStep
<1>8. ASSUME NEW k \in tasks, Break(k) PROVE WorldKnown' /\ setup' = setup
  BY <1>1, <1>8, BreakSteps, AsksKnown, WorldFrom DEF EffectOn
<1>9. CASE OthersStep
  <2>1. UNCHANGED << setup, ui, tasks >> /\ HistKept /\ count' \in [acts : Nat, others : Nat, faults : Nat]
    BY <1>9, OthersSteps
  <2>2. Works(db, db') \/ \E ask : \E x : db' = Effect(ask, x, db)
    BY <1>9, OthersSteps
  <2>3. ASSUME NEW ask, NEW x, db' = Effect(ask, x, db) PROVE DbKnown(db')
    BY <1>1, <2>3, EffectKnown DEF EffectOn
  <2>4. DbKnown(db')
    BY <1>1, <2>2, <2>3, WorksKnown
  <2> QED
    BY <2>1, <2>4, WorldFrom
<1> QED
  BY <1>2, <1>3, <1>4, <1>5, <1>6, <1>7, <1>8, <1>9, Steps

LEMMA WorldFirst == Init => WorldKnown
<1> SUFFICES ASSUME Init PROVE WorldKnown
  OBVIOUS
<1>1. setup \in Setups /\ DbKnown(db) /\ Page \in {"home", "now", "recent", "run", "settings"}
  BY SetupsAssumption DEF Init, Page
<1>2. DOMAIN ui = {"mounted", "gen"} \cup Signals[Page]
  <2>1. ui = Opened(setup) /\ setup.page = Page
    BY DEF Init, Page
  <2>2. CASE Page = "home"
    BY <2>1, <2>2 DEF Opened, Signals
  <2>3. CASE Page = "now"
    BY <2>1, <2>3 DEF Opened, Signals
  <2>4. CASE Page = "recent"
    BY <2>1, <2>4 DEF Opened, Signals
  <2>5. CASE Page = "run"
    BY <2>1, <2>5 DEF Opened, Signals
  <2>6. CASE Page = "settings"
    BY <2>1, <2>6 DEF Opened, Signals
  <2> QED
    BY <1>1, <2>2, <2>3, <2>4, <2>5, <2>6
<1>3. count \in [acts : Nat, others : Nat, faults : Nat]
  BY DEF Init
<1>4. DOMAIN hist = {"mine", "lost", "late", "mixed", "reloads", "wrote", "edited", "again"}
      /\ hist.mixed \in BOOLEAN /\ hist.reloads \in Nat /\ hist.wrote \in Nat
  BY DEF Init
<1> QED
  BY <1>1, <1>2, <1>3, <1>4 DEF WorldKnown

(* The chains of polls of every state. *)
LEMMA GenKept ==
    ASSUME NEW what, Set(what), "gen" \in DOMAIN ui
    PROVE  /\ "gen" \notin DOMAIN what => ui'.gen = ui.gen
           /\ "gen" \in DOMAIN what => ui'.gen = what["gen"]
BY SetParts

LEMMA StartsKnown ==
    ASSUME ChainsKnown, NEW who, NEW asks, NEW x, Starts(who, asks, x), setup' = setup, ui'.gen = ui.gen,
           who \in WhoOn[Page], who \notin Pollers, asks \in Stages[who], "runs" \notin asks
    PROVE  ChainsKnown'
<1>1. PICK k : k = Task(who, 0, asks, x)
  OBVIOUS
<1>2. tasks' = tasks \cup {k}
  BY <1>1 DEF Starts
<1>3. TaskKnown(k)
  <2>1. /\ DOMAIN k = {"who", "gen", "at", "asks", "arg", "got"}
        /\ k.who = who /\ k.at = "sent" /\ k.asks = asks /\ DOMAIN k.got = {}
    BY <1>1, Tasks
  <2>2. k.asks \cup DOMAIN k.got = asks
    BY <2>1
  <2> QED
    BY <2>1, <2>2 DEF TaskKnown
<1> QED
  BY <1>1, <1>2, <1>3, Tasks, ChainsAdd

LEMMA FirstAsks ==
    /\ {"tests", "folders"} \in Stages.prompt /\ {"createFolder"} \in Stages.prompt /\ {"renameFolder"} \in Stages.prompt
    /\ {"tests", "folders"} \in Stages.unfile /\ {"removeFolder"} \in Stages.unfile
    /\ {"tests"} \in Stages.batch /\ {"createMany"} \in Stages.batch
    /\ {"tests"} \in Stages.runOne /\ {"create"} \in Stages.runOne /\ {"create"} \in Stages.press
    /\ {"removeTest"} \in Stages.remove /\ {"move"} \in Stages.move /\ {"setCollapsed"} \in Stages.toggle
    /\ {"removeRun"} \in Stages.removeListed /\ {"removeRun"} \in Stages.removeShown
    /\ {"retry"} \in Stages.retry /\ {"updateSettings"} \in Stages.save /\ {"run"} \in Stages.load
    /\ {"tests"} \in Stages.poll /\ {"runs"} \in Stages.now /\ {"runs"} \in Stages.recent /\ {"run"} \in Stages.tick
BY DEF Stages

LEMMA UserChains ==
    ASSUME WorldKnown, ChainsKnown, UserStep
    PROVE  ChainsKnown'
<1>1. DOMAIN ui = {"mounted", "gen"} \cup Signals[Page] /\ setup' = setup
  BY UserSteps DEF WorldKnown, UserStep, PageStep
<1>2. "gen" \in DOMAIN ui
  BY <1>1
<1>3. CASE Page = "home" /\ UserOnList
  <2>1. WhoOn[Page] = {"poll", "batch", "runOne", "remove", "move", "toggle", "unfile", "prompt"}
    BY <1>3 DEF WhoOn
  <2>2. ASSUME NEW t, ToggleSelected(t) PROVE ChainsKnown'
    BY <1>1, <1>2, <2>2, GenKept, ChainsFew DEF ToggleSelected
  <2>3. ASSUME NEW t, RunOne(t) PROVE ChainsKnown'
    BY <1>1, <2>1, <2>3, StartsKnown, FirstAsks DEF RunOne, Pollers
  <2>4. ASSUME NEW t, RemoveTest(t) PROVE ChainsKnown'
    BY <1>1, <2>1, <2>4, StartsKnown, FirstAsks DEF RemoveTest, Pollers
  <2>5. ASSUME NEW t, NEW f, MoveTest(t, f) PROVE ChainsKnown'
    BY <1>1, <2>1, <2>5, StartsKnown, FirstAsks DEF MoveTest, Pollers
  <2>6. ASSUME NEW ids, ToggleMany(ids) PROVE ChainsKnown'
    BY <1>1, <1>2, <2>6, GenKept, ChainsFew DEF ToggleMany
  <2>7. ASSUME ClearSelected \/ CancelPrompt PROVE ChainsKnown'
    BY <1>1, <1>2, <2>7, GenKept, ChainsFew DEF ClearSelected, CancelPrompt
  <2>8. ASSUME RunSelected PROVE ChainsKnown'
    <3>1. ui'.gen = ui.gen
      BY <1>2, <2>8, GenKept DEF RunSelected
    <3> QED
      BY <1>1, <2>1, <2>8, <3>1, StartsKnown, FirstAsks DEF RunSelected, Pollers
  <2>9. ASSUME NEW f, Toggle(f) PROVE ChainsKnown'
    <3>1. ui'.gen = ui.gen
      BY <1>2, <2>9, GenKept DEF Toggle
    <3> QED
      BY <1>1, <2>1, <2>9, <3>1, StartsKnown, FirstAsks DEF Toggle, Pollers
  <2>10. ASSUME NEW f, RemoveFolder(f) PROVE ChainsKnown'
    BY <1>1, <2>1, <2>10, StartsKnown, FirstAsks DEF RemoveFolder, Pollers
  <2>11. ASSUME NEW p, OpenPrompt(p) PROVE ChainsKnown'
    BY <1>1, <1>2, <2>11, GenKept, ChainsFew DEF OpenPrompt
  <2>12. ASSUME NEW same, SubmitPrompt(same) PROVE ChainsKnown'
    <3>1. ui'.gen = ui.gen
      BY <1>2, <2>12, GenKept DEF SubmitPrompt
    <3>2. PICK asks \in {{"tests", "folders"}, {"createFolder"}, {"renameFolder"}} : \E x : Starts("prompt", asks, x)
      BY <2>12 DEF SubmitPrompt
    <3> QED
      BY <1>1, <2>1, <3>1, <3>2, StartsKnown, FirstAsks DEF Pollers
  <2> QED
    BY <1>3, <2>2, <2>3, <2>4, <2>5, <2>6, <2>7, <2>8, <2>9, <2>10, <2>11, <2>12 DEF UserOnList
<1>4. CASE Page = "now" /\ PressRunNow
  <2>1. WhoOn[Page] = {"now", "press"}
    BY <1>4 DEF WhoOn
  <2>2. ui'.gen = ui.gen
    BY <1>2, <1>4, GenKept DEF PressRunNow
  <2> QED
    BY <1>1, <1>4, <2>1, <2>2, StartsKnown, FirstAsks DEF PressRunNow, Pollers
<1>5. CASE Page = "recent" /\ UserOnRecent
  <2>1. WhoOn[Page] = {"recent", "removeListed"}
    BY <1>5 DEF WhoOn
  <2>2. PICK r : RemoveListedRun(r)
    BY <1>5 DEF UserOnRecent
  <2>3. ui'.gen = ui.gen
    BY <1>2, <2>2, GenKept DEF RemoveListedRun
  <2> QED
    BY <1>1, <2>1, <2>2, <2>3, StartsKnown, FirstAsks DEF RemoveListedRun, Pollers
<1>6. CASE Page = "run" /\ UserOnRun
  <2>1. WhoOn[Page] = {"tick", "load", "retry", "removeShown"}
    BY <1>6 DEF WhoOn
  <2>2. ui'.gen = ui.gen
    BY <1>2, <1>6, GenKept DEF UserOnRun, Retry, RemoveShownRun
  <2> QED
    BY <1>1, <1>6, <2>1, <2>2, StartsKnown, FirstAsks DEF UserOnRun, Retry, RemoveShownRun, Pollers
<1>7. CASE Page = "settings" /\ UserOnSettings
  <2>1. WhoOn[Page] = {"save"}
    BY <1>7 DEF WhoOn
  <2>2. ASSUME NEW b, ToggleBrowser(b) PROVE ChainsKnown'
    BY <1>1, <1>2, <2>2, GenKept, ChainsFew DEF ToggleBrowser
  <2>3. ASSUME NEW key, NEW n, EditSetting(key, n) PROVE ChainsKnown'
    BY <1>1, <1>2, <2>3, GenKept, ChainsFew DEF EditSetting
  <2>4. ASSUME SaveSettings PROVE ChainsKnown'
    <3>1. ui'.gen = ui.gen
      BY <1>2, <2>4, GenKept DEF SaveSettings
    <3> QED
      BY <1>1, <2>1, <2>4, <3>1, StartsKnown, FirstAsks DEF SaveSettings, Pollers
  <2> QED
    BY <1>7, <2>2, <2>3, <2>4 DEF UserOnSettings
<1> QED
  BY <1>3, <1>4, <1>5, <1>6, <1>7 DEF UserStep

LEMMA AskKnown ==
    ASSUME ChainsKnown, NEW who \in Pollers, NEW gen, gen = ui.gen[who], who \in WhoOn[Page]
    PROVE  TaskKnown(Ask(who, gen))
<1>1. PICK k : k = Ask(who, gen)
  OBVIOUS
<1>2. /\ DOMAIN k = {"who", "gen", "at", "asks", "arg", "got"}
      /\ k.who = who /\ k.gen = gen /\ k.at = "sent" /\ k.asks = {Asked[who]} /\ DOMAIN k.got = {}
  BY <1>1, Tasks DEF Ask
<1>3. k.asks \cup DOMAIN k.got = {Asked[who]}
  BY <1>2
<1>4. {Asked[who]} \in Stages[who]
  <2>1. who = "poll" \/ who = "now" \/ who = "recent" \/ who = "tick"
    BY DEF Pollers
  <2>2. Asked.poll = "tests" /\ Asked.now = "runs" /\ Asked.recent = "runs" /\ Asked.tick = "run"
    BY DEF Asked
  <2> QED
    BY <2>1, <2>2, FirstAsks
<1>5. ui.gen[who] \in Nat
  BY DEF ChainsKnown
<1> QED
  BY <1>1, <1>2, <1>3, <1>4, <1>5 DEF TaskKnown

LEMMA TimerKnown ==
    ASSUME ChainsKnown, NEW who \in Pollers, NEW gen, gen = ui.gen[who], who \in WhoOn[Page]
    PROVE  TaskKnown(Timer(who, gen))
<1>1. PICK k : k = Timer(who, gen)
  OBVIOUS
<1>2. /\ DOMAIN k = {"who", "gen", "at", "asks", "arg", "got"}
      /\ k.who = who /\ k.gen = gen /\ k.at = "timer" /\ k.asks = {} /\ DOMAIN k.got = {}
  BY <1>1, Timers
<1>3. ui.gen[who] \in Nat
  BY DEF ChainsKnown
<1> QED
  BY <1>1, <1>2, <1>3 DEF TaskKnown

LEMMA TickChains ==
    ASSUME ChainsKnown, NEW who, Tick(who)
    PROVE  ChainsKnown'
<1>1. PICK k \in tasks : k.who = who /\ k.at = "timer" /\ Then(k, {Ask(who, k.gen)})
  BY DEF Tick
<1>2. UNCHANGED << setup, ui >>
  BY DEF Tick
<1>3. TaskKnown(k)
  BY DEF ChainsKnown
<1>4. who \in Pollers /\ k.gen = ui.gen[who] /\ who \in WhoOn[Page] /\ Newest(k)
  BY <1>1, <1>3 DEF TaskKnown, Newest
<1>5. PICK j : j = Ask(who, k.gen)
  OBVIOUS
<1>6. TaskKnown(j) /\ j.who = who
  <2>1. PICK gen : gen = k.gen
    OBVIOUS
  <2>2. TaskKnown(Ask(who, gen)) /\ j = Ask(who, gen)
    BY <1>4, <1>5, <2>1, AskKnown
  <2> QED
    BY <2>2, Tasks DEF Ask
<1> QED
  BY <1>1, <1>2, <1>4, <1>5, <1>6, ChainsSwap

LEMMA RunRowsKnown ==
    ASSUME DbKnown(db)
    PROVE  IsFiniteSet(DOMAIN RunRows(db)) /\ \A r \in DOMAIN RunRows(db) : RunRows(db)[r] = db.runs[r].status
<1>1. DOMAIN RunRows(db) \in SUBSET DOMAIN db.runs
  BY DEF RunRows, RunsOf
<1>2. IsFiniteSet(DOMAIN db.runs)
  BY DEF DbKnown
<1>3. IsFiniteSet(DOMAIN RunRows(db))
  BY <1>1, <1>2, FS_Subset
<1> QED
  BY <1>3 DEF RunRows

(* A task that was served, in part or in whole. *)
LEMMA Served ==
    ASSUME WorldKnown, ChainsKnown, NEW k \in tasks, k.at = "sent", NEW ask \in k.asks
    PROVE  LET new == [k EXCEPT !.asks = @ \ {ask}, !.got = Entry(ask, Answer(ask, k.arg, db)) ++ @] IN
           /\ TaskKnown(new) /\ new.who = k.who /\ new.gen = k.gen /\ new.at = "sent" /\ new.arg = k.arg
           /\ new.asks = k.asks \ {ask} /\ DOMAIN new.got = DOMAIN k.got \cup {ask}
           /\ new.got[ask] = Answer(ask, k.arg, db)
           /\ \A a \in DOMAIN k.got \ {ask} : new.got[a] = k.got[a]
<1>1. TaskKnown(k)
  BY DEF ChainsKnown
<1>2. PICK got : got = Entry(ask, Answer(ask, k.arg, db)) ++ k.got
  OBVIOUS
<1>3. /\ DOMAIN got = DOMAIN k.got \cup {ask} /\ got[ask] = Answer(ask, k.arg, db)
      /\ \A a \in DOMAIN k.got \ {ask} : got[a] = k.got[a]
  BY <1>2 DEF ++, Entry
<1>4. PICK new : new = [k EXCEPT !.asks = k.asks \ {ask}, !.got = got]
  OBVIOUS
<1>5. /\ DOMAIN new = DOMAIN k /\ new.who = k.who /\ new.gen = k.gen /\ new.at = k.at /\ new.asks = k.asks \ {ask}
      /\ new.arg = k.arg /\ new.got = got
  BY <1>1, <1>4, Changed DEF TaskKnown
<1>6. new.asks \cup DOMAIN new.got = k.asks \cup DOMAIN k.got
  BY <1>3, <1>5
<1>7. k.who \in {"now", "press"} /\ "runs" \in DOMAIN got => IsFiniteSet(DOMAIN got.runs)
  <2>1. CASE ask = "runs"
    <3>1. got.runs = RunRows(db)
      BY <1>3, <2>1 DEF Answer
    <3> QED
      BY <3>1, RunRowsKnown DEF WorldKnown
  <2>2. CASE ask # "runs"
    BY <1>1, <1>3, <2>2 DEF TaskKnown
  <2> QED
    BY <2>1, <2>2
<1>8. TaskKnown(new)
  BY <1>1, <1>5, <1>6, <1>7 DEF TaskKnown
<1> QED
  BY <1>2, <1>3, <1>4, <1>5, <1>8

LEMMA Erred ==
    ASSUME ChainsKnown, NEW k \in tasks, k.at = "sent"
    PROVE  LET new == [k EXCEPT !.at = "error"] IN
           /\ TaskKnown(new) /\ new.who = k.who /\ new.gen = k.gen /\ new.at = "error" /\ new.asks = k.asks
           /\ new.arg = k.arg /\ new.got = k.got
<1>1. TaskKnown(k)
  BY DEF ChainsKnown
<1>2. PICK new : new = [k EXCEPT !.at = "error"]
  OBVIOUS
<1>3. /\ DOMAIN new = DOMAIN k /\ new.who = k.who /\ new.gen = k.gen /\ new.at = "error" /\ new.asks = k.asks
      /\ new.arg = k.arg /\ new.got = k.got
  BY <1>1, <1>2, Changed DEF TaskKnown
<1>4. TaskKnown(new)
  BY <1>1, <1>3 DEF TaskKnown
<1> QED
  BY <1>2, <1>3, <1>4

LEMMA ServeChains ==
    ASSUME WorldKnown, ChainsKnown, NEW who, Serve(who)
    PROVE  ChainsKnown'
<1>1. PICK k \in tasks : /\ k.who = who /\ k.at = "sent"
                         /\ \E ask \in k.asks :
                              \/ Then(k, {[k EXCEPT !.at = "error"]})
                              \/ Then(k, {[k EXCEPT !.asks = @ \ {ask}, !.got = Entry(ask, Answer(ask, k.arg, db)) ++ @]})
  BY DEF Serve
<1>2. UNCHANGED << setup, ui >>
  BY DEF Serve
<1>3. PICK new : TaskKnown(new) /\ new.who = k.who /\ new.gen = k.gen /\ Then(k, {new})
  BY <1>1, Served, Erred
<1> QED
  BY <1>2, <1>3, ChainsSwap DEF Newest

LEMMA BreakChains ==
    ASSUME WorldKnown, ChainsKnown, NEW k \in tasks, Break(k)
    PROVE  ChainsKnown'
<1>1. UNCHANGED << setup, ui >> /\ k.at = "sent" /\ Then(k, {[k EXCEPT !.at = "error"]})
  BY DEF Break
<1>2. PICK new : TaskKnown(new) /\ new.who = k.who /\ new.gen = k.gen /\ Then(k, {new})
  BY <1>1, Erred
<1> QED
  BY <1>1, <1>2, ChainsSwap DEF Newest

LEMMA LeaveChains ==
    ASSUME WorldKnown, ChainsKnown, Leave
    PROVE  ChainsKnown'
<1>1. ui'.gen = ui.gen
  BY GenKept DEF Leave, WorldKnown
<1>2. tasks' \subseteq tasks
  BY DEF Leave
<1> QED
  BY <1>1, <1>2, ChainsFew DEF Leave

(* A chain goes on, or not; a task asks the next thing; a page loads. *)
LEMMA RestKnown ==
    ASSUME ChainsKnown, NEW k \in tasks, k.who \in Pollers, Then(k, Rest(k)), setup' = setup, ui'.gen = ui.gen
    PROVE  ChainsKnown'
<1>1. PICK ks : ks = Rest(k)
  OBVIOUS
<1>2. TaskKnown(k)
  BY DEF ChainsKnown
<1>3. CASE ks = {}
  BY <1>1, <1>3, ChainsFew DEF Then
<1>4. CASE k.gen = ui.gen[k.who] /\ ks = {Timer(k.who, k.gen)}
  <2>1. PICK t : t = Timer(k.who, k.gen)
    OBVIOUS
  <2>4. PICK who, gen : who = k.who /\ gen = k.gen
    OBVIOUS
  <2>5. who \in Pollers /\ gen = ui.gen[who] /\ who \in WhoOn[Page] /\ t = Timer(who, gen)
    BY <1>2, <1>4, <2>1, <2>4 DEF TaskKnown
  <2>2. TaskKnown(t) /\ t.who = k.who
    BY <2>4, <2>5, TimerKnown, Timers
  <2>3. Newest(k)
    BY <1>4 DEF Newest
  <2> QED
    BY <1>1, <1>4, <2>1, <2>2, <2>3, ChainsSwap
<1> QED
  BY <1>1, <1>3, <1>4 DEF Rest

LEMMA NextAskKnown ==
    ASSUME ChainsKnown, NEW k \in tasks, NEW asks, Then(k, NextAsk(k, asks)), setup' = setup, ui'.gen = ui.gen,
           k.at = "sent", k.who \notin Pollers, asks \in Stages[k.who]
    PROVE  ChainsKnown'
<1>1. TaskKnown(k)
  BY DEF ChainsKnown
<1>2. PICK none : none = << >>
  OBVIOUS
<1>3. DOMAIN none = {}
  BY <1>2
<1>4. PICK new : new = [k EXCEPT !.asks = asks, !.got = none]
  OBVIOUS
<1>5. Then(k, {new})
  BY <1>2, <1>4 DEF NextAsk
<1>6. /\ DOMAIN new = DOMAIN k /\ new.who = k.who /\ new.gen = k.gen /\ new.at = k.at /\ new.asks = asks
      /\ new.arg = k.arg /\ new.got = none
  BY <1>1, <1>4, Changed DEF TaskKnown
<1>7. new.asks \cup DOMAIN new.got = asks
  BY <1>3, <1>6
<1>8. TaskKnown(new)
  BY <1>1, <1>3, <1>6, <1>7 DEF TaskKnown
<1> QED
  BY <1>5, <1>6, <1>8, ChainsSwap DEF Newest

LEMMA LoadKnown ==
    ASSUME ChainsKnown, NEW k \in tasks, NEW r, Load(k, r), setup' = setup, ui'.gen = ui.gen, "load" \in WhoOn[Page]
    PROVE  ChainsKnown'
<1>1. PICK new : new = Task("load", 0, {"run"}, [run |-> r])
  OBVIOUS
<1>2. Then(k, {new})
  BY <1>1 DEF Load
<1>3. /\ DOMAIN new = {"who", "gen", "at", "asks", "arg", "got"}
      /\ new.who = "load" /\ new.at = "sent" /\ new.asks = {"run"} /\ DOMAIN new.got = {}
  BY <1>1, Tasks
<1>4. new.asks \cup DOMAIN new.got = {"run"} /\ {"run"} \in Stages["load"]
  BY <1>3, FirstAsks
<1>5. TaskKnown(new) /\ ~ Newest(new)
  BY <1>3, <1>4 DEF TaskKnown, Newest, Pollers
<1> QED
  BY <1>2, <1>5, ChainsSwap

LEMMA ResumeChains ==
    ASSUME WorldKnown, ChainsKnown, NEW who, NEW k \in tasks, Continue(who, k)
    PROVE  ChainsKnown'
<1>1. TaskKnown(k) /\ k.who = who /\ who \in WhoOn[Page] /\ setup' = setup
  BY DEF ChainsKnown, TaskKnown, Continue
<1>2. "gen" \in DOMAIN ui /\ Page \in {"home", "now", "recent", "run", "settings"}
  BY SetupsAssumption DEF WorldKnown, Page
<1>3. Then(k, {}) => tasks' \subseteq tasks
  BY DEF Then
<1>4. ASSUME Then(k, {}), ui'.gen = ui.gen PROVE ChainsKnown'
  BY <1>1, <1>3, <1>4, ChainsFew
<1>5. \A ask : Got(k, ask) => k.at = "sent"
  BY DEF Got, Answered
<1>6. CASE Page = "home"
  <2>1. who \in {"poll", "batch", "runOne", "remove", "move", "toggle", "unfile", "prompt"} /\ "poll" \in WhoOn[Page]
    BY <1>1, <1>6 DEF WhoOn
  <2>2. CASE who = "poll"
    <3>1. ui'.gen = ui.gen /\ Then(k, Rest(k))
      BY <1>2, <2>2, GenKept DEF Continue, ResumePoll
    <3> QED
      BY <3>1, <1>1, <2>2, RestKnown DEF Pollers
  <2>3. CASE who = "batch"
    <3>1. CASE Failed(k) /\ Set([running |-> FALSE]) /\ Then(k, {})
      BY <3>1, <1>2, <1>4, GenKept
    <3>2. CASE Got(k, "createMany") /\ Set([selected |-> {}]) /\ Then(k, NextAsk(k, {"tests"}))
      <4>1. ui'.gen = ui.gen
        BY <3>2, <1>2, GenKept
      <4> QED
        BY <3>2, <4>1, <1>1, <1>5, <2>3, NextAskKnown, FirstAsks DEF Pollers
    <3>3. CASE Set([running |-> FALSE, tests |-> k.got.tests, gen |-> Bump("poll")]) /\ Chain("poll", k)
      <4>1. ui'.gen = Bump("poll")
        BY <3>3, <1>2, GenKept
      <4> QED
        BY <3>3, <4>1, <1>1, <2>1, ChainsBump DEF Pollers
    <3> QED
      BY <2>3, <3>1, <3>2, <3>3 DEF Continue, ResumeBatch
  <2>4. CASE who = "runOne"
    <3>1. CASE Failed(k) /\ UNCHANGED ui /\ Then(k, {})
      BY <3>1, <1>4
    <3>2. CASE Got(k, "create") /\ UNCHANGED ui /\ Then(k, NextAsk(k, {"tests"}))
      BY <3>2, <1>1, <1>5, <2>4, NextAskKnown, FirstAsks DEF Pollers
    <3>3. CASE Set([tests |-> k.got.tests, gen |-> Bump("poll")]) /\ Chain("poll", k)
      <4>1. ui'.gen = Bump("poll")
        BY <3>3, <1>2, GenKept
      <4> QED
        BY <3>3, <4>1, <1>1, <2>1, ChainsBump DEF Pollers
    <3> QED
      BY <2>4, <3>1, <3>2, <3>3 DEF Continue, ResumeRunOne
  <2>5. CASE who \in {"remove", "move", "toggle"}
    <3>0. ResumeEdit(k)
      BY <2>5 DEF Continue
    <3>2. ASSUME NEW ts, NEW sel, Set([tests |-> ts, selected |-> sel]) \/ Set([tests |-> ts]) PROVE ui'.gen = ui.gen
      BY <1>2, <3>2, GenKept
    <3>1. ui'.gen = ui.gen /\ Then(k, {})
      BY <3>0, <3>2 DEF ResumeEdit
    <3> QED
      BY <3>1, <1>4
  <2>6. CASE who \in {"unfile", "prompt"}
    <3>0. ResumeFolders(k)
      BY <2>6 DEF Continue
    <3>3. ASSUME Set(Refreshed(k)) PROVE ui'.gen = ui.gen
      <4>1. PICK what : what = Refreshed(k)
        OBVIOUS
      <4>2. DOMAIN what = {"tests", "folders", "closed"}
        BY <4>1 DEF Refreshed
      <4> QED
        BY <1>2, <3>3, <4>1, <4>2, GenKept
    <3>1. ui'.gen = ui.gen
      BY <1>2, <3>0, <3>3, GenKept DEF ResumeFolders
    <3>2. Then(k, {}) \/ (k.at = "sent" /\ Then(k, NextAsk(k, {"tests", "folders"})))
      BY <2>6, <1>5 DEF Continue, ResumeFolders
    <3> QED
      BY <3>1, <3>2, <1>1, <1>4, <2>6, NextAskKnown, FirstAsks DEF Pollers
  <2> QED
    BY <2>1, <2>2, <2>3, <2>4, <2>5, <2>6
<1>7. CASE Page = "now"
  <2>1. who \in {"now", "press"} /\ "now" \in WhoOn[Page]
    BY <1>1, <1>7 DEF WhoOn
  <2>2. CASE who = "now"
    <3>1. ui'.gen = ui.gen /\ Then(k, Rest(k))
      BY <1>2, <2>2, GenKept DEF Continue, ResumeNow
    <3> QED
      BY <3>1, <1>1, <2>2, RestKnown DEF Pollers
  <2>3. CASE who = "press"
    <3>1. CASE Failed(k) /\ Set([starting |-> FALSE]) /\ Then(k, {})
      BY <3>1, <1>2, <1>4, GenKept
    <3>2. CASE Set([starting |-> FALSE, active |-> ui.active + 1, gen |-> Bump("now")]) /\ Chain("now", k)
      <4>1. ui'.gen = Bump("now")
        BY <3>2, <1>2, GenKept
      <4> QED
        BY <3>2, <4>1, <1>1, <2>1, ChainsBump DEF Pollers
    <3> QED
      BY <2>3, <3>1, <3>2 DEF Continue, ResumePress
  <2> QED
    BY <2>1, <2>2, <2>3
<1>8. CASE Page = "recent"
  <2>1. who \in {"recent", "removeListed"}
    BY <1>1, <1>8 DEF WhoOn
  <2>2. CASE who = "recent"
    <3>1. ui'.gen = ui.gen /\ Then(k, Rest(k))
      BY <1>2, <2>2, GenKept DEF Continue, ResumeRecent
    <3> QED
      BY <3>1, <1>1, <2>2, RestKnown DEF Pollers
  <2>3. CASE who = "removeListed"
    <3>1. ui'.gen = ui.gen /\ Then(k, {})
      BY <1>2, <2>3, GenKept DEF Continue, ResumeRemoveListed
    <3> QED
      BY <3>1, <1>4
  <2> QED
    BY <2>1, <2>2, <2>3
<1>9. CASE Page = "run"
  <2>1. who \in {"tick", "load", "retry", "removeShown"} /\ "load" \in WhoOn[Page] /\ "tick" \in WhoOn[Page]
    BY <1>1, <1>9 DEF WhoOn
  <2>2. CASE who = "tick"
    <3>1. ui'.gen = ui.gen
      BY <1>2, <2>2, GenKept DEF Continue, ResumeTick
    <3>2. Then(k, Rest(k)) \/ Load(k, ui.run)
      BY <2>2 DEF Continue, ResumeTick, Reload
    <3>3. ASSUME NEW r, Load(k, r) PROVE ChainsKnown'
      BY <3>1, <3>3, <1>1, <2>1, LoadKnown
    <3> QED
      BY <3>1, <3>2, <3>3, <1>1, <2>2, RestKnown DEF Pollers
  <2>3. CASE who = "load"
    <3>1. ui'.gen = ui.gen
      BY <1>2, <2>3, GenKept DEF Continue, ResumeLoad
    <3>2. tasks' \subseteq {Timer("tick", 0)}
      BY <2>3 DEF Continue, ResumeLoad
    <3>3. PICK t : t = Timer("tick", 0)
      OBVIOUS
    <3>4. TaskKnown(t)
      BY <2>1, <3>3, TimerKnown DEF ChainsKnown, Pollers
    <3>5. TaskKnown(t)'
      BY <3>1, <3>4, <1>1 DEF TaskKnown, Page
    <3> QED
      BY <3>1, <3>2, <3>3, <3>5 DEF ChainsKnown
  <2>4. CASE who = "retry"
    <3>1. CASE Failed(k) /\ Set([busy |-> FALSE]) /\ Then(k, {})
      BY <3>1, <1>2, <1>4, GenKept
    <3>2. CASE UNCHANGED ui /\ Load(k, k.got.retry)
      BY <3>2, <1>1, <2>1, LoadKnown
    <3> QED
      BY <2>4, <3>1, <3>2 DEF Continue, ResumeRetry
  <2>5. CASE who = "removeShown"
    <3>1. ui'.gen = ui.gen /\ tasks' \subseteq tasks
      BY <1>2, <1>3, <2>5, GenKept DEF Continue, ResumeRemoveShown
    <3> QED
      BY <3>1, <1>1, ChainsFew
  <2> QED
    BY <2>1, <2>2, <2>3, <2>4, <2>5
<1>10. CASE Page = "settings"
  <2>1. who = "save"
    BY <1>1, <1>10 DEF WhoOn
  <2>2. ui'.gen = ui.gen /\ Then(k, {})
    BY <1>2, <2>1, GenKept DEF Continue, ResumeSave
  <2> QED
    BY <2>2, <1>4
<1> QED
  BY <1>2, <1>6, <1>7, <1>8, <1>9, <1>10

LEMMA ChainsNext ==
    ASSUME WorldKnown, ChainsKnown, [Next]_vars
    PROVE  ChainsKnown'
<1>1. CASE UNCHANGED vars
  BY <1>1, ChainsFew DEF vars
<1>2. CASE OthersStep
  BY <1>2, OthersSteps, ChainsFew
<1> QED
  BY <1>1, <1>2, Steps, UserChains, LeaveChains, TickChains, ServeChains, ResumeChains, BreakChains

LEMMA ChainsFirst == Init => ChainsKnown
<1> SUFFICES ASSUME Init PROVE ChainsKnown
  OBVIOUS
<1>1. ui = Opened(setup) /\ tasks = FirstTasks(setup) /\ setup.page = Page
      /\ Page \in {"home", "now", "recent", "run", "settings"}
  BY SetupsAssumption DEF Init, Page
<1>2. DOMAIN ui.gen = Pollers /\ ui.gen.tick = 0 /\ \A who \in Pollers : ui.gen[who] \in Nat
  <2>1. ui.gen = NoGen \/ ui.gen = [NoGen EXCEPT !.poll = 1] \/ ui.gen = [NoGen EXCEPT !.now = 1]
    BY <1>1 DEF Opened
  <2> QED
    BY <2>1 DEF NoGen, Pollers
<1>3. CASE Page = "home"
  <2>1. ui.gen.poll = 1 /\ tasks = {Task("poll", 1, {"tests"}, None)}
    BY <1>1, <1>3 DEF Opened, FirstTasks, NoGen
  <2>2. PICK k : k = Task("poll", 1, {"tests"}, None)
    OBVIOUS
  <2>3. /\ DOMAIN k = {"who", "gen", "at", "asks", "arg", "got"}
        /\ k.who = "poll" /\ k.gen = 1 /\ k.at = "sent" /\ k.asks = {"tests"} /\ DOMAIN k.got = {}
    BY <2>2, Tasks
  <2>4. k.asks \cup DOMAIN k.got = {"tests"}
    BY <2>3
  <2>5. TaskKnown(k)
    BY <1>3, <2>1, <2>3, <2>4, FirstAsks DEF TaskKnown, WhoOn
  <2> QED
    BY <1>2, <2>1, <2>2, <2>5 DEF ChainsKnown
<1>4. CASE Page = "now"
  <2>1. ui.gen.now = 1 /\ tasks = {Task("now", 1, {"runs"}, None)}
    BY <1>1, <1>4 DEF Opened, FirstTasks, NoGen
  <2>2. PICK k : k = Task("now", 1, {"runs"}, None)
    OBVIOUS
  <2>3. /\ DOMAIN k = {"who", "gen", "at", "asks", "arg", "got"}
        /\ k.who = "now" /\ k.gen = 1 /\ k.at = "sent" /\ k.asks = {"runs"} /\ DOMAIN k.got = {}
    BY <2>2, Tasks
  <2>4. k.asks \cup DOMAIN k.got = {"runs"}
    BY <2>3
  <2>5. TaskKnown(k)
    BY <1>4, <2>1, <2>3, <2>4, FirstAsks DEF TaskKnown, WhoOn
  <2> QED
    BY <1>2, <2>1, <2>2, <2>5 DEF ChainsKnown
<1>5. ASSUME NEW who \in Pollers, tasks \subseteq {Timer(who, 0)}, ui.gen[who] = 0, who \in WhoOn[Page]
      PROVE  ChainsKnown
  <2>1. PICK k : k = Timer(who, 0)
    OBVIOUS
  <2>2. TaskKnown(k)
    BY <1>5, <2>1, Timers DEF TaskKnown
  <2> QED
    BY <1>2, <1>5, <2>1, <2>2 DEF ChainsKnown
<1>6. CASE Page = "recent"
  <2>1. ui.gen.recent = 0 /\ tasks = {Timer("recent", 0)}
    BY <1>1, <1>6 DEF Opened, FirstTasks, NoGen
  <2> QED
    BY <1>5, <1>6, <2>1 DEF WhoOn, Pollers
<1>7. CASE Page = "run"
  <2>1. tasks \subseteq {Timer("tick", 0)}
    BY <1>1, <1>7 DEF FirstTasks
  <2> QED
    BY <1>2, <1>5, <1>7, <2>1 DEF WhoOn, Pollers
<1>8. CASE Page = "settings"
  <2>1. tasks = {}
    BY <1>1, <1>8 DEF FirstTasks
  <2> QED
    BY <1>2, <2>1 DEF ChainsKnown
<1> QED
  BY <1>1, <1>3, <1>4, <1>6, <1>7, <1>8

LEMMA AtMostOne ==
    ASSUME NEW S, \A x, y \in S : x = y
    PROVE  IsFiniteSet(S) /\ Cardinality(S) <= 1
<1>1. CASE S = {}
  BY <1>1, FS_EmptySet
<1>2. CASE S # {}
  <2>1. PICK x : S = {x}
    BY <1>2
  <2>2. IsFiniteSet({x}) /\ Cardinality({x}) = 1
    BY FS_Singleton
  <2>3. IsFiniteSet(S) /\ Cardinality(S) = 1
    BY <2>1, <2>2, Zenon
  <2> QED
    BY <2>3
<1> QED
  BY <1>1, <1>2

LEMMA ChainIsOne == ChainsKnown => OneChain
<1> SUFFICES ASSUME ChainsKnown, NEW who \in {"poll", "now", "recent", "tick"}
             PROVE  Cardinality({k \in tasks : k.who = who /\ (k.gen = ui.gen[who] \/ k.at = "timer")}) <= 1
  BY DEF OneChain
<1>1. \A k \in tasks : k.who = who /\ (k.gen = ui.gen[who] \/ k.at = "timer") => Newest(k)
  BY DEF ChainsKnown, TaskKnown, Newest, Pollers
<1>2. PICK S : S = {k \in tasks : k.who = who /\ (k.gen = ui.gen[who] \/ k.at = "timer")}
  OBVIOUS
<1>3. \A j, k \in S : j = k
  BY <1>1, <1>2 DEF ChainsKnown
<1> QED
  BY <1>2, <1>3, AtMostOne

-----------------------------------------------------------------------------
(* The ticks of the list of tests. *)

(* What an answer leaves under way on the list: the other tasks, the task itself with
   something more to ask, or a new poll. *)
LEMMA ListTasks ==
    ASSUME ChainsKnown, Page = "home", NEW who, NEW k \in tasks, Continue(who, k), NEW j \in tasks'
    PROVE  \/ j \in tasks /\ j # k
           \/ j.who = "poll"
           \/ who \in {"batch", "runOne"} /\ Answered(k) /\ j \in NextAsk(k, {"tests"})
           \/ who \in {"unfile", "prompt"} /\ Answered(k) /\ j \in NextAsk(k, {"tests", "folders"})
<1>1. TaskKnown(k) /\ who = k.who /\ who \in {"poll", "batch", "runOne", "remove", "move", "toggle", "unfile", "prompt"}
  BY DEF ChainsKnown, TaskKnown, Continue, WhoOn
<1>2. ASSUME Chain("poll", k) PROVE (j \in tasks /\ j # k) \/ j.who = "poll"
  BY <1>2, Tasks DEF Chain, Ask
<1>3. \A ks : Then(k, ks) => (j \in tasks /\ j # k) \/ j \in ks
  BY DEF Then
<1>4. Rest(k) \subseteq {Timer(who, k.gen)}
  BY <1>1 DEF Rest
<1>5. CASE who = "poll"
  <2>1. Then(k, Rest(k))
    BY <1>5 DEF Continue, ResumePoll
  <2>2. PICK t : t = Timer(who, k.gen)
    OBVIOUS
  <2>3. t.who = who
    BY <2>2, Timers
  <2> QED
    BY <1>3, <1>4, <1>5, <2>1, <2>2, <2>3
<1>6. CASE who = "batch"
  <2>1. ResumeBatch(k)
    BY <1>6 DEF Continue
  <2> QED
    BY <1>2, <1>3, <1>6, <2>1 DEF ResumeBatch, Got, NextAsk
<1>7. CASE who = "runOne"
  <2>1. ResumeRunOne(k)
    BY <1>7 DEF Continue
  <2> QED
    BY <1>2, <1>3, <1>7, <2>1 DEF ResumeRunOne, Got, NextAsk
<1>8. CASE who \in {"remove", "move", "toggle"}
  BY <1>3, <1>8 DEF Continue, ResumeEdit
<1>9. CASE who \in {"unfile", "prompt"}
  <2>1. ResumeFolders(k)
    BY <1>9 DEF Continue
  <2> QED
    BY <1>3, <1>9, <2>1 DEF ResumeFolders, Got, NextAsk
<1> QED
  BY <1>1, <1>5, <1>6, <1>7, <1>8, <1>9

LEMMA Asking ==
    ASSUME ChainsKnown, NEW k \in tasks, NEW asks, NEW j \in NextAsk(k, asks)
    PROVE  j.who = k.who /\ j.gen = k.gen /\ j.at = k.at /\ j.asks = asks /\ j.arg = k.arg /\ DOMAIN j.got = {}
<1>1. PICK none : none = << >>
  OBVIOUS
<1>2. j = [k EXCEPT !.asks = asks, !.got = none] /\ DOMAIN none = {}
  BY <1>1 DEF NextAsk
<1>3. DOMAIN k = {"who", "gen", "at", "asks", "arg", "got"}
  BY DEF ChainsKnown, TaskKnown
<1> QED
  BY <1>2, <1>3, Changed

(* A task of the page is served, or fails: it stays the same task. *)
LEMMA ServedTasks ==
    ASSUME WorldKnown, ChainsKnown, (\E who : Serve(who)) \/ (\E k \in tasks : Break(k))
    PROVE  \E k \in tasks : \E new :
             /\ Then(k, {new}) /\ k.at = "sent" /\ new.who = k.who /\ new.gen = k.gen /\ new.arg = k.arg
             /\ new.asks \cup DOMAIN new.got = k.asks \cup DOMAIN k.got
<1>1. ASSUME NEW k \in tasks, k.at = "sent", Then(k, {[k EXCEPT !.at = "error"]})
      PROVE  \E new : /\ Then(k, {new}) /\ new.who = k.who /\ new.gen = k.gen /\ new.arg = k.arg
                      /\ new.asks \cup DOMAIN new.got = k.asks \cup DOMAIN k.got
  BY <1>1, Erred
<1>2. ASSUME NEW k \in tasks, k.at = "sent", NEW ask \in k.asks,
             Then(k, {[k EXCEPT !.asks = @ \ {ask}, !.got = Entry(ask, Answer(ask, k.arg, db)) ++ @]})
      PROVE  \E new : /\ Then(k, {new}) /\ new.who = k.who /\ new.gen = k.gen /\ new.arg = k.arg
                      /\ new.asks \cup DOMAIN new.got = k.asks \cup DOMAIN k.got
  <2>1. PICK new : /\ Then(k, {new}) /\ new.who = k.who /\ new.gen = k.gen /\ new.arg = k.arg
                   /\ new.asks = k.asks \ {ask} /\ DOMAIN new.got = DOMAIN k.got \cup {ask}
    BY <1>2, Served
  <2>2. new.asks \cup DOMAIN new.got = k.asks \cup DOMAIN k.got
    BY <2>1
  <2> QED
    BY <2>1, <2>2
<1>3. ASSUME NEW who, Serve(who)
      PROVE  \E k \in tasks : /\ k.at = "sent"
                              /\ \E ask \in k.asks :
                                   \/ Then(k, {[k EXCEPT !.at = "error"]})
                                   \/ Then(k, {[k EXCEPT !.asks = @ \ {ask}, !.got = Entry(ask, Answer(ask, k.arg, db)) ++ @]})
  BY <1>3 DEF Serve
<1>4. ASSUME NEW k \in tasks, Break(k) PROVE k.at = "sent" /\ Then(k, {[k EXCEPT !.at = "error"]})
  BY <1>4 DEF Break
<1>5. CASE \E who : Serve(who)
  <2>1. PICK k \in tasks : /\ k.at = "sent"
                           /\ \E ask \in k.asks :
                                \/ Then(k, {[k EXCEPT !.at = "error"]})
                                \/ Then(k, {[k EXCEPT !.asks = @ \ {ask}, !.got = Entry(ask, Answer(ask, k.arg, db)) ++ @]})
    BY <1>3, <1>5
  <2>2. PICK ask \in k.asks :
           \/ Then(k, {[k EXCEPT !.at = "error"]})
           \/ Then(k, {[k EXCEPT !.asks = @ \ {ask}, !.got = Entry(ask, Answer(ask, k.arg, db)) ++ @]})
    BY <2>1
  <2>3. \E new : /\ Then(k, {new}) /\ new.who = k.who /\ new.gen = k.gen /\ new.arg = k.arg
                 /\ new.asks \cup DOMAIN new.got = k.asks \cup DOMAIN k.got
    BY <1>1, <1>2, <2>1, <2>2
  <2> QED
    BY <2>1, <2>3
<1>6. CASE \E k \in tasks : Break(k)
  <2>1. PICK k \in tasks : k.at = "sent" /\ Then(k, {[k EXCEPT !.at = "error"]})
    BY <1>4, <1>6
  <2>3. \E new : /\ Then(k, {new}) /\ new.who = k.who /\ new.gen = k.gen /\ new.arg = k.arg
                 /\ new.asks \cup DOMAIN new.got = k.asks \cup DOMAIN k.got
    BY <1>1, <2>1
  <2> QED
    BY <2>1, <2>3
<1> QED
  BY <1>5, <1>6

LEMMA BatchFewer ==
    ASSUME BatchInv, setup' = setup, Page = "home", ui'.running = ui.running, ui'.selected \subseteq ui.selected,
           hist'.late = hist.late, \A j \in tasks' : j.who = "batch" => j \in tasks
    PROVE  BatchInv'
BY DEF BatchInv, Page

LEMMA BatchSame ==
    ASSUME BatchInv, setup' = setup, Page = "home", ui'.running = ui.running, ui'.selected \subseteq ui.selected,
           hist'.late = hist.late, NEW k \in tasks, NEW new, Then(k, {new}), new.who = k.who, new.arg = k.arg,
           new.asks \cup DOMAIN new.got = k.asks \cup DOMAIN k.got
    PROVE  BatchInv'
<1>1. \A j \in tasks' : (j \in tasks /\ j # k) \/ j = new
  BY DEF Then
<1>2. ui'.running \in BOOLEAN /\ \A j \in tasks' : j.who = "batch" => ui'.running
  BY <1>1 DEF BatchInv
<1>3. \A i, j \in tasks' : i.who = "batch" /\ j.who = "batch" => i = j
  BY <1>1 DEF BatchInv
<1>4. \A j \in tasks' : j.who = "batch" /\ "createMany" \in j.asks \cup DOMAIN j.got
                           => ui'.selected \subseteq j.arg.tests \cup hist'.late
  <2>1. k.who = "batch" /\ "createMany" \in k.asks \cup DOMAIN k.got => ui.selected \subseteq k.arg.tests \cup hist.late
    BY DEF BatchInv
  <2>2. new.who = "batch" /\ "createMany" \in new.asks \cup DOMAIN new.got
            => ui'.selected \subseteq new.arg.tests \cup hist'.late
    BY <2>1
  <2> QED
    BY <1>1, <2>2 DEF BatchInv
<1> QED
  BY <1>2, <1>3, <1>4 DEF BatchInv

(* A tick goes away by a hand, with its test, or with its batch. *)
TicksRunNow == UntickedWhen(hist.late)

LEMMA UserBatch ==
    ASSUME WorldKnown, ChainsKnown, BatchInv, Page = "home", UserOnList
    PROVE  BatchInv' /\ TicksRunNow
<1>1. DOMAIN ui = {"mounted", "gen", "tests", "folders", "closed", "selected", "running", "prompt"}
      /\ setup' = setup /\ DOMAIN hist = {"mine", "lost", "late", "mixed", "reloads", "wrote", "edited", "again"}
  BY UserSteps DEF WorldKnown, PageStep, Signals
<1>2. TicksRunNow
  BY UserSteps, ActCounts DEF TicksRunNow, UntickedWhen
<1>3. ASSUME NEW ids, Act("tick"), hist' = [hist EXCEPT !.late = IF ui.running THEN @ \cup ids ELSE @],
             NEW selected, Set([selected |-> selected]), selected \subseteq ui.selected \cup ids, tasks' = tasks
      PROVE  BatchInv'
  <2>1. ui'.selected = selected /\ ui'.running = ui.running
    BY <1>1, <1>3, SetParts
  <2>2. hist'.late = IF ui.running THEN hist.late \cup ids ELSE hist.late
    BY <1>1, <1>3
  <2>3. ui.running \in BOOLEAN
    BY DEF BatchInv
  <2>4. CASE ui.running
    BY <1>1, <1>3, <2>1, <2>2, <2>4 DEF BatchInv, Page
  <2>5. CASE ~ ui.running
    BY <1>1, <1>3, <2>1, <2>2, <2>5 DEF BatchInv, Page
  <2> QED
    BY <2>4, <2>5
<1>4. ASSUME NEW t, ToggleSelected(t) PROVE BatchInv'
  <2>1. SymDiff(ui.selected, {t}) \subseteq ui.selected \cup {t}
    BY DEF SymDiff
  <2> QED
    BY <1>3, <1>4, <2>1 DEF ToggleSelected
<1>5. ASSUME NEW ids, ToggleMany(ids) PROVE BatchInv'
  <2>1. (IF ids \subseteq ui.selected THEN ui.selected \ ids ELSE ui.selected \cup ids) \subseteq ui.selected \cup ids
    OBVIOUS
  <2> QED
    BY <1>3, <1>5, <2>1 DEF ToggleMany
<1>6. ASSUME NEW who, NEW asks, NEW x, Starts(who, asks, x), who # "batch", ui'.running = ui.running,
             ui'.selected = ui.selected, hist'.late = hist.late
      PROVE  BatchInv'
  <2>1. \A j \in tasks' : j.who = "batch" => j \in tasks
    BY <1>6, Tasks DEF Starts
  <2> QED
    BY <1>1, <1>6, <2>1, BatchFewer
<1>7. ASSUME NEW t, RunOne(t) PROVE BatchInv'
  BY <1>6, <1>7 DEF RunOne
<1>8. ASSUME NEW t, RemoveTest(t) PROVE BatchInv'
  BY <1>6, <1>8 DEF RemoveTest
<1>9. ASSUME NEW t, NEW f, MoveTest(t, f) PROVE BatchInv'
  BY <1>6, <1>9 DEF MoveTest
<1>10. CASE ClearSelected
  <2>1. ui'.selected = {} /\ ui'.running = ui.running
    BY <1>1, <1>10, SetParts DEF ClearSelected
  <2>2. tasks' = tasks /\ hist'.late = hist.late /\ {} \subseteq ui.selected
    BY <1>10 DEF ClearSelected
  <2>3. \A j \in tasks' : j.who = "batch" => j \in tasks
    BY <2>2
  <2> QED
    BY <1>1, <1>2, <2>1, <2>2, <2>3, BatchFewer
<1>11. CASE RunSelected
  <2>1. ui'.running = TRUE /\ ui'.selected = ui.selected /\ hist'.late = {} /\ ~ ui.running
    BY <1>1, <1>11, SetParts DEF RunSelected
  <2>2. PICK k : k = Task("batch", 0, {"createMany"}, [tests |-> ui.selected])
    OBVIOUS
  <2>3. tasks' = tasks \cup {k} /\ k.who = "batch" /\ k.arg = [tests |-> ui.selected]
    BY <1>11, <2>2, Tasks DEF RunSelected, Starts
  <2>4. k.arg.tests = ui.selected
    BY <2>3
  <2>5. \A j \in tasks : j.who # "batch"
    BY <2>1 DEF BatchInv
  <2>6. \A j \in tasks' : j.who = "batch" => j = k
    BY <2>3, <2>5
  <2>7. ui'.selected \subseteq k.arg.tests \cup hist'.late
    BY <2>1, <2>4
  <2> QED
    BY <1>1, <1>2, <2>1, <2>6, <2>7 DEF BatchInv, Page
<1>12. ASSUME NEW p, OpenPrompt(p) PROVE BatchInv'
  <2>1. ui'.selected = ui.selected /\ ui'.running = ui.running
    BY <1>1, <1>12, SetParts DEF OpenPrompt
  <2> QED
    BY <1>1, <1>12, <2>1, BatchFewer DEF OpenPrompt
<1>13. CASE CancelPrompt
  <2>1. ui'.selected = ui.selected /\ ui'.running = ui.running
    BY <1>1, <1>13, SetParts DEF CancelPrompt
  <2>2. tasks' = tasks /\ hist'.late = hist.late
    BY <1>13 DEF CancelPrompt
  <2>3. \A j \in tasks' : j.who = "batch" => j \in tasks
    BY <2>2
  <2> QED
    BY <1>1, <1>2, <2>1, <2>2, <2>3, BatchFewer
<1>14. ASSUME Mixes PROVE hist'.late = hist.late
  BY <1>1, <1>14 DEF Mixes
<1>15. ASSUME NEW f, Toggle(f) PROVE BatchInv'
  <2>1. ui'.selected = ui.selected /\ ui'.running = ui.running
    <3>1. PICK c : Set([closed |-> c])
      BY <1>15 DEF Toggle
    <3> QED
      BY <1>1, <3>1, SetParts
  <2> QED
    BY <1>6, <1>14, <1>15, <2>1 DEF Toggle
<1>16. ASSUME NEW f, RemoveFolder(f) PROVE BatchInv'
  BY <1>6, <1>14, <1>16 DEF RemoveFolder
<1>17. ASSUME NEW same, SubmitPrompt(same) PROVE BatchInv'
  <2>1. ui'.selected = ui.selected /\ ui'.running = ui.running
    <3>1. ui' = ui \/ \E p : Set([prompt |-> p])
      BY <1>17 DEF SubmitPrompt
    <3>2. ASSUME NEW p, Set([prompt |-> p]) PROVE ui'.selected = ui.selected /\ ui'.running = ui.running
      BY <1>1, <3>2, SetParts
    <3> QED
      BY <3>1, <3>2
  <2>2. \E asks : \E x : Starts("prompt", asks, x)
    BY <1>17 DEF SubmitPrompt
  <2> QED
    BY <1>6, <1>14, <1>17, <2>1, <2>2 DEF SubmitPrompt
<1> QED
  BY <1>2, <1>4, <1>5, <1>7, <1>8, <1>9, <1>10, <1>11, <1>12, <1>13, <1>15, <1>16, <1>17 DEF UserOnList

(* A timer adds a poll and nothing else. *)
LEMMA TickTasks ==
    ASSUME ChainsKnown, NEW who, Tick(who)
    PROVE  /\ UNCHANGED << setup, db, ui, count, hist >>
           /\ who \in Pollers
           /\ \E k \in tasks : k.who = who /\ k.at = "timer" /\ Then(k, {Ask(who, k.gen)})
<1>1. PICK k \in tasks : k.who = who /\ k.at = "timer" /\ Then(k, {Ask(who, k.gen)})
  BY DEF Tick
<1>2. who \in Pollers
  BY <1>1 DEF ChainsKnown, TaskKnown
<1>3. UNCHANGED << setup, db, ui, count, hist >>
  BY DEF Tick
<1> QED
  BY <1>1, <1>2, <1>3

LEMMA ResumeBatchInv ==
    ASSUME WorldKnown, ChainsKnown, BatchInv, Page = "home", NEW who, NEW k \in tasks, Continue(who, k)
    PROVE  BatchInv' /\ TicksRunNow
<1>1. DOMAIN ui = {"mounted", "gen", "tests", "folders", "closed", "selected", "running", "prompt"}
      /\ setup' = setup /\ who = k.who /\ who \in {"poll", "batch", "runOne", "remove", "move", "toggle", "unfile", "prompt"}
      /\ hist' = hist
  <2>1. TaskKnown(k)
    BY DEF ChainsKnown
  <2>2. who = k.who /\ setup' = setup /\ who \in {"poll", "batch", "runOne", "remove", "move", "toggle", "unfile", "prompt"}
    BY <2>1 DEF TaskKnown, WhoOn, Continue
  <2>3. hist' = hist
    BY <2>2 DEF Continue
  <2> QED
    BY <2>2, <2>3 DEF WorldKnown, Signals
<1>2. ASSUME NEW what, Set(what), "selected" \notin DOMAIN what PROVE ui'.selected = ui.selected
  BY <1>1, <1>2, SetParts
<1>3. ASSUME NEW what, Set(what), "running" \notin DOMAIN what PROVE ui'.running = ui.running
  BY <1>1, <1>3, SetParts
<1>4. ASSUME ui'.selected = ui.selected PROVE TicksRunNow
  BY <1>4 DEF TicksRunNow, UntickedWhen
<1>5. CASE who = "batch"
  <2>1. ResumeBatch(k)
    BY <1>5 DEF Continue
  <2>2. ui.running /\ \A j \in tasks : j.who = "batch" => j = k
    BY <1>1, <1>5 DEF BatchInv
  <2>3. ASSUME \A j \in tasks' : j.who = "batch" => j \in tasks /\ j # k, ui'.running = FALSE PROVE BatchInv'
    BY <2>2, <2>3 DEF BatchInv
  <2>4. CASE Failed(k) /\ Set([running |-> FALSE]) /\ Then(k, {})
    <3>1. ui'.selected = ui.selected /\ ui'.running = FALSE
      <4>1. PICK what : what = [running |-> FALSE] /\ Set(what)
        BY <2>4
      <4>2. "running" \in DOMAIN what /\ "selected" \notin DOMAIN what /\ what.running = FALSE
        BY <4>1
      <4>3. ui'.running = what.running
        BY <4>1, <4>2, SetParts
      <4> QED
        BY <4>1, <4>2, <4>3, <1>2
    <3>2. \A j \in tasks' : j \in tasks /\ j # k
      BY <2>4 DEF Then
    <3> QED
      BY <1>4, <2>3, <3>1, <3>2
  <2>5. CASE Got(k, "createMany") /\ Set([selected |-> {}]) /\ Then(k, NextAsk(k, {"tests"}))
    <3>1. ui'.selected = {} /\ ui'.running = ui.running
      BY <2>5, <1>1, <1>3, SetParts
    <3>2. PICK new : NextAsk(k, {"tests"}) = {new}
      BY DEF NextAsk
    <3>3. new.who = "batch" /\ new.asks = {"tests"} /\ DOMAIN new.got = {}
      <4>1. PICK asks : asks = {"tests"}
        OBVIOUS
      <4>2. new \in NextAsk(k, asks)
        BY <3>2, <4>1
      <4>3. new.who = k.who /\ new.asks = asks /\ DOMAIN new.got = {}
        BY <4>2, Asking
      <4> QED
        BY <1>1, <1>5, <4>1, <4>3
    <3>4. \A j \in tasks' : (j \in tasks /\ j # k) \/ j = new
      BY <2>5, <3>2 DEF Then
    <3>5. k \notin tasks'
      <4>1. "createMany" \in DOMAIN k.got
        BY <2>5 DEF Got
      <4> QED
        BY <3>3, <3>4, <4>1
    <3>6. \A j \in tasks' : j.who = "batch" => j = new
      BY <2>2, <3>4
    <3>7. BatchInv'
      BY <2>2, <3>1, <3>3, <3>6 DEF BatchInv
    <3>8. ui.selected \subseteq k.arg.tests \cup hist.late
      <4>1. "createMany" \in k.asks \cup DOMAIN k.got
        BY <2>5 DEF Got
      <4> QED
        BY <4>1, <1>1, <1>5 DEF BatchInv
    <3>9. TicksRunNow
      BY <2>5, <3>5, <3>8 DEF TicksRunNow, UntickedWhen
    <3> QED
      BY <3>7, <3>9
  <2>6. CASE Set([running |-> FALSE, tests |-> k.got.tests, gen |-> Bump("poll")]) /\ Chain("poll", k)
    <3>1. ui'.selected = ui.selected /\ ui'.running = FALSE
      BY <2>6, <1>1, <1>2, SetParts
    <3>2. \A j \in tasks' : j.who = "batch" => j \in tasks /\ j # k
      BY <2>6, Tasks DEF Chain, Ask
    <3> QED
      BY <1>4, <2>3, <3>1, <3>2
  <2> QED
    BY <2>1, <2>4, <2>5, <2>6 DEF ResumeBatch
<1>6. CASE who # "batch"
  <2>1. \A j \in tasks' : j.who = "batch" => j \in tasks
    <3> SUFFICES ASSUME NEW j \in tasks', j.who = "batch", j \notin tasks PROVE FALSE
      OBVIOUS
    <3>1. ASSUME NEW asks, j \in NextAsk(k, asks) PROVE j.who = who
      BY <1>1, <3>1, Asking
    <3> QED
      BY <1>6, <3>1, ListTasks
  <2>2. ASSUME ui'.running = ui.running, ui'.selected \subseteq ui.selected PROVE BatchInv'
    BY <1>1, <2>1, <2>2, BatchFewer
  <2>3. CASE who \in {"remove", "move", "toggle"}
    <3>1. ResumeEdit(k)
      BY <2>3 DEF Continue
    <3>2. CASE /\ Got(k, "removeTest")
               /\ Set([tests |-> Drop(ui.tests, {k.arg.test}), selected |-> ui.selected \ {k.arg.test}])
      <4>1. PICK tests, selected : selected = ui.selected \ {k.arg.test} /\ Set([tests |-> tests, selected |-> selected])
        BY <3>2
      <4>2. ui'.running = ui.running /\ ui'.selected = ui.selected \ {k.arg.test}
        BY <4>1, <1>1, <1>3, SetParts
      <4>3. k \notin tasks'
        BY <3>1 DEF ResumeEdit, Then
      <4>4. TicksRunNow
        BY <3>2, <4>2, <4>3 DEF TicksRunNow, UntickedWhen
      <4> QED
        BY <2>2, <4>2, <4>4
    <3>3. CASE UNCHANGED ui \/ \E tests : Set([tests |-> tests])
      <4>1. ui'.running = ui.running /\ ui'.selected = ui.selected
        BY <3>3, <1>2, <1>3
      <4> QED
        BY <1>4, <2>2, <4>1
    <3> QED
      BY <3>1, <3>2, <3>3 DEF ResumeEdit
  <2>4. CASE who \in {"poll", "runOne", "unfile", "prompt"}
    <3>1. UNCHANGED ui \/ \E what : Set(what) /\ "selected" \notin DOMAIN what /\ "running" \notin DOMAIN what
      <4>1. CASE who = "poll"
        BY <4>1 DEF Continue, ResumePoll
      <4>2. CASE who = "runOne"
        BY <4>2 DEF Continue, ResumeRunOne
      <4>3. CASE who \in {"unfile", "prompt"}
        <5>1. ResumeFolders(k)
          BY <4>3 DEF Continue
        <5>2. PICK what : what = Refreshed(k)
          OBVIOUS
        <5>3. "selected" \notin DOMAIN what /\ "running" \notin DOMAIN what
          BY <5>2 DEF Refreshed
        <5> QED
          BY <5>1, <5>2, <5>3 DEF ResumeFolders
      <4> QED
        BY <2>4, <4>1, <4>2, <4>3
    <3>2. ui'.running = ui.running /\ ui'.selected = ui.selected
      BY <3>1, <1>2, <1>3
    <3> QED
      BY <1>4, <2>2, <3>2
  <2> QED
    BY <1>1, <1>6, <2>3, <2>4
<1> QED
  BY <1>5, <1>6

LEMMA BatchNext ==
    ASSUME WorldKnown, ChainsKnown, BatchInv, [Next]_vars
    PROVE  BatchInv' /\ TicksRunNow
<1>1. setup' = setup
  BY WorldNext
<1>2. CASE Page # "home"
  BY <1>1, <1>2 DEF BatchInv, TicksRunNow, UntickedWhen, Page
<1>3. CASE Page = "home"
  <2>1. ui'.selected = ui.selected => TicksRunNow
    BY DEF TicksRunNow, UntickedWhen
  <2>2. CASE UNCHANGED vars
    BY <1>1, <1>3, <2>1, <2>2, BatchFewer DEF vars
  <2>3. CASE UserStep
    BY <1>3, <2>3, UserBatch DEF UserStep
  <2>4. CASE Leave
    <3>1. ui'.running = ui.running /\ ui'.selected = ui.selected
      <4>1. DOMAIN ui = {"mounted", "gen", "tests", "folders", "closed", "selected", "running", "prompt"}
        BY <1>3 DEF WorldKnown, Signals
      <4> QED
        BY <2>4, <4>1, SetParts DEF Leave
    <3>2. \A j \in tasks' : j \in tasks
      BY <2>4 DEF Leave
    <3>3. hist' = hist
      BY <2>4 DEF Leave
    <3> QED
      BY <1>1, <1>3, <2>1, <3>1, <3>2, <3>3, BatchFewer
  <2>5. ASSUME NEW who, Tick(who) PROVE BatchInv' /\ TicksRunNow
    <3>1. UNCHANGED << setup, db, ui, count, hist >> /\ \A j \in tasks' : j.who = "batch" => j \in tasks
      <4>2. PICK k \in tasks : Then(k, {Ask(who, k.gen)}) /\ who \in Pollers
        BY <2>5, TickTasks
      <4>4. \A j \in {Ask(who, k.gen)} : j.who = who
        BY Tasks DEF Ask
      <4>3. UNCHANGED << setup, db, ui, count, hist >>
        BY <2>5 DEF Tick
      <4> QED
        BY <4>2, <4>3, <4>4 DEF Then, Pollers
    <3> QED
      BY <1>1, <1>3, <2>1, <3>1, BatchFewer
  <2>6. CASE (\E who : Serve(who)) \/ (\E k \in tasks : Break(k))
    <3>1. ui' = ui /\ hist'.late = hist.late
      BY <2>6 DEF Serve, Break, WorldKnown
    <3> QED
      BY <1>1, <1>3, <2>1, <2>6, <3>1, ServedTasks, BatchSame
  <2>7. CASE OthersStep
    <3>1. UNCHANGED << setup, ui, tasks >> /\ hist'.late = hist.late
      BY <2>7, OthersSteps DEF WorldKnown
    <3> QED
      BY <1>1, <1>3, <2>1, <3>1, BatchFewer
  <2> QED
    BY <1>3, <2>2, <2>3, <2>4, <2>5, <2>6, <2>7, Steps, ResumeBatchInv
<1> QED
  BY <1>2, <1>3

LEMMA BatchFirst == Init => BatchInv
<1> SUFFICES ASSUME Init, Page = "home" PROVE BatchInv
  BY DEF BatchInv
<1>1. ui.running = FALSE /\ ui.selected = {} /\ tasks = {Task("poll", 1, {"tests"}, None)}
  BY DEF Init, Page, Opened, FirstTasks
<1>2. \A k \in tasks : k.who = "poll"
  BY <1>1, Tasks
<1> QED
  BY <1>1, <1>2 DEF BatchInv

(* A tick goes away by the user's hand, with its test, when the server has taken the batch it
   was in, or with a batch that was being started when it was made (TestList.tsx:135-147). *)
THEOREM EveryTickRuns == Spec => TicksRun
<1>1. Init => WorldKnown /\ ChainsKnown /\ BatchInv
  BY WorldFirst, ChainsFirst, BatchFirst
<1>2. WorldKnown /\ ChainsKnown /\ BatchInv /\ [Next]_vars => (WorldKnown /\ ChainsKnown /\ BatchInv)'
  BY WorldNext, ChainsNext, BatchNext
<1>3. WorldKnown /\ ChainsKnown /\ BatchInv /\ [Next]_vars => TicksRunNow
  BY BatchNext
<1>4. TicksRunNow => [TicksRunNow]_vars
  OBVIOUS
<1>5. Spec => [][TicksRunNow]_vars
  BY <1>1, <1>2, <1>3, PTL DEF Spec
<1> QED
  BY <1>5, PTL DEF TicksRun, TicksRunNow

-----------------------------------------------------------------------------
(* The button Run now. *)

(* What others do, and what is asked for other tasks, never adds to the button's runs. *)
MineShrinks ==
    /\ MineActive' \subseteq MineActive
    /\ \A r \in MineActive' : db'.runs[r].test = db.runs[r].test
    /\ hist'.mine = hist.mine /\ hist'.mine \subseteq {r \in Nat : r < db'.next}

LEMMA MineKept ==
    ASSUME NowInv, DbKnown(db), hist'.mine = hist.mine, hist.again \subseteq hist'.again,
           RunsKept(db, db') \/ (Works(db, db') /\ AgainKept)
    PROVE  MineShrinks
<1>1. \A r \in hist.mine : r \in Nat /\ r < db.next
  BY DEF NowInv
<1>2. CASE RunsKept(db, db')
  <2>1. \A r \in hist.mine : r < db'.next
    BY <1>1, <1>2 DEF RunsKept
  <2>2. \A r \in hist.mine \cap DOMAIN db'.runs : r \in DOMAIN db.runs /\ db'.runs[r] = db.runs[r]
    <3> SUFFICES ASSUME NEW r \in hist.mine \cap DOMAIN db'.runs, ~ (r >= db.next)
                 PROVE  r \in DOMAIN db.runs /\ db'.runs[r] = db.runs[r]
      BY <1>1, <1>2 DEF RunsKept
    <3> QED
      BY <1>2 DEF RunsKept
  <2> QED
    BY <1>1, <2>1, <2>2 DEF MineShrinks, MineActive
<1>3. CASE Works(db, db') /\ AgainKept
  <2>1. DOMAIN db'.runs = DOMAIN db.runs /\ db'.next = db.next
    BY <1>3, WorksKnown
  <2>2. PICK r \in DOMAIN db.runs : \E run \in Progress(db.runs[r]) : db'.runs = [db.runs EXCEPT ![r] = run]
    BY <1>3 DEF Works
  <2>3. PICK run \in Progress(db.runs[r]) : db'.runs = [db.runs EXCEPT ![r] = run]
    BY <2>2
  <2>4. run.test = db.runs[r].test
    BY Progressed DEF DbKnown
  <2>5. \A q \in DOMAIN db.runs :
           /\ db'.runs[q].test = db.runs[q].test
           /\ Active(db'.runs[q].status) => Active(db.runs[q].status) \/ q \in hist'.again
    <3> SUFFICES ASSUME NEW q \in DOMAIN db.runs
                 PROVE  /\ db'.runs[q].test = db.runs[q].test
                        /\ Active(db'.runs[q].status) => Active(db.runs[q].status) \/ q \in hist'.again
      OBVIOUS
    <3>1. db'.runs[q].test = db.runs[q].test
      BY <2>3, <2>4
    <3>2. Reopened(db.runs[q], db'.runs[q]) => q \in hist'.again
      BY <1>3, <2>1 DEF AgainKept
    <3> QED
      BY <3>1, <3>2 DEF Reopened
  <2> QED
    BY <1>1, <2>1, <2>5 DEF MineShrinks, MineActive
<1> QED
  BY <1>2, <1>3

LEMMA NowQuiet ==
    ASSUME NowInv, Page = "now", setup' = setup, MineShrinks, "press" \notin hist.lost,
           ui'.starting = ui.starting, ui'.active = ui.active,
           \A j : j.who = "press" => (j \in tasks' <=> j \in tasks),
           \A j \in tasks' : j.who = "now" /\ Newest(j)' /\ Got(j, "runs") => j \in tasks /\ Newest(j)
    PROVE  PressInv'
<1>1. PressInv
  BY DEF NowInv
<1>2. /\ ui'.starting \in BOOLEAN /\ ui'.active \in Nat
      /\ \A k \in tasks' : k.who = "press" => ui'.starting /\ k.arg = [tests |-> {setup'.test}]
      /\ \A j, k \in tasks' : j.who = "press" /\ k.who = "press" => j = k
  BY <1>1 DEF PressInv
<1>3. \A k \in tasks' : k.who = "press" /\ ~ Got(k, "create") => MineActive' = {}
  BY <1>1 DEF PressInv, MineShrinks
<1>4. ui'.starting => Under("press")'
  BY <1>1 DEF PressInv, Under
<1>5. \A r \in MineActive' : db'.runs[r].test = setup'.test
  BY <1>1 DEF PressInv, MineShrinks
<1>6. ~ ui'.starting /\ MineActive' # {} =>
          /\ ui'.active > 0
          /\ \A k \in tasks' : k.who = "now" /\ Newest(k)' /\ Got(k, "runs") => ActiveIn(k.got.runs) > 0
  BY <1>1 DEF PressInv, MineShrinks
<1> QED
  BY <1>2, <1>3, <1>4, <1>5, <1>6 DEF PressInv, Got, Answered

LEMMA ActiveCount ==
    ASSUME NEW rows, IsFiniteSet(DOMAIN rows)
    PROVE  ActiveIn(rows) \in Nat /\ \A r \in DOMAIN rows : Active(rows[r]) => ActiveIn(rows) > 0
<1>1. PICK S : S = {r \in DOMAIN rows : Active(rows[r])}
  OBVIOUS
<1>2. S \in SUBSET DOMAIN rows
  BY <1>1
<1>3. IsFiniteSet(S)
  BY <1>2, FS_Subset
<1>4. Cardinality(S) \in Nat /\ (S # {} => Cardinality(S) > 0)
  BY <1>3, FS_CardinalityType, FS_EmptySet
<1> QED
  BY <1>1, <1>4 DEF ActiveIn

(* Of the page's tasks, those of the button and the chain. *)
LEMMA NowTasks ==
    ASSUME WorldKnown, ChainsKnown, Page = "now", NEW k \in tasks
    PROVE  /\ TaskKnown(k) /\ k.who \in {"now", "press"}
           /\ k.who = "press" => k.asks \cup DOMAIN k.got = {"create"}
           /\ k.who = "now" /\ k.at # "timer" => k.asks \cup DOMAIN k.got = {"runs"}
<1>1. TaskKnown(k)
  BY DEF ChainsKnown
<1>2. k.who \in {"now", "press"}
  BY <1>1 DEF TaskKnown, WhoOn
<1>3. k.who \notin {"now"} => k.at # "timer"
  BY <1>1, <1>2 DEF TaskKnown, Pollers
<1>4. Stages.press = {{"create"}} /\ Stages.now = {{"runs"}}
  BY DEF Stages
<1> QED
  BY <1>1, <1>2, <1>3, <1>4 DEF TaskKnown

LEMMA ServePress ==
    ASSUME WorldKnown, ChainsKnown, NowInv, Page = "now", "press" \notin hist.lost, Serve("press")
    PROVE  PressInv' /\ hist'.mine \subseteq {r \in Nat : r < db'.next}
<1>1. PICK k \in tasks :
         /\ k.who = "press" /\ k.at = "sent"
         /\ \E ask \in k.asks :
               \/ /\ Refused(ask, k.arg, db)
                  /\ Then(k, {[k EXCEPT !.at = "error"]})
                  /\ UNCHANGED << db, hist >>
               \/ /\ ~ Refused(ask, k.arg, db)
                  /\ db' = Effect(ask, k.arg, db)
                  /\ Then(k, {[k EXCEPT !.asks = @ \ {ask}, !.got = Entry(ask, Answer(ask, k.arg, db)) ++ @]})
                  /\ hist' = [hist EXCEPT !.mine = hist.mine \cup (DOMAIN db'.runs \ DOMAIN db.runs), !.again = hist.again]
  BY DEF Serve
<1>2. UNCHANGED << setup, ui >> /\ DbKnown(db) /\ PressInv
  BY DEF Serve, WorldKnown, NowInv
<1>3. k.asks \cup DOMAIN k.got = {"create"}
  BY <1>1, NowTasks
<1>4. k.arg = [tests |-> {setup.test}] /\ ui.starting /\ \A j \in tasks : j.who = "press" => j = k
  BY <1>1, <1>2 DEF PressInv
<1>5. ASSUME NEW new, Then(k, {new}), new.who = "press", new.arg = k.arg, MineActive' = {} \/ Got(new, "create"),
             \A r \in MineActive' : db'.runs[r].test = setup.test
      PROVE  PressInv'
  <2>1. \A j \in tasks' : (j \in tasks /\ j.who # "press") \/ j = new
    BY <1>4, <1>5 DEF Then
  <2>2. new \in tasks'
    BY <1>5 DEF Then
  <2>3. /\ ui'.starting \in BOOLEAN /\ ui'.active \in Nat
        /\ \A j \in tasks' : j.who = "press" => ui'.starting /\ j.arg = [tests |-> {setup'.test}]
        /\ \A i, j \in tasks' : i.who = "press" /\ j.who = "press" => i = j
        /\ ui'.starting => Under("press")'
    BY <1>2, <1>4, <1>5, <2>1, <2>2 DEF PressInv, Under
  <2>4. \A j \in tasks' : j.who = "press" /\ ~ Got(j, "create") => MineActive' = {}
    BY <1>5, <2>1
  <2> QED
    BY <1>2, <1>4, <1>5, <2>3, <2>4 DEF PressInv, Got, Answered
<1>6. PICK ask \in k.asks :
               \/ /\ Refused(ask, k.arg, db)
                  /\ Then(k, {[k EXCEPT !.at = "error"]})
                  /\ UNCHANGED << db, hist >>
               \/ /\ ~ Refused(ask, k.arg, db)
                  /\ db' = Effect(ask, k.arg, db)
                  /\ Then(k, {[k EXCEPT !.asks = @ \ {ask}, !.got = Entry(ask, Answer(ask, k.arg, db)) ++ @]})
                  /\ hist' = [hist EXCEPT !.mine = hist.mine \cup (DOMAIN db'.runs \ DOMAIN db.runs), !.again = hist.again]
  BY <1>1
<1>7. ask = "create"
  BY <1>3
<1>8. MineActive = {}
  <2>1. ask \notin DOMAIN k.got \/ k.asks # {}
    BY <1>6
  <2> QED
    BY <1>1, <1>2, <2>1 DEF PressInv, Got, Answered
<1>9. CASE Then(k, {[k EXCEPT !.at = "error"]}) /\ UNCHANGED << db, hist >>
  <2>4. PICK new : new = [k EXCEPT !.at = "error"]
    OBVIOUS
  <2>5. new.who = k.who /\ new.arg = k.arg /\ Then(k, {new})
    BY <1>1, <1>9, <2>4, Erred
  <2>1. Then(k, {new}) /\ new.who = "press" /\ new.arg = k.arg
    BY <1>1, <2>5
  <2>2. MineActive' = {}
    BY <1>8, <1>9 DEF MineActive
  <2>3. PressInv'
    BY <1>5, <2>1, <2>2
  <2> QED
    BY <1>9, <2>3 DEF NowInv
<1>10. CASE /\ db' = Effect(ask, k.arg, db)
            /\ Then(k, {[k EXCEPT !.asks = @ \ {ask}, !.got = Entry(ask, Answer(ask, k.arg, db)) ++ @]})
            /\ hist' = [hist EXCEPT !.mine = hist.mine \cup (DOMAIN db'.runs \ DOMAIN db.runs), !.again = hist.again]
  <2>15. PICK new : new = [k EXCEPT !.asks = @ \ {ask}, !.got = Entry(ask, Answer(ask, k.arg, db)) ++ @]
    OBVIOUS
  <2>16. k.at = "sent" /\ k.who = "press"
    BY <1>1
  <2>17. /\ new.who = k.who /\ new.arg = k.arg /\ new.at = "sent"
         /\ new.asks = k.asks \ {ask} /\ DOMAIN new.got = DOMAIN k.got \cup {ask}
    BY <2>15, <2>16, Served
  <2>1. /\ Then(k, {new}) /\ new.who = "press" /\ new.arg = k.arg /\ new.at = "sent"
        /\ new.asks = k.asks \ {ask} /\ DOMAIN new.got = DOMAIN k.got \cup {ask}
    BY <1>10, <2>15, <2>16, <2>17
  <2>2. Got(new, "create")
    <3>1. new.asks = {}
      BY <1>3, <1>7, <2>1
    <3> QED
      BY <1>7, <2>1, <3>1 DEF Got, Answered
  <2>3. db' = Queue({setup.test}, setup.fan, db)
    BY <1>4, <1>7, <1>10 DEF Effect
  <2>18. setup.fan \in Nat
    BY SetupsAssumption DEF WorldKnown
  <2>4. RunsKept(db, db') /\ \A r \in DOMAIN db'.runs \ DOMAIN db.runs : db'.runs[r].test = setup.test
    BY <1>2, <2>3, <2>18, Queued
  <2>5. hist'.mine = hist.mine \cup (DOMAIN db'.runs \ DOMAIN db.runs)
    BY <1>10 DEF WorldKnown
  <2>6. \A r \in hist.mine : r \in Nat /\ r < db.next
    BY DEF NowInv
  <2>7. \A r \in (hist.mine \cap DOMAIN db.runs) \ hist.again : ~ Active(db.runs[r].status)
    BY <1>8 DEF MineActive
  <2>8. \A r \in DOMAIN db.runs \cap DOMAIN db'.runs : r \in hist.mine => db'.runs[r] = db.runs[r]
    <3> SUFFICES ASSUME NEW r \in hist.mine, r \in DOMAIN db'.runs, ~ (r >= db.next) PROVE db'.runs[r] = db.runs[r]
      BY <2>4, <2>6 DEF RunsKept
    <3> QED
      BY <2>4 DEF RunsKept
  <2>10. hist'.again = hist.again
    BY <1>10 DEF WorldKnown
  <2>9. \A r \in MineActive' : r \in DOMAIN db'.runs \ DOMAIN db.runs
    BY <2>5, <2>7, <2>8, <2>10 DEF MineActive
  <2>11. \A r \in MineActive' : db'.runs[r].test = setup.test
    BY <2>4, <2>9
  <2>12. PressInv'
    BY <1>5, <2>1, <2>2, <2>11
  <2>13. \A r \in DOMAIN db'.runs \ DOMAIN db.runs : r \in Nat /\ r < db'.next
    BY <2>4 DEF RunsKept
  <2>14. \A r \in hist.mine : r < db'.next
    BY <2>4, <2>6 DEF RunsKept
  <2> QED
    BY <2>5, <2>6, <2>12, <2>13, <2>14
<1> QED
  BY <1>6, <1>9, <1>10

(* What becomes of the runs, and of those of the button. *)
LEMMA DbSteps ==
    ASSUME WorldKnown, ChainsKnown, [Next]_vars
    PROVE  RunsKept(db, db') \/ (Works(db, db') /\ OthersStep)
<1>1. DbKnown(db) /\ setup \in Setups /\ RunsKept(db, db)
  BY SameRuns DEF WorldKnown, DbKnown
<1>2. db' = db => RunsKept(db, db')
  BY <1>1
<1>3. Asks => RunsKept(db, db')
  BY <1>1, AsksKnown DEF EffectOn
<1>4. ASSUME OthersStep PROVE RunsKept(db, db') \/ Works(db, db')
  <2>1. Works(db, db') \/ \E ask : \E x : db' = Effect(ask, x, db)
    BY <1>4, OthersSteps
  <2> QED
    BY <1>1, <2>1, EffectKnown DEF EffectOn
<1>5. UserStep => db' = db
  BY UserSteps DEF UserStep, PageStep
<1>6. (UNCHANGED vars \/ Leave \/ \E who \in Who : Tick(who)) => db' = db
  BY DEF vars, Leave, Tick
<1>7. ASSUME NEW who, NEW k \in tasks, Continue(who, k) PROVE db' = db
  BY <1>7 DEF Continue
<1> QED
  BY <1>2, <1>3, <1>4, <1>5, <1>6, <1>7, Steps, ServeSteps, BreakSteps

LEMMA MineSteps ==
    ASSUME WorldKnown, ChainsKnown, [Next]_vars
    PROVE  /\ hist.lost \subseteq hist'.lost
           /\ Page = "now" => hist.again \subseteq hist'.again
           /\ \/ hist'.mine = hist.mine
              \/ Serve("press") /\ Page = "now" /\ hist'.mine = hist.mine \cup (DOMAIN db'.runs \ DOMAIN db.runs)
<1> DEFINE Goal == /\ hist.lost \subseteq hist'.lost
                   /\ Page = "now" => hist.again \subseteq hist'.again
                   /\ \/ hist'.mine = hist.mine
                      \/ Serve("press") /\ Page = "now" /\ hist'.mine = hist.mine \cup (DOMAIN db'.runs \ DOMAIN db.runs)
<1>1. Own => Goal
  BY DEF Own
<1>2. UNCHANGED hist => Own
  BY DEF Own
<1>3. ASSUME UserStep PROVE Goal
  BY <1>1, <1>3, UserSteps DEF UserStep, PageStep
<1>4. (UNCHANGED vars \/ Leave \/ \E who \in Who : Tick(who)) => UNCHANGED hist
  BY DEF vars, Leave, Tick
<1>5. ASSUME NEW who, NEW k \in tasks, Continue(who, k) PROVE Goal
  BY <1>1, <1>5, ResumeSteps DEF PageStep
<1>6. ASSUME NEW who, Serve(who) PROVE Goal
  <2>1. PICK k \in tasks :
          /\ k.who = who /\ k.at = "sent"
          /\ \/ UNCHANGED hist
             \/ hist' = [hist EXCEPT !.mine = IF who = "press" THEN @ \cup (DOMAIN db'.runs \ DOMAIN db.runs) ELSE @,
                                     !.again = IF who = "load" THEN @ \ {k.arg.run} ELSE @]
    BY <1>6 DEF Serve
  <2>2. CASE UNCHANGED hist
    BY <2>2
  <2>3. CASE ~ UNCHANGED hist
    <3>1. PICK v, w : /\ v = (IF who = "press" THEN hist.mine \cup (DOMAIN db'.runs \ DOMAIN db.runs) ELSE hist.mine)
                      /\ w = (IF who = "load" THEN hist.again \ {k.arg.run} ELSE hist.again)
      OBVIOUS
    <3>2. hist' = [hist EXCEPT !.mine = v, !.again = w]
      BY <2>1, <2>3, <3>1
    <3>3. hist'.mine = v /\ hist'.again = w /\ hist'.lost = hist.lost
      BY <3>2 DEF WorldKnown
    <3>4. who \in WhoOn[Page]
      BY <2>1 DEF ChainsKnown, TaskKnown
    <3>5. Page \in {"home", "now", "recent", "run", "settings"}
      BY SetupsAssumption DEF WorldKnown, Page
    <3>6. (who = "press" => Page = "now") /\ (who = "load" => Page = "run")
      BY <3>4, <3>5 DEF WhoOn
    <3> QED
      BY <1>6, <3>1, <3>3, <3>6
  <2> QED
    BY <2>2, <2>3
<1>7. ASSUME NEW k \in tasks, Break(k) PROVE Goal
  <2>1. PICK lost : hist' = [hist EXCEPT !.lost = lost] /\ hist.lost \subseteq lost
    <3>1. hist' = [hist EXCEPT !.lost = IF db' # db \/ k.who \in Folding THEN @ \cup {k.who} ELSE @]
      BY <1>7 DEF Break
    <3> QED
      BY <3>1
  <2> QED
    BY <2>1 DEF WorldKnown
<1>8. ASSUME OthersStep PROVE Goal
  <2>1. hist' = [hist EXCEPT !.mixed = hist'.mixed, !.wrote = hist'.wrote, !.again = hist'.again] /\ AgainKept
    BY <1>8, OthersSteps
  <2>2. PICK b, n, g : hist' = [hist EXCEPT !.mixed = b, !.wrote = n, !.again = g]
    BY <2>1
  <2>3. hist'.lost = hist.lost /\ hist'.mine = hist.mine
    BY <2>2 DEF WorldKnown
  <2> QED
    BY <2>1, <2>3 DEF AgainKept
<1> QED
  BY <1>1, <1>2, <1>3, <1>4, <1>5, <1>6, <1>7, <1>8, Steps

LEMMA MineNext ==
    ASSUME WorldKnown, ChainsKnown, NowInv, [Next]_vars
    PROVE  /\ hist'.mine \subseteq {r \in Nat : r < db'.next}
           /\ Page' # "now" => hist'.mine = {}
<1>1. setup' = setup /\ DbKnown(db)
  BY WorldNext DEF WorldKnown
<1>2. \A r \in hist.mine : r \in Nat /\ r < db.next
  BY DEF NowInv
<1>3. CASE Works(db, db') /\ OthersStep
  <2>1. hist'.mine = hist.mine
    <3>1. hist' = [hist EXCEPT !.mixed = hist'.mixed, !.wrote = hist'.wrote, !.again = hist'.again]
      BY <1>3, OthersSteps
    <3>2. PICK b, n, g : hist' = [hist EXCEPT !.mixed = b, !.wrote = n, !.again = g]
      BY <3>1
    <3> QED
      BY <3>2 DEF WorldKnown
  <2>2. db'.next = db.next
    BY <1>1, <1>3, WorksKnown
  <2> QED
    BY <1>1, <1>2, <2>1, <2>2 DEF NowInv, Page
<1>4. CASE RunsKept(db, db')
  <2>1. \A r \in hist.mine : r < db'.next
    BY <1>2, <1>4 DEF RunsKept
  <2>2. \A r \in DOMAIN db'.runs \ DOMAIN db.runs : r \in Nat /\ r < db'.next
    BY <1>4 DEF RunsKept
  <2> QED
    BY <1>1, <1>2, <2>1, <2>2, MineSteps DEF NowInv, Page
<1> QED
  BY <1>3, <1>4, DbSteps

LEMMA ServeNow ==
    ASSUME WorldKnown, ChainsKnown, NowInv, Page = "now", "press" \notin hist.lost, MineShrinks,
           NEW who, Serve(who), who # "press"
    PROVE  PressInv'
<1>1. PICK k \in tasks :
         /\ k.who = who /\ k.at = "sent"
         /\ \E ask \in k.asks :
               \/ Then(k, {[k EXCEPT !.at = "error"]})
               \/ Then(k, {[k EXCEPT !.asks = @ \ {ask}, !.got = Entry(ask, Answer(ask, k.arg, db)) ++ @]})
  BY DEF Serve
<1>2. UNCHANGED << setup, ui >> /\ DbKnown(db) /\ PressInv
  BY DEF Serve, WorldKnown, NowInv
<1>3. k.who = "now" /\ k.asks \cup DOMAIN k.got = {"runs"}
  <2>1. k.at # "timer" /\ k.who # "press"
    BY <1>1
  <2> QED
    BY <2>1, NowTasks
<1>4. PICK ask \in k.asks :
               \/ Then(k, {[k EXCEPT !.at = "error"]})
               \/ Then(k, {[k EXCEPT !.asks = @ \ {ask}, !.got = Entry(ask, Answer(ask, k.arg, db)) ++ @]})
  BY <1>1
<1>5. ask = "runs"
  BY <1>3
<1>6. \A j : Newest(j)' <=> Newest(j)
  BY <1>2 DEF Newest
<1>7. ASSUME NEW new, Then(k, {new}), new.who = "now" PROVE \A j : j.who = "press" => (j \in tasks' <=> j \in tasks)
  BY <1>3, <1>7 DEF Then
<1>8. CASE Then(k, {[k EXCEPT !.at = "error"]})
  <2>1. PICK new : new = [k EXCEPT !.at = "error"]
    OBVIOUS
  <2>2. new.who = "now" /\ new.at = "error" /\ Then(k, {new})
    BY <1>1, <1>3, <1>8, <2>1, Erred
  <2>3. \A j \in tasks' : j.who = "now" /\ Newest(j)' /\ Got(j, "runs") => j \in tasks /\ Newest(j)
    BY <1>6, <2>2 DEF Then, Got, Answered
  <2>4. \A j : j.who = "press" => (j \in tasks' <=> j \in tasks)
    BY <1>7, <2>2
  <2> QED
    BY <1>2, <2>3, <2>4, NowQuiet
<1>9. CASE Then(k, {[k EXCEPT !.asks = @ \ {ask}, !.got = Entry(ask, Answer(ask, k.arg, db)) ++ @]})
  <2>1. PICK new : new = [k EXCEPT !.asks = @ \ {ask}, !.got = Entry(ask, Answer(ask, k.arg, db)) ++ @]
    OBVIOUS
  <2>9. k.at = "sent"
    BY <1>1
  <2>10. new.who = k.who /\ new.got[ask] = Answer(ask, k.arg, db)
    BY <2>1, <2>9, Served
  <2>11. Then(k, {new})
    BY <1>9, <2>1
  <2>2. new.who = "now" /\ new.got["runs"] = Answer(ask, k.arg, db) /\ Then(k, {new})
    BY <1>3, <1>5, <2>10, <2>11
  <2>3. new.got.runs = RunRows(db)
    BY <1>5, <2>2 DEF Answer
  <2>4. \A j : j.who = "press" => (j \in tasks' <=> j \in tasks)
    BY <1>7, <2>2
  <2>5. ~ ui'.starting /\ MineActive' # {} => ActiveIn(RunRows(db)) > 0
    <3> SUFFICES ASSUME ~ ui.starting, NEW r \in MineActive PROVE ActiveIn(RunRows(db)) > 0
      BY <1>2 DEF MineShrinks
    <3>1. r \in DOMAIN db.runs /\ Active(db.runs[r].status) /\ db.runs[r].test = setup.test
      BY <1>2 DEF PressInv, MineActive
    <3>2. r \in DOMAIN RunRows(db) /\ RunRows(db)[r] = db.runs[r].status
      BY <3>1 DEF RunRows, RunsOf
    <3>3. PICK rows : rows = RunRows(db)
      OBVIOUS
    <3>4. IsFiniteSet(DOMAIN rows)
      BY <1>2, <3>3, RunRowsKnown
    <3> QED
      BY <3>1, <3>2, <3>3, <3>4, ActiveCount
  <2>6. ~ ui'.starting /\ MineActive' # {} =>
          /\ ui'.active > 0
          /\ \A j \in tasks' : j.who = "now" /\ Newest(j)' /\ Got(j, "runs") => ActiveIn(j.got.runs) > 0
    BY <1>2, <1>6, <2>2, <2>3, <2>5 DEF PressInv, MineShrinks, Then
  <2>7. /\ ui'.starting \in BOOLEAN /\ ui'.active \in Nat
        /\ \A j \in tasks' : j.who = "press" => ui'.starting /\ j.arg = [tests |-> {setup'.test}]
        /\ \A i, j \in tasks' : i.who = "press" /\ j.who = "press" => i = j
        /\ ui'.starting => Under("press")'
    BY <1>2, <2>4 DEF PressInv, Under
  <2>8. /\ \A j \in tasks' : j.who = "press" /\ ~ Got(j, "create") => MineActive' = {}
        /\ \A r \in MineActive' : db'.runs[r].test = setup'.test
    BY <1>2, <2>4 DEF PressInv, MineShrinks
  <2> QED
    BY <2>6, <2>7, <2>8 DEF PressInv, Got, Answered
<1> QED
  BY <1>4, <1>8, <1>9

LEMMA BreakNow ==
    ASSUME WorldKnown, ChainsKnown, NowInv, Page = "now", "press" \notin hist'.lost, MineShrinks, "press" \notin hist.lost,
           NEW k \in tasks, Break(k)
    PROVE  PressInv'
<1>1. UNCHANGED << setup, ui >> /\ k.at = "sent" /\ Then(k, {[k EXCEPT !.at = "error"]}) /\ PressInv
  BY DEF Break, NowInv
<1>2. PICK new : new = [k EXCEPT !.at = "error"]
  OBVIOUS
<1>3. new.who = k.who /\ new.arg = k.arg /\ new.at = "error" /\ Then(k, {new})
  BY <1>1, <1>2, Erred
<1>4. \A j : Newest(j)' <=> Newest(j)
  BY <1>1 DEF Newest
<1>5. CASE k.who # "press"
  <2>1. \A j \in tasks' : j.who = "now" /\ Newest(j)' /\ Got(j, "runs") => j \in tasks /\ Newest(j)
    BY <1>3, <1>4 DEF Then, Got, Answered
  <2>2. \A j : j.who = "press" => (j \in tasks' <=> j \in tasks)
    BY <1>3, <1>5 DEF Then
  <2> QED
    BY <1>1, <2>1, <2>2, NowQuiet
<1>6. CASE k.who = "press"
  <2>1. k.asks # {} /\ ~ Got(k, "create")
    BY DEF Break, Got, Answered
  <2>2. MineActive = {} /\ ui.starting /\ (\A j \in tasks : j.who = "press" => j = k) /\ k.arg = [tests |-> {setup.test}]
    BY <1>1, <1>6, <2>1 DEF PressInv
  <2>3. MineActive' = {}
    BY <2>2 DEF MineShrinks
  <2>4. \A j \in tasks' : (j \in tasks /\ j.who # "press") \/ j = new
    BY <1>3, <2>2 DEF Then
  <2>5. new \in tasks'
    BY <1>3 DEF Then
  <2>6. /\ ui'.starting \in BOOLEAN /\ ui'.active \in Nat
        /\ \A j \in tasks' : j.who = "press" => ui'.starting /\ j.arg = [tests |-> {setup'.test}]
        /\ \A i, j \in tasks' : i.who = "press" /\ j.who = "press" => i = j
        /\ ui'.starting => Under("press")'
    BY <1>1, <1>3, <1>6, <2>2, <2>4, <2>5 DEF PressInv, Under
  <2> QED
    BY <1>1, <2>2, <2>3, <2>6 DEF PressInv
<1> QED
  BY <1>5, <1>6

LEMMA ResumeNowInv ==
    ASSUME WorldKnown, ChainsKnown, NowInv, Page = "now", "press" \notin hist.lost, NEW who, NEW k \in tasks, Continue(who, k)
    PROVE  PressInv'
<1>1. DOMAIN ui = {"mounted", "gen", "active", "starting"} /\ PressInv /\ UNCHANGED << setup, db >> /\ k.who = who
      /\ TaskKnown(k) /\ who \in {"now", "press"}
  BY NowTasks DEF WorldKnown, Signals, NowInv, Continue
<1>2. hist' = hist
  BY <1>1 DEF Continue
<1>3. MineActive' = MineActive /\ MineShrinks
  BY <1>1, <1>2 DEF MineActive, MineShrinks, NowInv
<1>4. CASE who = "now"
  <2>1. ResumeNow(k)
    BY <1>4 DEF Continue
  <2>2. PICK t : t = Timer(k.who, k.gen)
    OBVIOUS
  <2>3. t.at = "timer" /\ t.who = "now" /\ \A j \in tasks' : (j \in tasks /\ j # k) \/ j = t
    BY <1>1, <1>4, <2>1, <2>2, Timers DEF ResumeNow, Then, Rest
  <2>4. \A j : j.who = "press" => (j \in tasks' <=> j \in tasks)
    BY <1>1, <1>4, <2>1, <2>2, <2>3 DEF ResumeNow, Then
  <2>5. ui'.gen = ui.gen
    BY <1>1, <2>1, GenKept DEF ResumeNow
  <2>6. \A j \in tasks' : j.who = "now" /\ Newest(j)' /\ Got(j, "runs") => j \in tasks /\ Newest(j) /\ j # k
    BY <2>3, <2>5 DEF Newest, Got, Answered
  <2>7. CASE UNCHANGED ui
    BY <1>1, <1>3, <2>4, <2>6, <2>7, NowQuiet
  <2>8. CASE Answered(k) /\ Rest(k) # {} /\ Set([active |-> ActiveIn(k.got.runs)])
    <3>1. Newest(k)
      BY <1>1, <1>4, <2>8 DEF Rest, Newest, Pollers
    <3>2. k.asks \cup DOMAIN k.got = {"runs"}
      <4>1. k.at # "timer"
        BY <2>8 DEF Answered
      <4> QED
        BY <1>1, <1>4, <4>1, NowTasks
    <3>3. Got(k, "runs")
      BY <2>8, <3>2 DEF Got, Answered
    <3>4. \A j \in tasks : j.who = "now" /\ Newest(j) => j = k
      BY <1>1, <1>4, <3>1 DEF ChainsKnown
    <3>5. ui'.active = ActiveIn(k.got.runs) /\ ui'.starting = ui.starting
      BY <1>1, <2>8, SetParts
    <3>6. IsFiniteSet(DOMAIN k.got.runs)
      BY <1>1, <3>2, <3>3 DEF TaskKnown, Got
    <3>7. ui'.active \in Nat
      <4>1. PICK rows : rows = k.got.runs
        OBVIOUS
      <4> QED
        BY <3>5, <3>6, <4>1, ActiveCount
    <3>8. ~ ui'.starting /\ MineActive' # {} =>
            /\ ui'.active > 0
            /\ \A j \in tasks' : j.who = "now" /\ Newest(j)' /\ Got(j, "runs") => ActiveIn(j.got.runs) > 0
      BY <1>1, <1>3, <1>4, <2>6, <3>1, <3>3, <3>4, <3>5 DEF PressInv
    <3>9. /\ ui'.starting \in BOOLEAN
          /\ \A j \in tasks' : j.who = "press" => ui'.starting /\ j.arg = [tests |-> {setup'.test}]
          /\ \A i, j \in tasks' : i.who = "press" /\ j.who = "press" => i = j
          /\ ui'.starting => Under("press")'
      BY <1>1, <2>4, <3>5 DEF PressInv, Under
    <3>10. /\ \A j \in tasks' : j.who = "press" /\ ~ Got(j, "create") => MineActive' = {}
           /\ \A r \in MineActive' : db'.runs[r].test = setup'.test
      BY <1>1, <1>3, <2>4 DEF PressInv
    <3> QED
      BY <3>7, <3>8, <3>9, <3>10 DEF PressInv, Got, Answered
  <2> QED
    BY <2>1, <2>7, <2>8 DEF ResumeNow
<1>5. CASE who = "press"
  <2>1. ResumePress(k)
    BY <1>5 DEF Continue
  <2>2. \A j \in tasks : j.who = "press" => j = k
    BY <1>1, <1>5 DEF PressInv
  <2>3. ASSUME \A j \in tasks' : j.who # "press", ui'.starting = FALSE, ui'.active \in Nat,
               MineActive' # {} => /\ ui'.active > 0
                                   /\ \A j \in tasks' : j.who = "now" /\ Newest(j)' => ~ Got(j, "runs")
        PROVE  PressInv'
    <3>1. \A r \in MineActive' : db'.runs[r].test = setup'.test
      BY <1>1, <1>3 DEF PressInv
    <3> QED
      BY <2>3, <3>1 DEF PressInv, Got, Answered
  <2>4. CASE Failed(k) /\ Set([starting |-> FALSE]) /\ Then(k, {})
    <3>1. MineActive = {}
      BY <1>1, <1>5, <2>4 DEF PressInv, Failed, Got, Answered
    <3>2. \A j \in tasks' : j.who # "press"
      BY <2>2, <2>4 DEF Then
    <3>3. ui'.starting = FALSE /\ ui'.active = ui.active
      <4>1. PICK what : what = [starting |-> FALSE] /\ Set(what)
        BY <2>4
      <4>2. DOMAIN what = {"starting"} /\ what.starting = FALSE
        BY <4>1
      <4>3. ui'.starting = what.starting /\ ui'.active = ui.active
        BY <1>1, <4>1, <4>2, SetParts
      <4> QED
        BY <4>2, <4>3
    <3> QED
      BY <1>1, <1>3, <2>3, <3>1, <3>2, <3>3 DEF PressInv
  <2>5. CASE Set([starting |-> FALSE, active |-> ui.active + 1, gen |-> Bump("now")]) /\ Chain("now", k)
    <3>1. PICK what : what = [starting |-> FALSE, active |-> ui.active + 1, gen |-> Bump("now")] /\ Set(what)
      BY <2>5
    <3>2. /\ DOMAIN what = {"starting", "active", "gen"} /\ what.starting = FALSE /\ what.active = ui.active + 1
          /\ what.gen = Bump("now")
      BY <3>1
    <3>3. ui'.starting = what.starting /\ ui'.active = what.active /\ ui'.gen = what.gen
      BY <3>1, <3>2, SetParts
    <3>4. ui'.starting = FALSE /\ ui'.active = ui.active + 1 /\ ui.active \in Nat
      BY <1>1, <3>2, <3>3 DEF PressInv
    <3>5. PICK new : new = Ask("now", ui.gen["now"] + 1)
      OBVIOUS
    <3>6. new.who = "now" /\ DOMAIN new.got = {} /\ \A j \in tasks' : (j \in tasks /\ j # k) \/ j = new
      BY <2>5, <3>5, Tasks DEF Chain, Ask
    <3>7. ui'.gen["now"] = ui.gen["now"] + 1 /\ ui.gen["now"] \in Nat
      BY <3>2, <3>3 DEF Bump, ChainsKnown, Pollers
    <3>8. \A j \in tasks : j.who = "now" => ~ Newest(j)'
      <4> SUFFICES ASSUME NEW j \in tasks, j.who = "now" PROVE j.gen # ui.gen["now"] + 1
        BY <3>7 DEF Newest
      <4>1. j.gen \in Nat /\ j.gen <= ui.gen["now"]
        BY DEF ChainsKnown, TaskKnown, Pollers
      <4> QED
        BY <3>7, <4>1
    <3>9. \A j \in tasks' : j.who = "now" /\ Newest(j)' => ~ Got(j, "runs")
      BY <3>6, <3>8 DEF Got
    <3>10. \A j \in tasks' : j.who # "press"
      BY <2>2, <3>6
    <3>11. ui'.active \in Nat /\ ui'.active > 0
      BY <3>4
    <3> QED
      BY <2>3, <3>4, <3>9, <3>10, <3>11
  <2> QED
    BY <2>1, <2>4, <2>5 DEF ResumePress
<1> QED
  BY <1>1, <1>4, <1>5

LEMMA PressNow ==
    ASSUME WorldKnown, ChainsKnown, NowInv, Page = "now", "press" \notin hist.lost, PressRunNow
    PROVE  PressInv'
<1>1. DOMAIN ui = {"mounted", "gen", "active", "starting"} /\ PressInv
  BY DEF WorldKnown, Signals, NowInv
<1>2. ~ ui.starting /\ ~ (ui.active > 0) /\ UNCHANGED << setup, db, hist >> /\ Set([starting |-> TRUE])
  BY DEF PressRunNow, Busy
<1>3. MineActive = {} /\ MineActive' = {}
  BY <1>1, <1>2 DEF PressInv, MineActive
<1>4. PICK what : what = [starting |-> TRUE] /\ Set(what)
  BY <1>2
<1>5. DOMAIN what = {"starting"} /\ what.starting = TRUE
  BY <1>4
<1>6. ui'.starting = what.starting /\ ui'.active = ui.active
  BY <1>1, <1>4, <1>5, SetParts
<1>7. PICK k : k = Task("press", 0, {"create"}, [tests |-> {setup.test}])
  OBVIOUS
<1>8. k.who = "press" /\ k.arg = [tests |-> {setup.test}] /\ tasks' = tasks \cup {k}
  BY <1>7, Tasks DEF PressRunNow, Starts
<1>9. \A j \in tasks : j.who # "press"
  BY <1>1, <1>2 DEF PressInv
<1>10. ui'.starting = TRUE /\ ui'.active \in Nat
  BY <1>1, <1>5, <1>6 DEF PressInv
<1>11. /\ \A j \in tasks' : j.who = "press" => ui'.starting /\ j.arg = [tests |-> {setup'.test}]
       /\ \A i, j \in tasks' : i.who = "press" /\ j.who = "press" => i = j
       /\ ui'.starting => Under("press")'
  BY <1>2, <1>8, <1>9, <1>10 DEF Under
<1> QED
  BY <1>3, <1>10, <1>11 DEF PressInv

LEMMA NowNext ==
    ASSUME WorldKnown, ChainsKnown, NowInv, [Next]_vars
    PROVE  NowInv'
<1>1. setup' = setup /\ DbKnown(db)
  BY WorldNext DEF WorldKnown
<1> SUFFICES ASSUME Page = "now", "press" \notin hist'.lost PROVE PressInv'
  BY <1>1, MineNext DEF NowInv, Page
<1>2. "press" \notin hist.lost
  BY MineSteps
<1>3. hist'.mine = hist.mine => MineShrinks
  <2>1. hist.again \subseteq hist'.again /\ (OthersStep => AgainKept)
    BY MineSteps, OthersSteps
  <2> QED
    BY <1>1, <2>1, DbSteps, MineKept
<1>4. ASSUME hist'.mine = hist.mine, ui'.starting = ui.starting, ui'.active = ui.active,
             \A j : j.who = "press" => (j \in tasks' <=> j \in tasks),
             \A j \in tasks' : j.who = "now" /\ Newest(j)' /\ Got(j, "runs") => j \in tasks /\ Newest(j)
      PROVE  PressInv'
  BY <1>1, <1>2, <1>3, <1>4, NowQuiet
<1>5. CASE UNCHANGED << ui, tasks, hist >>
  <2>1. \A j : Newest(j)' <=> Newest(j)
    BY <1>5 DEF Newest
  <2> QED
    BY <1>4, <1>5, <2>1
<1>6. CASE UserStep
  BY <1>2, <1>6, PressNow DEF UserStep
<1>7. CASE Leave
  <2>1. DOMAIN ui = {"mounted", "gen", "active", "starting"}
    BY DEF WorldKnown, Signals
  <2>2. Set([mounted |-> FALSE]) /\ hist' = hist /\ tasks' = {k \in tasks : k.at # "timer"}
    BY <1>7 DEF Leave
  <2>3. ui'.starting = ui.starting /\ ui'.active = ui.active /\ ui'.gen = ui.gen
    <3>1. PICK what : what = [mounted |-> FALSE] /\ Set(what)
      BY <2>2
    <3>2. DOMAIN what = {"mounted"}
      BY <3>1
    <3> QED
      BY <2>1, <3>1, <3>2, SetParts
  <2>4. \A j \in tasks : j.who = "press" => j.at # "timer"
    BY DEF ChainsKnown, TaskKnown, Pollers
  <2>5. \A j : Newest(j)' <=> Newest(j)
    BY <2>3 DEF Newest
  <2> QED
    BY <1>4, <2>2, <2>3, <2>4, <2>5
<1>8. ASSUME NEW who, Tick(who) PROVE PressInv'
  <2>1. UNCHANGED << setup, db, ui, count, hist >> /\ who \in Pollers
    BY <1>8, TickTasks
  <2>2. PICK k \in tasks : k.who = who /\ k.at = "timer" /\ Then(k, {Ask(who, k.gen)})
    BY <1>8, TickTasks
  <2>3. PICK new : new = Ask(who, k.gen)
    OBVIOUS
  <2>4. new.who = who /\ DOMAIN new.got = {}
    BY <2>3, Tasks DEF Ask
  <2>5. \A j : Newest(j)' <=> Newest(j)
    BY <2>1 DEF Newest
  <2>6. \A j : j.who = "press" => (j \in tasks' <=> j \in tasks)
    BY <2>1, <2>2, <2>3, <2>4 DEF Then, Pollers
  <2>7. \A j \in tasks' : j.who = "now" /\ Newest(j)' /\ Got(j, "runs") => j \in tasks /\ Newest(j)
    BY <2>2, <2>3, <2>4, <2>5 DEF Then, Got
  <2> QED
    BY <1>4, <2>1, <2>6, <2>7
<1>9. ASSUME NEW who, Serve(who) PROVE PressInv'
  <2>1. CASE who = "press"
    BY <1>2, <1>9, <2>1, ServePress
  <2>2. CASE who # "press"
    <3>1. hist'.mine = hist.mine
      BY <1>9, <2>2 DEF Serve, WorldKnown
    <3> QED
      BY <1>2, <1>3, <1>9, <2>2, <3>1, ServeNow
  <2> QED
    BY <2>1, <2>2
<1>10. ASSUME NEW who, NEW k \in tasks, Continue(who, k) PROVE PressInv'
  BY <1>2, <1>10, ResumeNowInv
<1>11. ASSUME NEW k \in tasks, Break(k) PROVE PressInv'
  <2>1. hist'.mine = hist.mine
    BY <1>11 DEF Break, WorldKnown
  <2> QED
    BY <1>2, <1>3, <1>11, <2>1, BreakNow
<1>12. CASE OthersStep
  <2>1. UNCHANGED << setup, ui, tasks >> /\ hist' = [hist EXCEPT !.mixed = hist'.mixed, !.wrote = hist'.wrote, !.again = hist'.again]
    BY <1>12, OthersSteps
  <2>2. PICK b, n, g : hist' = [hist EXCEPT !.mixed = b, !.wrote = n, !.again = g]
    BY <2>1
  <2>3. hist'.mine = hist.mine
    BY <2>2 DEF WorldKnown
  <2>4. \A j : Newest(j)' <=> Newest(j)
    BY <2>1 DEF Newest
  <2> QED
    BY <1>4, <2>1, <2>3, <2>4
<1>13. UNCHANGED vars => UNCHANGED << ui, tasks, hist >>
  BY DEF vars
<1> QED
  BY <1>5, <1>6, <1>7, <1>8, <1>9, <1>10, <1>11, <1>12, <1>13, Steps

LEMMA NowFirst == Init => NowInv
<1> SUFFICES ASSUME Init PROVE NowInv
  OBVIOUS
<1>1. hist.mine = {}
  BY DEF Init
<1>2. ASSUME Page = "now" PROVE PressInv
  <2>1. ui.starting = FALSE /\ ui.active = 0 /\ tasks = {Task("now", 1, {"runs"}, None)}
    BY <1>2 DEF Init, Page, Opened, FirstTasks
  <2>2. PICK k : k = Task("now", 1, {"runs"}, None)
    OBVIOUS
  <2>3. k.who = "now" /\ tasks = {k}
    BY <2>1, <2>2, Tasks
  <2>4. MineActive = {}
    BY <1>1 DEF MineActive
  <2>5. \A j \in tasks : j.who # "press"
    BY <2>3
  <2>7. ui.starting \in BOOLEAN /\ ~ ui.starting
    BY <2>1, Zenon
  <2>6. ui.starting \in BOOLEAN /\ ~ ui.starting /\ ui.active \in Nat
    BY <2>1, <2>7
  <2> QED
    BY <2>4, <2>5, <2>6 DEF PressInv
<1> QED
  BY <1>1, <1>2 DEF NowInv

NoSecondNow == hist'.mine # hist.mine /\ "press" \notin hist.lost => MineActive = {}

LEMMA NowIsFirst ==
    ASSUME WorldKnown, ChainsKnown, NowInv, [Next]_vars
    PROVE  NoSecondNow
<1> SUFFICES ASSUME hist'.mine # hist.mine, "press" \notin hist.lost PROVE MineActive = {}
  BY DEF NoSecondNow
<1>1. Serve("press") /\ Page = "now"
  BY MineSteps
<1>2. PICK k \in tasks : k.who = "press" /\ k.asks # {}
  BY <1>1 DEF Serve
<1>3. PressInv
  BY <1>1 DEF NowInv
<1> QED
  BY <1>2, <1>3 DEF PressInv, Got, Answered

(* From one page, Run now never starts runs of the test while any that it started before are
   still queued or running - unless an answer to its own request was lost, or the queue
   delivered a run once more after it had ended (RunNow.tsx:16-21, 63-77). *)
THEOREM OneRunPerButton == Spec => NoSecondRun
<1>1. Init => WorldKnown /\ ChainsKnown /\ NowInv
  BY WorldFirst, ChainsFirst, NowFirst
<1>2. WorldKnown /\ ChainsKnown /\ NowInv /\ [Next]_vars => (WorldKnown /\ ChainsKnown /\ NowInv)'
  BY WorldNext, ChainsNext, NowNext
<1>3. WorldKnown /\ ChainsKnown /\ NowInv /\ [Next]_vars => NoSecondNow
  BY NowIsFirst
<1>4. NoSecondNow => [NoSecondNow]_vars
  OBVIOUS
<1>5. Spec => [][NoSecondNow]_vars
  BY <1>1, <1>2, <1>3, PTL DEF Spec
<1> QED
  BY <1>5, PTL DEF NoSecondRun, NoSecondNow

-----------------------------------------------------------------------------
(* The settings. *)

LEMMA Defaults ==
    /\ DOMAIN Empty = {"browsers", "retryOnFail", "loginFlowId"}
    /\ Empty.browsers = {} /\ Empty.retryOnFail = 0 /\ Empty.loginFlowId = ""
BY DEF Empty

(* What is left out of a form is what it would be if it were left out. *)
LEMMA Cleaned ==
    ASSUME NEW form, DOMAIN form \subseteq DOMAIN Empty
    PROVE  /\ DOMAIN Clean(form) \subseteq DOMAIN Empty
           /\ \A key \in DOMAIN Empty : In(Clean(form), key, Empty[key]) = In(form, key, Empty[key])
<1>1. /\ DOMAIN Clean(form) = DOMAIN form \ {key \in DOMAIN form : form[key] = Empty[key]}
      /\ \A key \in DOMAIN Clean(form) : Clean(form)[key] = form[key]
  BY DEF Clean, Drop
<1>2. \A key \in DOMAIN Empty : In(Clean(form), key, Empty[key]) = In(form, key, Empty[key])
  BY <1>1 DEF In
<1> QED
  BY <1>1, <1>2

(* The name of old for re-runs means one of them. *)
LEMMA Migrated ==
    ASSUME NEW s, DOMAIN s \subseteq DOMAIN Empty \cup {"retry"}, "retry" \in DOMAIN s => s.retry \in BOOLEAN
    PROVE  /\ DOMAIN Migrate(s) \subseteq DOMAIN Empty
           /\ \A key \in DOMAIN Empty \ {"retryOnFail"} : In(Migrate(s), key, Empty[key]) = In(s, key, Empty[key])
           /\ In(Migrate(s), "retryOnFail", 0) = Meaning(s).retryOnFail
<1>1. PICK flag \in BOOLEAN : flag = In(s, "retry", FALSE)
  BY DEF In
<1>2. PICK none : none = << >>
  OBVIOUS
<1>3. DOMAIN none = {}
  BY <1>2
<1>4. Meaning(s).retryOnFail = In(s, "retryOnFail", IF flag THEN 1 ELSE 0)
  BY <1>1, Zenon DEF Meaning
<1>5. PICK rest : rest = Drop(s, {"retry"})
  OBVIOUS
<1>6. DOMAIN rest = DOMAIN s \ {"retry"} /\ \A key \in DOMAIN rest : rest[key] = s[key]
  BY <1>5 DEF Drop
<1>7. PICK one : one = Entry("retryOnFail", 1)
  OBVIOUS
<1>8. DOMAIN one = {"retryOnFail"} /\ one.retryOnFail = 1
  BY <1>7 DEF Entry
<1>9. CASE flag /\ "retryOnFail" \notin DOMAIN s
  <2>1. In(s, "retry", FALSE) /\ "retryOnFail" \notin DOMAIN s
    BY <1>1, <1>9
  <2>2. Migrate(s) = one ++ rest
    BY <1>5, <1>7, <2>1, Zenon DEF Migrate
  <2>3. PICK m : m = one ++ rest
    OBVIOUS
  <2>4. /\ DOMAIN m = {"retryOnFail"} \cup (DOMAIN s \ {"retry"}) /\ m["retryOnFail"] = 1
        /\ \A key \in DOMAIN s \ {"retry", "retryOnFail"} : m[key] = s[key]
    BY <1>6, <1>8, <2>3 DEF ++
  <2>5. In(m, "retryOnFail", 0) = 1 /\ In(s, "retryOnFail", IF flag THEN 1 ELSE 0) = 1
    BY <1>9, <2>4 DEF In
  <2>6. \A key \in DOMAIN Empty \ {"retryOnFail"} : In(m, key, Empty[key]) = In(s, key, Empty[key])
    BY <2>4, Defaults DEF In
  <2> QED
    BY <1>4, <2>2, <2>3, <2>4, <2>5, <2>6, Defaults
<1>10. CASE ~ (flag /\ "retryOnFail" \notin DOMAIN s)
  <2>1. ~ (In(s, "retry", FALSE) /\ "retryOnFail" \notin DOMAIN s)
    BY <1>1, <1>10
  <2>2. Migrate(s) = none ++ rest
    BY <1>2, <1>5, <2>1, Zenon DEF Migrate
  <2>3. PICK m : m = none ++ rest
    OBVIOUS
  <2>4. DOMAIN m = DOMAIN s \ {"retry"} /\ \A key \in DOMAIN s \ {"retry"} : m[key] = s[key]
    BY <1>3, <1>6, <2>3 DEF ++
  <2>5. In(m, "retryOnFail", 0) = In(s, "retryOnFail", IF flag THEN 1 ELSE 0)
    BY <1>10, <2>4 DEF In
  <2>6. \A key \in DOMAIN Empty : In(m, key, Empty[key]) = In(s, key, Empty[key])
    BY <2>4, Defaults DEF In
  <2> QED
    BY <1>4, <2>2, <2>3, <2>4, <2>5, <2>6, Defaults
<1> QED
  BY <1>9, <1>10

LEMMA Means ==
    ASSUME NEW s
    PROVE  /\ DOMAIN Meaning(s) = DOMAIN Empty
           /\ Meaning(s).browsers = LET bs == (IF In(s, "browsers", {}) = {} THEN {"chromium"} ELSE In(s, "browsers", {})) \ Disabled
                                    IN  IF bs = {} THEN {"chromium"} ELSE bs
           /\ Meaning(s).loginFlowId = In(s, "loginFlowId", "")
           /\ "retry" \notin DOMAIN s => Meaning(s).retryOnFail = In(s, "retryOnFail", 0)
<1>1. DOMAIN Meaning(s) = DOMAIN Empty /\ Meaning(s).loginFlowId = In(s, "loginFlowId", "")
  BY DEF Meaning, Empty
<1>2. Meaning(s).browsers = LET bs == (IF In(s, "browsers", {}) = {} THEN {"chromium"} ELSE In(s, "browsers", {})) \ Disabled
                            IN  IF bs = {} THEN {"chromium"} ELSE bs
  <2>1. Meaning(s).browsers = Runnable(s)
    BY DEF Meaning
  <2>2. In(s, "browsers", {}) # {} => In(s, "browsers", {}) = s.browsers
    BY DEF In
  <2>3. CASE In(s, "browsers", {}) = {}
    BY <2>1, <2>3 DEF Runnable
  <2>4. CASE In(s, "browsers", {}) # {}
    BY <2>1, <2>2, <2>4 DEF Runnable
  <2> QED
    BY <2>3, <2>4
<1>3. ASSUME "retry" \notin DOMAIN s PROVE Meaning(s).retryOnFail = In(s, "retryOnFail", 0)
  <2>1. ~ In(s, "retry", FALSE)
    BY <1>3 DEF In
  <2> QED
    BY <2>1 DEF Meaning
<1> QED
  BY <1>1, <1>2, <1>3

(* A form that has what was stored is saved as what it meant. *)
LEMMA CleanKeeps ==
    ASSUME WorldKnown, SettingsInv, Page = "settings"
    PROVE  Keeps(Clean(ui.form))
<1>1. PICK s : s = setup.db.settings
  OBVIOUS
<1>2. DOMAIN s \subseteq DOMAIN Empty \cup {"retry"} /\ ("retry" \in DOMAIN s => s.retry \in BOOLEAN)
  BY <1>1, SetupsAssumption DEF WorldKnown
<1>3. PICK form, c : form = ui.form /\ c = Clean(form)
  OBVIOUS
<1>4. /\ DOMAIN form \subseteq DOMAIN Empty
      /\ \A key \in DOMAIN Empty \ hist.edited : In(form, key, Empty[key]) = In(Migrate(s), key, Empty[key])
  BY <1>1, <1>3 DEF SettingsInv
<1>5. /\ DOMAIN c \subseteq DOMAIN Empty
      /\ \A key \in DOMAIN Empty : In(c, key, Empty[key]) = In(form, key, Empty[key])
  BY <1>3, <1>4, Cleaned
<1>6. /\ \A key \in DOMAIN Empty \ {"retryOnFail"} : In(Migrate(s), key, Empty[key]) = In(s, key, Empty[key])
      /\ In(Migrate(s), "retryOnFail", 0) = Meaning(s).retryOnFail
  BY <1>2, Migrated
<1>7. "retry" \notin DOMAIN c
  BY <1>5, Defaults
<1>8. "browsers" \notin hist.edited => Meaning(c).browsers = Meaning(s).browsers
  <2> SUFFICES ASSUME "browsers" \notin hist.edited PROVE In(c, "browsers", {}) = In(s, "browsers", {})
    BY Means, Zenon
  <2> QED
    BY <1>4, <1>5, <1>6, Defaults
<1>9. "loginFlowId" \notin hist.edited => Meaning(c).loginFlowId = Meaning(s).loginFlowId
  <2> SUFFICES ASSUME "loginFlowId" \notin hist.edited PROVE In(c, "loginFlowId", "") = In(s, "loginFlowId", "")
    BY Means
  <2> QED
    BY <1>4, <1>5, <1>6, Defaults
<1>10. "retryOnFail" \notin hist.edited => Meaning(c).retryOnFail = Meaning(s).retryOnFail
  <2> SUFFICES ASSUME "retryOnFail" \notin hist.edited PROVE In(c, "retryOnFail", 0) = Meaning(s).retryOnFail
    BY <1>7, Means
  <2> QED
    BY <1>4, <1>5, <1>6, Defaults
<1> QED
  BY <1>1, <1>3, <1>8, <1>9, <1>10, Defaults DEF Keeps

(* A step that leaves the form, or edits it where it says so. *)
LEMMA SettingsFrom ==
    ASSUME SettingsInv, Page = "settings", setup' = setup, hist.edited \subseteq hist'.edited,
           DOMAIN ui'.form \subseteq DOMAIN Empty,
           \A key \in DOMAIN Empty \ hist'.edited : In(ui'.form, key, Empty[key]) = In(ui.form, key, Empty[key]),
           Keeps(db'.settings),
           \A j \in tasks' : j.who = "save" => Keeps(j.arg.settings)
    PROVE  SettingsInv'
<1>2. \A key \in DOMAIN Empty \ hist'.edited :
         In(ui'.form, key, Empty[key]) = In(Migrate(setup'.db.settings), key, Empty[key])
  BY DEF SettingsInv
<1>3. Keeps(db.settings)'
  BY DEF Keeps
<1>4. ASSUME NEW j \in tasks', j.who = "save" PROVE Keeps(j.arg.settings)'
  BY <1>4 DEF Keeps
<1> QED
  BY <1>2, <1>3, <1>4 DEF SettingsInv

LEMMA SettingsStay ==
    ASSUME SettingsInv, Page = "settings", setup' = setup, hist'.edited = hist.edited, ui'.form = ui.form,
           db'.settings = db.settings, \A j \in tasks' : j.who = "save" => j \in tasks
    PROVE  SettingsInv'
BY SettingsFrom DEF SettingsInv

LEMMA SettingsTasks ==
    ASSUME WorldKnown, ChainsKnown, Page = "settings", NEW k \in tasks
    PROVE  TaskKnown(k) /\ k.who = "save" /\ k.at # "timer" /\ k.asks \cup DOMAIN k.got = {"updateSettings"}
<1>1. TaskKnown(k)
  BY DEF ChainsKnown
<1>2. k.who = "save"
  BY <1>1 DEF TaskKnown, WhoOn
<1>3. k.at # "timer"
  BY <1>1, <1>2 DEF TaskKnown, Pollers
<1>4. Stages.save = {{"updateSettings"}}
  BY DEF Stages
<1> QED
  BY <1>1, <1>2, <1>3, <1>4 DEF TaskKnown

LEMMA UserSettings ==
    ASSUME WorldKnown, ChainsKnown, SettingsInv, Page = "settings", UserOnSettings
    PROVE  SettingsInv'
<1>1. DOMAIN ui = {"mounted", "gen", "form", "busy"} /\ UNCHANGED << setup, db >> /\ DOMAIN ui.form \subseteq DOMAIN Empty
  BY UserSteps DEF WorldKnown, PageStep, Signals, SettingsInv
<1>2. ASSUME NEW key \in DOMAIN Empty, NEW value, Set([form |-> Entry(key, value) ++ ui.form]),
             hist' = [hist EXCEPT !.edited = @ \cup {key}], tasks' = tasks
      PROVE  SettingsInv'
  <2>1. PICK form : form = Entry(key, value) ++ ui.form
    OBVIOUS
  <2>2. DOMAIN form = DOMAIN ui.form \cup {key} /\ \A k \in DOMAIN ui.form \ {key} : form[k] = ui.form[k]
    BY <2>1 DEF ++, Entry
  <2>3. ui'.form = form
    <3>1. PICK what : what = [form |-> form] /\ Set(what)
      BY <1>2, <2>1
    <3>2. DOMAIN what = {"form"} /\ what.form = form
      BY <3>1
    <3> QED
      BY <3>1, <3>2, SetParts
  <2>4. hist'.edited = hist.edited \cup {key}
    BY <1>2 DEF WorldKnown
  <2>5. \A k \in DOMAIN Empty \ {key} : In(form, k, Empty[k]) = In(ui.form, k, Empty[k])
    BY <2>2 DEF In
  <2>6. Keeps(db'.settings) /\ \A j \in tasks' : j.who = "save" => Keeps(j.arg.settings)
    BY <1>1, <1>2 DEF SettingsInv
  <2> QED
    BY <1>1, <2>2, <2>3, <2>4, <2>5, <2>6, SettingsFrom
<1>3. ASSUME NEW b, ToggleBrowser(b) PROVE SettingsInv'
  <2>1. PICK value : Set([form |-> Entry("browsers", value) ++ ui.form])
    BY <1>3 DEF ToggleBrowser
  <2> QED
    BY <1>2, <1>3, <2>1, Defaults DEF ToggleBrowser
<1>4. ASSUME NEW key \in {"retryOnFail", "loginFlowId"}, NEW value, EditSetting(key, value) PROVE SettingsInv'
  BY <1>2, <1>4, Defaults DEF EditSetting
<1>5. CASE SaveSettings
  <2>1. PICK what : what = [busy |-> TRUE] /\ Set(what)
    BY <1>5 DEF SaveSettings
  <2>2. ui'.form = ui.form
    <3>1. DOMAIN what = {"busy"}
      BY <2>1
    <3> QED
      BY <1>1, <2>1, <3>1, SetParts
  <2>3. PICK k : k = Task("save", 0, {"updateSettings"}, [settings |-> Clean(ui.form)])
    OBVIOUS
  <2>4. k.arg.settings = Clean(ui.form) /\ tasks' = tasks \cup {k} /\ hist' = hist
    BY <1>5, <2>3, Tasks DEF SaveSettings, Starts
  <2>5. Keeps(k.arg.settings)
    BY <2>4, CleanKeeps
  <2>6. Keeps(db'.settings) /\ \A j \in tasks' : j.who = "save" => Keeps(j.arg.settings)
    BY <1>1, <2>4, <2>5 DEF SettingsInv
  <2> QED
    BY <1>1, <2>2, <2>4, <2>6, SettingsFrom
<1> QED
  BY <1>3, <1>4, <1>5 DEF UserOnSettings

LEMMA ServeSettings ==
    ASSUME WorldKnown, ChainsKnown, SettingsInv, Page = "settings", (\E who : Serve(who)) \/ (\E k \in tasks : Break(k))
    PROVE  SettingsInv'
<1>1. UNCHANGED << setup, ui >> /\ hist'.edited = hist.edited /\ Asks
  BY ServeSteps, BreakSteps DEF Serve, Break, WorldKnown
<1>2. Keeps(db'.settings)
  <2>1. CASE db' = db
    BY <2>1 DEF SettingsInv
  <2>2. ASSUME NEW k \in tasks, NEW ask \in k.asks, db' \in Partly(ask, k.arg, db), db' # db PROVE Keeps(db'.settings)
    <3>1. k.who = "save" /\ ask = "updateSettings"
      BY SettingsTasks
    <3>2. db' = [db EXCEPT !.settings = k.arg.settings]
      BY <2>2, <3>1 DEF Effect, Partly
    <3>3. db'.settings = k.arg.settings
      BY <3>2 DEF WorldKnown, DbKnown
    <3> QED
      BY <3>1, <3>3 DEF SettingsInv
  <2> QED
    BY <1>1, <2>1, <2>2 DEF Asks
<1>3. PICK k \in tasks : \E new : Then(k, {new}) /\ new.who = k.who /\ new.arg = k.arg
  BY ServedTasks
<1>4. PICK new : Then(k, {new}) /\ new.who = k.who /\ new.arg = k.arg
  BY <1>3
<1>5. \A j \in tasks' : j.who = "save" => Keeps(j.arg.settings)
  BY <1>4 DEF Then, SettingsInv
<1> QED
  BY <1>1, <1>2, <1>5, SettingsFrom DEF SettingsInv

LEMMA SettingsNext ==
    ASSUME WorldKnown, ChainsKnown, SettingsInv, [Next]_vars
    PROVE  SettingsInv'
<1>1. setup' = setup
  BY WorldNext
<1> SUFFICES ASSUME Page = "settings" PROVE SettingsInv'
  BY <1>1 DEF SettingsInv, Page
<1>2. DOMAIN ui = {"mounted", "gen", "form", "busy"} /\ \A k \in tasks : k.who = "save"
  BY SettingsTasks DEF WorldKnown, Signals
<1>3. CASE UNCHANGED vars
  BY <1>1, <1>3, SettingsStay DEF vars
<1>4. CASE UserStep
  BY <1>4, UserSettings DEF UserStep
<1>5. CASE Leave
  <2>1. ui'.form = ui.form
    <3>1. PICK what : what = [mounted |-> FALSE] /\ Set(what)
      BY <1>5 DEF Leave
    <3>2. DOMAIN what = {"mounted"}
      BY <3>1
    <3> QED
      BY <1>2, <3>1, <3>2, SetParts
  <2>2. UNCHANGED << setup, db, hist >> /\ tasks' \subseteq tasks
    BY <1>5 DEF Leave
  <2> QED
    BY <2>1, <2>2, SettingsStay
<1>6. ASSUME NEW who, Tick(who) PROVE SettingsInv'
  <2>1. who = "save" /\ who \in Pollers
    BY <1>2, <1>6, TickTasks
  <2> QED
    BY <2>1 DEF Pollers
<1>7. ASSUME NEW who, NEW k \in tasks, Continue(who, k) PROVE SettingsInv'
  <2>1. who = "save"
    BY <1>2, <1>7 DEF Continue
  <2>2. Set([busy |-> FALSE]) /\ Then(k, {}) /\ UNCHANGED << setup, db, hist >>
    BY <1>7, <2>1 DEF Continue, ResumeSave
  <2>3. ui'.form = ui.form
    <3>1. PICK what : what = [busy |-> FALSE] /\ Set(what)
      BY <2>2
    <3>2. DOMAIN what = {"busy"}
      BY <3>1
    <3> QED
      BY <1>2, <3>1, <3>2, SetParts
  <2>4. \A j \in tasks' : j \in tasks
    BY <2>2 DEF Then
  <2> QED
    BY <2>2, <2>3, <2>4, SettingsStay
<1>8. CASE OthersStep
  <2>1. UNCHANGED << setup, ui, tasks >> /\ hist' = [hist EXCEPT !.mixed = hist'.mixed, !.wrote = hist'.wrote, !.again = hist'.again]
    BY <1>8, OthersSteps
  <2>2. hist'.edited = hist.edited
    <3>1. PICK b, n, g : hist' = [hist EXCEPT !.mixed = b, !.wrote = n, !.again = g]
      BY <2>1
    <3> QED
      BY <3>1 DEF WorldKnown
  <2>3. db'.settings = db.settings
    <3>1. Works(db, db') \/ \E ask \in {"create", "removeTest", "removeRun", "move", "setCollapsed"} : \E x : db' = Effect(ask, x, db)
      BY <1>8, OthersSteps
    <3> QED
      BY <3>1, WorksKnown, EffectKnown DEF WorldKnown
  <2> QED
    BY <2>1, <2>2, <2>3, SettingsStay
<1> QED
  BY <1>3, <1>4, <1>5, <1>6, <1>7, <1>8, Steps, ServeSettings

LEMMA SettingsFirst == Init => SettingsInv
<1> SUFFICES ASSUME Init, Page = "settings" PROVE SettingsInv
  BY DEF SettingsInv
<1>1. PICK s : s = setup.db.settings
  OBVIOUS
<1>2. DOMAIN s \subseteq DOMAIN Empty \cup {"retry"} /\ ("retry" \in DOMAIN s => s.retry \in BOOLEAN)
  BY <1>1, SetupsAssumption DEF Init
<1>3. ui.form = Migrate(s) /\ tasks = {} /\ db = setup.db
  BY <1>1 DEF Init, Page, Opened, FirstTasks
<1>4. DOMAIN ui.form \subseteq DOMAIN Empty
  BY <1>2, <1>3, Migrated
<1>5. Keeps(db.settings)
  BY <1>3 DEF Keeps
<1> QED
  BY <1>1, <1>3, <1>4, <1>5 DEF SettingsInv

-----------------------------------------------------------------------------
(* The page of a run. *)

(* What the page of a run has yet to show was there before, or the worker did it now. *)
LEMMA NewerKept ==
    ASSUME WorldKnown, NEW r \in DOMAIN db'.runs, NEW rows \in Nat, Newer(db'.runs[r], rows), hist.reloads <= hist.wrote,
           \/ RunsKept(db, db') /\ hist'.wrote = hist.wrote
           \/ Works(db, db') /\ hist'.wrote = hist.wrote + 1,
           hist'.reloads = hist.reloads
    PROVE  Owed' \/ (r \in DOMAIN db.runs /\ Newer(db.runs[r], rows))
<1>1. CASE Works(db, db') /\ hist'.wrote = hist.wrote + 1
  BY <1>1 DEF WorldKnown, Owed
<1>2. CASE RunsKept(db, db') /\ hist'.wrote = hist.wrote
  <2>1. CASE r \in DOMAIN db.runs /\ db'.runs[r] = db.runs[r]
    BY <2>1
  <2>2. CASE db'.runs[r].status = "queued" /\ db'.runs[r].rows = 0
    BY <2>2 DEF Newer, Active
  <2> QED
    BY <1>2, <2>1, <2>2 DEF RunsKept
<1> QED
  BY <1>1, <1>2

(* What a step has to do with the page of a run: a run is kept, or the worker did something. *)
Counted ==
    /\ \/ RunsKept(db, db') /\ hist'.wrote = hist.wrote
       \/ Works(db, db') /\ hist'.wrote = hist.wrote + 1
    /\ hist'.reloads = hist.reloads

LEMMA RunTaskKept ==
    ASSUME WorldKnown, ReloadInv, Page = "run", Counted, NEW k, RunTask(k), "run" \in DOMAIN k.got => k.got.run.rows \in Nat,
           ui'.run = ui.run, ui'.rows = ui.rows, ui'.status = ui.status, ui'.busy = ui.busy
    PROVE  RunTask(k)'
<1>1. Owed => Owed'
  BY DEF Owed, Counted, WorldKnown
<1>2. hist.reloads <= hist.wrote /\ ui.rows \in Nat
  BY DEF ReloadInv
<1>3. ASSUME k.who = "tick", ui.run \in DOMAIN db'.runs, Newer(db'.runs[ui.run], ui.rows) PROVE Owed'
  <2>1. Owed' \/ (ui.run \in DOMAIN db.runs /\ Newer(db.runs[ui.run], ui.rows))
    BY <1>2, <1>3, NewerKept DEF Counted
  <2> QED
    BY <1>1, <1>3, <2>1 DEF RunTask
<1>4. ASSUME k.who = "load", Got(k, "run"), k.arg.run \in DOMAIN db'.runs, Newer(db'.runs[k.arg.run], k.got.run.rows)
      PROVE  Owed' \/ ~ Active(k.got.run.status)
  <2>1. Owed' \/ (k.arg.run \in DOMAIN db.runs /\ Newer(db.runs[k.arg.run], k.got.run.rows))
    BY <1>2, <1>4, NewerKept DEF Counted, Got
  <2> QED
    BY <1>1, <1>4, <2>1 DEF RunTask
<1>5. k.who \in {"retry", "removeShown"} => ui'.busy
  BY DEF RunTask
<1> QED
  BY <1>1, <1>3, <1>4, <1>5 DEF RunTask

LEMMA ReloadKept ==
    ASSUME WorldKnown, ReloadInv, Page = "run", setup' = setup, Counted,
           ui'.run = ui.run, ui'.rows = ui.rows, ui'.status = ui.status, ui'.busy = ui.busy, tasks' \subseteq tasks
    PROVE  ReloadInv'
<1>1. \A k \in tasks' : RunTask(k)'
  BY RunTaskKept DEF ReloadInv, RunTask
<1>2. ui'.busy \in BOOLEAN /\ ui'.rows \in Nat
  BY DEF ReloadInv
<1>3. hist'.reloads <= hist'.wrote
  BY DEF ReloadInv, Counted, WorldKnown
<1> QED
  BY <1>1, <1>2, <1>3 DEF ReloadInv

LEMMA RunTasks ==
    ASSUME WorldKnown, ChainsKnown, Page = "run", NEW k \in tasks
    PROVE  /\ TaskKnown(k) /\ k.who \in {"tick", "load", "retry", "removeShown"}
           /\ k.who # "tick" => k.at # "timer"
           /\ k.who \in {"tick", "load"} /\ k.at # "timer" => k.asks \cup DOMAIN k.got = {"run"}
           /\ k.who = "retry" => k.asks \cup DOMAIN k.got = {"retry"}
           /\ k.who = "removeShown" => k.asks \cup DOMAIN k.got = {"removeRun"}
<1>1. TaskKnown(k)
  BY DEF ChainsKnown
<1>2. k.who \in {"tick", "load", "retry", "removeShown"}
  BY <1>1 DEF TaskKnown, WhoOn
<1>3. k.who # "tick" => k.at # "timer"
  BY <1>1, <1>2 DEF TaskKnown, Pollers
<1>4. /\ Stages.tick = {{"run"}} /\ Stages.load = {{"run"}} /\ Stages.retry = {{"retry"}}
      /\ Stages.removeShown = {{"removeRun"}}
  BY DEF Stages
<1> QED
  BY <1>1, <1>2, <1>3, <1>4 DEF TaskKnown

LEMMA CountedSteps ==
    ASSUME WorldKnown, ChainsKnown
    PROVE  /\ UNCHANGED << db, hist >> => Counted
           /\ (\E who : Serve(who)) => Counted
           /\ (\E k \in tasks : Break(k)) => Counted
           /\ OthersStep => Counted
<1>1. UNCHANGED << db, hist >> => Counted
  BY SameRuns DEF Counted, WorldKnown, DbKnown
<1>2. ASSUME (\E who : Serve(who)) \/ (\E k \in tasks : Break(k)) PROVE Counted
  <2>1. Asks
    BY <1>2, ServeSteps, BreakSteps
  <2>2. RunsKept(db, db')
    BY <2>1, AsksKnown DEF EffectOn, WorldKnown
  <2>3. hist'.reloads = hist.reloads /\ hist'.wrote = hist.wrote
    BY <1>2 DEF Serve, Break, WorldKnown
  <2> QED
    BY <2>2, <2>3 DEF Counted
<1>3. ASSUME OthersStep PROVE Counted
  <2>5. hist' = [hist EXCEPT !.mixed = hist'.mixed, !.wrote = hist'.wrote, !.again = hist'.again]
    BY <1>3, OthersSteps
  <2>1. PICK b, n, g : hist' = [hist EXCEPT !.mixed = b, !.wrote = n, !.again = g]
    BY <2>5
  <2>2. hist'.reloads = hist.reloads
    BY <2>1 DEF WorldKnown
  <2>3. CASE Works(db, db') /\ hist'.wrote = hist.wrote + 1
    BY <2>2, <2>3 DEF Counted
  <2>4. CASE (\E ask : \E x : db' = Effect(ask, x, db)) /\ hist'.wrote = hist.wrote
    <3>1. RunsKept(db, db')
      BY <2>4, EffectKnown DEF EffectOn, WorldKnown
    <3> QED
      BY <2>2, <2>4, <3>1 DEF Counted
  <2> QED
    BY <1>3, <2>3, <2>4, OthersSteps
<1> QED
  BY <1>1, <1>2, <1>3

(* A step after which the page has one task, or none. *)
LEMMA ReloadOne ==
    ASSUME ReloadInv, Page = "run", setup' = setup, hist'.reloads <= hist'.wrote, ui'.rows \in Nat, ui'.busy \in BOOLEAN,
           \A j, k \in tasks' : j = k, \A k \in tasks' : RunTask(k)'
    PROVE  ReloadInv'
BY DEF ReloadInv

LEMMA ServeReload ==
    ASSUME WorldKnown, ChainsKnown, ReloadInv, Page = "run", (\E who : Serve(who)) \/ (\E k \in tasks : Break(k))
    PROVE  ReloadInv'
<1>1. UNCHANGED << setup, ui >> /\ Counted
  BY ServeSteps, BreakSteps, CountedSteps
<1>2. hist'.reloads <= hist'.wrote /\ ui'.rows \in Nat /\ ui'.busy \in BOOLEAN /\ ui.rows \in Nat
  BY <1>1 DEF ReloadInv, Counted, WorldKnown
<1>3. ASSUME NEW k \in tasks, NEW new, Then(k, {new}), RunTask(new)' PROVE ReloadInv'
  <2>1. tasks' = {new}
    BY <1>3 DEF Then, ReloadInv
  <2> QED
    BY <1>1, <1>2, <1>3, <2>1, ReloadOne
<1>4. ASSUME NEW k \in tasks, k.at = "sent", Then(k, {[k EXCEPT !.at = "error"]}) PROVE ReloadInv'
  <2>1. PICK new : new = [k EXCEPT !.at = "error"]
    OBVIOUS
  <2>2. new.who = k.who /\ new.at = "error" /\ new.arg = k.arg /\ new.got = k.got
    BY <1>4, <2>1, Erred
  <2>3. RunTask(k)
    BY DEF ReloadInv
  <2>4. RunTask(new)
    BY <1>4, <2>2, <2>3 DEF RunTask, Got, Answered
  <2>5. RunTask(new)'
    BY <1>1, <2>4, RunTaskKept DEF RunTask
  <2> QED
    BY <1>3, <1>4, <2>1, <2>5
<1>5. ASSUME NEW who, NEW k \in tasks, k.at = "sent", NEW ask \in k.asks,
             Then(k, {[k EXCEPT !.asks = @ \ {ask}, !.got = Entry(ask, Answer(ask, k.arg, db)) ++ @]})
      PROVE  ReloadInv'
  <2>1. PICK new : new = [k EXCEPT !.asks = @ \ {ask}, !.got = Entry(ask, Answer(ask, k.arg, db)) ++ @]
    OBVIOUS
  <2>2. /\ new.who = k.who /\ new.at = "sent" /\ new.arg = k.arg /\ new.asks = k.asks \ {ask}
        /\ DOMAIN new.got = DOMAIN k.got \cup {ask} /\ new.got[ask] = Answer(ask, k.arg, db)
    BY <1>5, <2>1, Served
  <2>3. RunTask(k)
    BY DEF ReloadInv
  <2>4. CASE k.who \in {"retry", "removeShown"}
    <3>1. "run" \notin DOMAIN new.got
      BY <2>2, <2>4, RunTasks
    <3>2. RunTask(new)
      BY <2>2, <2>3, <2>4, <3>1 DEF RunTask, Got
    <3>3. RunTask(new)'
      BY <1>1, <3>1, <3>2, RunTaskKept
    <3> QED
      BY <1>3, <1>5, <2>1, <3>3
  <2>5. CASE k.who \in {"tick", "load"}
    <3>1. ask = "run"
      BY <1>5, <2>5, RunTasks
    <3>2. PICK seen : seen = RunState(k.arg.run, db)
      OBVIOUS
    <3>3. new.got.run = seen
      BY <2>2, <3>1, <3>2 DEF Answer
    <3>4. /\ k.arg.run \in DOMAIN db.runs => seen.status = db.runs[k.arg.run].status /\ seen.rows = db.runs[k.arg.run].rows
          /\ k.arg.run \notin DOMAIN db.runs => seen.status = "gone"
          /\ seen.rows \in Nat
      BY <3>2 DEF RunState, WorldKnown, DbKnown
    <3>5. k.who = "tick" => k.arg.run = ui.run
      BY <1>5, <2>3 DEF RunTask
    <3>6. ASSUME k.who = "tick", seen.status # "gone", Newer(seen, ui.rows) PROVE Owed
      BY <2>3, <3>4, <3>5, <3>6 DEF RunTask, Newer
    <3>7. ASSUME k.arg.run \in DOMAIN db.runs, Newer(db.runs[k.arg.run], seen.rows) PROVE ~ Active(seen.status)
      BY <3>4, <3>7 DEF Newer
    <3>8. RunTask(new)
      BY <1>5, <2>2, <2>3, <2>5, <3>3, <3>4, <3>6, <3>7 DEF RunTask
    <3>9. RunTask(new)'
      BY <1>1, <3>3, <3>4, <3>8, RunTaskKept
    <3> QED
      BY <1>3, <1>5, <2>1, <3>9
  <2> QED
    BY <2>4, <2>5, RunTasks
<1>6. ASSUME NEW k \in tasks, Break(k) PROVE ReloadInv'
  BY <1>4, <1>6 DEF Break
<1>7. ASSUME NEW who, Serve(who) PROVE ReloadInv'
  BY <1>4, <1>5, <1>7 DEF Serve
<1> QED
  BY <1>6, <1>7

LEMMA UserReload ==
    ASSUME WorldKnown, ChainsKnown, ReloadInv, Page = "run", UserOnRun
    PROVE  ReloadInv'
<1>1. /\ DOMAIN ui = {"mounted", "gen", "run", "status", "rows", "triage", "busy"}
      /\ setup' = setup /\ db' = db /\ hist' = hist
  BY UserSteps DEF WorldKnown, PageStep, Signals, UserOnRun, Retry, RemoveShownRun
<1>2. PICK who, asks, x :
         /\ who \in {"retry", "removeShown"} /\ asks \in {{"retry"}, {"removeRun"}}
         /\ ~ Active(ui.status) /\ ~ ui.busy /\ ~ Under("load") /\ Set([busy |-> TRUE]) /\ Starts(who, asks, x)
  <2>1. CASE Retry
    BY <2>1 DEF Retry, Active
  <2>2. CASE RemoveShownRun
    BY <2>2 DEF RemoveShownRun
  <2> QED
    BY <2>1, <2>2 DEF UserOnRun
<1>3. ui'.busy = TRUE /\ ui'.rows = ui.rows
  <2>1. PICK what : what = [busy |-> TRUE] /\ Set(what)
    BY <1>2
  <2>2. DOMAIN what = {"busy"} /\ what.busy = TRUE
    BY <2>1
  <2> QED
    BY <1>1, <2>1, <2>2, SetParts
<1>4. tasks = {}
  <2> SUFFICES ASSUME NEW j \in tasks PROVE FALSE
    OBVIOUS
  <2>1. RunTask(j) /\ j.who \in {"tick", "load", "retry", "removeShown"}
    BY RunTasks DEF ReloadInv
  <2> QED
    BY <1>2, <2>1 DEF RunTask, Under
<1>5. PICK k : k = Task(who, 0, asks, x)
  OBVIOUS
<1>6. k.who = who /\ DOMAIN k.got = {} /\ tasks' = {k}
  BY <1>2, <1>4, <1>5, Tasks DEF Starts
<1>7. ui'.busy
  BY <1>3
<1>8. RunTask(k)'
  BY <1>2, <1>6, <1>7 DEF RunTask, Got
<1>9. hist'.reloads <= hist'.wrote /\ ui'.rows \in Nat /\ ui'.busy \in BOOLEAN
  BY <1>1, <1>3 DEF ReloadInv
<1> QED
  BY <1>1, <1>6, <1>8, <1>9, ReloadOne

LEMMA TickReload ==
    ASSUME WorldKnown, ChainsKnown, ReloadInv, Page = "run", NEW who, Tick(who)
    PROVE  ReloadInv'
<1>1. PICK k \in tasks : k.who = who /\ k.at = "timer" /\ Then(k, {Ask(who, k.gen)})
  BY TickTasks
<1>2. UNCHANGED << setup, db, ui, hist >> /\ who = "tick"
  BY <1>1, TickTasks, RunTasks
<1>3. PICK new : new = Ask("tick", k.gen)
  OBVIOUS
<1>4. new.who = "tick" /\ new.arg = [run |-> ui.run] /\ DOMAIN new.got = {} /\ tasks' = {new}
  BY <1>1, <1>2, <1>3, Tasks DEF Ask, Then, ReloadInv
<1>5. RunTask(k)
  BY DEF ReloadInv
<1>6. RunTask(new)
  BY <1>1, <1>2, <1>4, <1>5 DEF RunTask, Got
<1>7. Counted
  BY <1>2, CountedSteps
<1>8. RunTask(new)'
  BY <1>2, <1>4, <1>6, <1>7, RunTaskKept
<1>9. hist'.reloads <= hist'.wrote /\ ui'.rows \in Nat /\ ui'.busy \in BOOLEAN
  BY <1>2 DEF ReloadInv
<1> QED
  BY <1>2, <1>4, <1>8, <1>9, ReloadOne

(* A timer of the page: what the page has yet to show is accounted for. *)
LEMMA RestReload ==
    ASSUME ReloadInv, Page = "run", NEW k \in tasks, k.who = "tick", NEW j \in Rest(k),
           Active(ui'.status), ui'.run = ui.run, ui'.rows = ui.rows, UNCHANGED << db, hist >>
    PROVE  RunTask(j)'
<1>1. j = Timer("tick", k.gen)
  BY DEF Rest
<1>2. j.who = "tick" /\ j.at = "timer" /\ DOMAIN j.got = {}
  BY <1>1, Timers
<1>3. RunTask(k)
  BY DEF ReloadInv
<1>4. ui.run \in DOMAIN db.runs /\ Newer(db.runs[ui.run], ui.rows) => Owed
  BY <1>3 DEF RunTask
<1>5. (ui.run \in DOMAIN db.runs /\ Newer(db.runs[ui.run], ui.rows) => Owed)'
  BY <1>4 DEF Owed
<1> QED
  BY <1>2, <1>5 DEF RunTask, Got

(* The page of a run loads: nothing of it is shown yet. *)
LEMMA LoadReload ==
    ASSUME ReloadInv, Page = "run", setup' = setup, UNCHANGED ui, hist'.reloads <= hist'.wrote,
           NEW k \in tasks, NEW r, Load(k, r)
    PROVE  ReloadInv'
<1>1. PICK new : new = Task("load", 0, {"run"}, [run |-> r])
  OBVIOUS
<1>2. new.who = "load" /\ new.asks = {"run"} /\ DOMAIN new.got = {} /\ tasks' = {new}
  BY <1>1, Tasks DEF Load, Then, ReloadInv
<1>3. RunTask(new)'
  BY <1>2 DEF RunTask, Got
<1>4. ui'.rows \in Nat /\ ui'.busy \in BOOLEAN
  BY DEF ReloadInv
<1> QED
  BY <1>2, <1>3, <1>4, ReloadOne

LEMMA ResumeTickReload ==
    ASSUME WorldKnown, ChainsKnown, ReloadInv, Page = "run", NEW k \in tasks, k.who = "tick", Settled(k), ResumeTick(k),
           UNCHANGED << setup, db, count >>
    PROVE  ReloadInv'
<1>1. DOMAIN ui = {"mounted", "gen", "run", "status", "rows", "triage", "busy"} /\ hist.reloads \in Nat /\ hist.wrote \in Nat
  BY DEF WorldKnown, Signals
<1>2. /\ RunTask(k) /\ hist.reloads <= hist.wrote /\ ui.rows \in Nat /\ ui.busy \in BOOLEAN
      /\ \A j \in tasks : j = k
  BY DEF ReloadInv
<1>3. \A i, j \in Rest(k) : i = j
  BY DEF Rest
<1>4. ASSUME Then(k, Rest(k)), UNCHANGED hist, Active(ui'.status), ui'.run = ui.run, ui'.rows = ui.rows, ui'.busy = ui.busy
      PROVE  ReloadInv'
  <2>1. tasks' = Rest(k)
    BY <1>2, <1>4 DEF Then
  <2>2. \A j \in tasks' : RunTask(j)'
    BY <1>4, <2>1, RestReload
  <2> QED
    BY <1>2, <1>3, <1>4, <2>1, <2>2, ReloadOne
<1>5. CASE Seen(k).status = "gone" /\ Then(k, Rest(k)) /\ UNCHANGED << ui, hist >>
  BY <1>2, <1>4, <1>5 DEF RunTask
<1>6. CASE /\ Seen(k).status # "gone" /\ (~ Active(Seen(k).status) \/ Seen(k).rows > ui.rows)
           /\ Reload(k) /\ UNCHANGED ui
  <2>1. ~ Failed(k)
    BY <1>6 DEF Seen
  <2>2. Answered(k) /\ k.at # "timer"
    BY <2>1 DEF Settled, Answered
  <2>3. Got(k, "run") /\ Seen(k) = k.got.run
    BY <2>1, <2>2, RunTasks DEF Got, Answered, Seen
  <2>4. Owed
    BY <1>2, <1>6, <2>3 DEF RunTask, Newer
  <2>5. hist'.reloads = hist.reloads + 1 /\ hist'.wrote = hist.wrote
    BY <1>6 DEF Reload, WorldKnown
  <2>6. hist'.reloads <= hist'.wrote
    BY <1>1, <2>4, <2>5 DEF Owed
  <2> QED
    BY <1>6, <2>6, LoadReload DEF Reload
<1>7. CASE /\ Active(Seen(k).status) /\ Seen(k).rows <= ui.rows
           /\ Set([status |-> Seen(k).status]) /\ Then(k, Rest(k)) /\ UNCHANGED hist
  <2>1. PICK status : status = Seen(k).status
    OBVIOUS
  <2>2. PICK what : what = [status |-> status] /\ Set(what)
    BY <1>7, <2>1
  <2>3. DOMAIN what = {"status"} /\ what.status = status
    BY <2>2
  <2>4. ui'.status = status /\ ui'.run = ui.run /\ ui'.rows = ui.rows /\ ui'.busy = ui.busy
    BY <1>1, <2>2, <2>3, SetParts
  <2> QED
    BY <1>4, <1>7, <2>1, <2>4
<1> QED
  BY <1>5, <1>6, <1>7, Zenon DEF ResumeTick

LEMMA ResumeLoadReload ==
    ASSUME WorldKnown, ChainsKnown, ReloadInv, Page = "run", NEW k \in tasks, k.who = "load", Settled(k), ResumeLoad(k),
           UNCHANGED << setup, db, count, hist >>
    PROVE  ReloadInv'
<1>1. DOMAIN ui = {"mounted", "gen", "run", "status", "rows", "triage", "busy"}
  BY DEF WorldKnown, Signals
<1>2. RunTask(k) /\ hist'.reloads <= hist'.wrote /\ ui.rows \in Nat /\ ui.busy \in BOOLEAN
  BY DEF ReloadInv
<1>3. CASE Set([mounted |-> FALSE]) /\ tasks' = {}
  <2>1. PICK what : what = [mounted |-> FALSE] /\ Set(what)
    BY <1>3
  <2>2. DOMAIN what = {"mounted"}
    BY <2>1
  <2>3. ui'.rows = ui.rows /\ ui'.busy = ui.busy
    BY <1>1, <2>1, <2>2, SetParts
  <2> QED
    BY <1>2, <1>3, <2>3, ReloadOne
<1>4. CASE /\ Seen(k).status # "gone"
           /\ Set([run |-> k.arg.run, busy |-> FALSE,
                   status |-> Seen(k).status, rows |-> Seen(k).rows, triage |-> Seen(k).triage])
           /\ tasks' = IF Active(Seen(k).status) THEN {Timer("tick", 0)} ELSE {}
  <2>1. ~ Failed(k)
    BY <1>4 DEF Seen
  <2>2. Answered(k) /\ k.at # "timer"
    BY <2>1 DEF Settled, Answered
  <2>3. Got(k, "run") /\ Seen(k) = k.got.run
    BY <2>1, <2>2, RunTasks DEF Got, Answered, Seen
  <2>4. PICK r, seen : r = k.arg.run /\ seen = k.got.run
    OBVIOUS
  <2>5. /\ seen.rows \in Nat
        /\ r \in DOMAIN db.runs /\ Newer(db.runs[r], seen.rows) => Owed \/ ~ Active(seen.status)
    BY <1>2, <2>3, <2>4 DEF RunTask, Got
  <2>6. PICK what : /\ what = [run |-> r, busy |-> FALSE, status |-> seen.status, rows |-> seen.rows, triage |-> seen.triage]
                    /\ Set(what)
    BY <1>4, <2>3, <2>4
  <2>7. /\ DOMAIN what = {"run", "status", "rows", "triage", "busy"} /\ what.run = r /\ what.status = seen.status
        /\ what.rows = seen.rows /\ what.busy = FALSE
    BY <2>6
  <2>8. ui'.run = r /\ ui'.status = seen.status /\ ui'.rows = seen.rows /\ ui'.busy = FALSE
    BY <2>6, <2>7, SetParts
  <2>9. PICK new : new = Timer("tick", 0)
    OBVIOUS
  <2>10. new.who = "tick" /\ new.at = "timer" /\ DOMAIN new.got = {}
    BY <2>9, Timers
  <2>11. tasks' = IF Active(seen.status) THEN {new} ELSE {}
    BY <1>4, <2>3, <2>4, <2>9
  <2>12. ASSUME Active(seen.status) PROVE RunTask(new)'
    <3>1. r \in DOMAIN db'.runs /\ Newer(db'.runs[r], seen.rows) => Owed'
      BY <2>5, <2>12 DEF Owed
    <3> QED
      BY <2>8, <2>10, <2>12, <3>1 DEF RunTask, Got
  <2>13. ui'.rows \in Nat /\ ui'.busy \in BOOLEAN
    BY <2>5, <2>8
  <2> QED
    BY <1>2, <2>11, <2>12, <2>13, ReloadOne
<1> QED
  BY <1>3, <1>4, Zenon DEF ResumeLoad

LEMMA ResumeReload ==
    ASSUME WorldKnown, ChainsKnown, ReloadInv, Page = "run", NEW who, NEW k \in tasks, Continue(who, k)
    PROVE  ReloadInv'
<1>1. /\ DOMAIN ui = {"mounted", "gen", "run", "status", "rows", "triage", "busy"}
      /\ UNCHANGED << setup, db, count >> /\ k.who = who /\ Settled(k)
  BY DEF WorldKnown, Signals, Continue
<1>2. hist.reloads <= hist.wrote /\ ui.rows \in Nat /\ ui.busy \in BOOLEAN /\ \A j \in tasks : j = k
  BY DEF ReloadInv
<1>3. CASE who = "tick"
  BY <1>1, <1>3, ResumeTickReload DEF Continue
<1>4. CASE who = "load"
  BY <1>1, <1>4, ResumeLoadReload DEF Continue
<1>5. ASSUME Then(k, {}) \/ tasks' = {}, UNCHANGED hist,
             (\E what : what = [busy |-> FALSE] /\ Set(what)) \/ (\E what : what = [mounted |-> FALSE] /\ Set(what))
      PROVE  ReloadInv'
  <2>1. tasks' = {}
    BY <1>2, <1>5 DEF Then
  <2>2. ui'.rows = ui.rows /\ ui'.busy \in BOOLEAN
    <3>1. PICK what : (what = [busy |-> FALSE] \/ what = [mounted |-> FALSE]) /\ Set(what)
      BY <1>5
    <3>2. CASE what = [busy |-> FALSE]
      <4>1. DOMAIN what = {"busy"} /\ what.busy = FALSE
        BY <3>2
      <4> QED
        BY <1>1, <3>1, <4>1, SetParts
    <3>3. CASE what = [mounted |-> FALSE]
      <4>1. DOMAIN what = {"mounted"}
        BY <3>3
      <4>2. ui'.rows = ui.rows /\ ui'.busy = ui.busy
        BY <1>1, <3>1, <4>1, SetParts
      <4> QED
        BY <1>2, <4>2
    <3> QED
      BY <3>1, <3>2, <3>3
  <2> QED
    BY <1>1, <1>2, <1>5, <2>1, <2>2, ReloadOne
<1>6. CASE who = "retry"
  <2>1. ResumeRetry(k) /\ UNCHANGED hist
    BY <1>6 DEF Continue
  <2>2. CASE Set([busy |-> FALSE]) /\ Then(k, {})
    BY <1>5, <2>1, <2>2
  <2>3. CASE UNCHANGED ui /\ Load(k, k.got.retry)
    BY <1>1, <1>2, <2>1, <2>3, LoadReload
  <2> QED
    BY <2>1, <2>2, <2>3 DEF ResumeRetry
<1>7. CASE who = "removeShown"
  <2>1. ResumeRemoveShown(k) /\ UNCHANGED hist
    BY <1>7 DEF Continue
  <2>2. CASE Set([busy |-> FALSE]) /\ Then(k, {})
    BY <1>5, <2>1, <2>2
  <2>3. CASE Set([mounted |-> FALSE]) /\ tasks' = {}
    BY <1>5, <2>1, <2>3
  <2> QED
    BY <2>1, <2>2, <2>3 DEF ResumeRemoveShown
<1> QED
  BY <1>1, <1>3, <1>4, <1>6, <1>7, RunTasks

(* Only the poller of a run's page loads the page again. *)
LEMMA ReloadsElsewhere ==
    ASSUME WorldKnown, ChainsKnown, Page # "run", hist.reloads <= hist.wrote, [Next]_vars
    PROVE  hist'.reloads <= hist'.wrote
<1>1. CASE hist' = hist
  BY <1>1
<1>2. ASSUME NEW v, NEW w,
             \/ hist' = [hist EXCEPT !.late = v] \/ hist' = [hist EXCEPT !.edited = v]
                    \/ hist' = [hist EXCEPT !.mixed = v] \/ hist' = [hist EXCEPT !.mine = v, !.again = w]
                    \/ hist' = [hist EXCEPT !.lost = v]
      PROVE  hist'.reloads <= hist'.wrote
  BY <1>2 DEF WorldKnown
<1>3. CASE UserStep
  <2>1. CASE UserOnList
    BY <1>1, <1>2, <2>1 DEF UserOnList, ToggleSelected, RunOne, RemoveTest, MoveTest, ToggleMany, ClearSelected,
         RunSelected, CancelPrompt, Toggle, RemoveFolder, OpenPrompt, SubmitPrompt, Mixes
  <2>2. CASE PressRunNow \/ UserOnRecent
    BY <1>1, <1>2, <2>2 DEF PressRunNow, UserOnRecent, RemoveListedRun
  <2>3. CASE UserOnSettings
    BY <1>1, <1>2, <2>3 DEF UserOnSettings, ToggleBrowser, EditSetting, SaveSettings
  <2> QED
    BY <1>3, <2>1, <2>2, <2>3 DEF UserStep
<1>4. ASSUME NEW who, Tick(who) PROVE hist' = hist
  BY <1>4 DEF Tick
<1>5. ASSUME NEW who, Serve(who) PROVE hist'.reloads <= hist'.wrote
  BY <1>1, <1>2, <1>5 DEF Serve
<1>6. ASSUME NEW who, NEW k \in tasks, Continue(who, k) PROVE hist' = hist
  <2>1. who \in {"poll", "batch", "runOne", "remove", "move", "toggle", "unfile", "prompt", "now", "press", "recent",
                   "removeListed", "save"}
    <3>1. TaskKnown(k) /\ k.who = who
      BY <1>6 DEF ChainsKnown, Continue
    <3>2. Page \in {"home", "now", "recent", "settings"}
      BY SetupsAssumption DEF WorldKnown, Page
    <3> QED
      BY <3>1, <3>2 DEF TaskKnown, WhoOn
  <2> QED
    BY <1>6, <2>1 DEF Continue
<1>7. ASSUME NEW k \in tasks, Break(k) PROVE hist'.reloads <= hist'.wrote
  BY <1>2, <1>7 DEF Break
<1>8. CASE OthersStep
  <2>1. Counted
    BY <1>8, CountedSteps
  <2> QED
    BY <2>1 DEF Counted, WorldKnown
<1> QED
  BY <1>1, <1>3, <1>4, <1>5, <1>6, <1>7, <1>8, Steps DEF vars, Leave

LEMMA ReloadNext ==
    ASSUME WorldKnown, ChainsKnown, ReloadInv, [Next]_vars
    PROVE  ReloadInv'
<1>1. setup' = setup
  BY WorldNext
<1> SUFFICES ASSUME Page = "run" PROVE ReloadInv'
  BY <1>1, ReloadsElsewhere DEF ReloadInv, Page
<1>2. DOMAIN ui = {"mounted", "gen", "run", "status", "rows", "triage", "busy"}
  BY DEF WorldKnown, Signals
<1>3. CASE UNCHANGED vars
  BY <1>1, <1>3, ReloadKept, CountedSteps DEF vars
<1>4. CASE UserStep
  BY <1>4, UserReload DEF UserStep
<1>5. CASE Leave
  <2>1. PICK what : what = [mounted |-> FALSE] /\ Set(what)
    BY <1>5 DEF Leave
  <2>2. DOMAIN what = {"mounted"}
    BY <2>1
  <2>3. ui'.run = ui.run /\ ui'.rows = ui.rows /\ ui'.status = ui.status /\ ui'.busy = ui.busy
    BY <1>2, <2>1, <2>2, SetParts
  <2>4. UNCHANGED << setup, db, hist >> /\ tasks' \subseteq tasks
    BY <1>5 DEF Leave
  <2> QED
    BY <2>3, <2>4, ReloadKept, CountedSteps
<1>6. ASSUME NEW who, Tick(who) PROVE ReloadInv'
  BY <1>6, TickReload
<1>7. ASSUME NEW who, NEW k \in tasks, Continue(who, k) PROVE ReloadInv'
  BY <1>7, ResumeReload
<1>8. CASE OthersStep
  <2>1. UNCHANGED << setup, ui, tasks >> /\ Counted
    BY <1>8, OthersSteps, CountedSteps
  <2> QED
    BY <2>1, ReloadKept
<1> QED
  BY <1>3, <1>4, <1>5, <1>6, <1>7, <1>8, Steps, ServeReload

LEMMA ReloadFirst == Init => ReloadInv
<1>0. Init => hist.reloads <= hist.wrote
  BY DEF Init
<1> SUFFICES ASSUME Init, Page = "run" PROVE ReloadInv
  BY <1>0 DEF ReloadInv
<1>1. PICK r, run : r = setup.run /\ run = setup.db.runs[r]
  OBVIOUS
<1>2. ui = [mounted |-> TRUE, gen |-> NoGen, run |-> r, status |-> run.status, rows |-> run.rows, triage |-> run.triage,
            busy |-> FALSE]
  BY <1>1 DEF Init, Page, Opened
<1>3. ui.run = r /\ ui.status = run.status /\ ui.rows = run.rows /\ ui.busy = FALSE
  BY <1>2
<1>4. hist.reloads = 0 /\ hist.wrote = 0 /\ db = setup.db
  BY DEF Init
<1>5. r \in DOMAIN db.runs /\ db.runs[r] = run /\ run.rows \in Nat
  BY <1>1, <1>4, SetupsAssumption DEF Init, Page, DbKnown
<1>6. PICK timer : timer = Timer("tick", 0)
  OBVIOUS
<1>7. timer.who = "tick" /\ timer.at = "timer" /\ DOMAIN timer.got = {}
  BY <1>6, Timers
<1>8. tasks = IF Active(run.status) THEN {timer} ELSE {}
  BY <1>1, <1>6 DEF Init, Page, FirstTasks
<1>9. Active(run.status) => RunTask(timer)
  BY <1>3, <1>5, <1>7 DEF RunTask, Got, Newer
<1>10. ui.rows \in Nat /\ hist.reloads <= hist.wrote
  BY <1>3, <1>4, <1>5
<1>11. ui.busy \in BOOLEAN
  BY <1>3, Zenon
<1> QED
  BY <1>8, <1>9, <1>10, <1>11 DEF ReloadInv

-----------------------------------------------------------------------------
(* The folders of the list. *)

(* A step that has to do with no folder. *)
LEMMA FoldStay ==
    ASSUME FoldInv, Page = "home", setup' = setup, ui'.folders = ui.folders, ui'.closed = ui.closed,
           ui'.prompt.mode \in {"none", "create", "rename"},
           db'.folders = db.folders, Alone' => Alone,
           \A j : j.who \in Folding => (j \in tasks' <=> j \in tasks)
    PROVE  FoldInv'
<1> SUFFICES ASSUME Alone' PROVE FoldsKnown'
  BY DEF FoldInv, Page
<1>1. FoldsKnown
  BY DEF FoldInv
<1>2. {"unfile", "prompt", "toggle"} \subseteq Folding
  BY DEF Folding
<1>3. /\ \A j, k \in tasks' : j.who \in Folding /\ k.who \in Folding => j = k
      /\ \A k \in tasks' : k.who \in Folding => k.at = "sent"
  BY <1>1 DEF FoldsKnown
<1>4. (\A k \in tasks' : k.who \notin {"unfile", "prompt"}) => DOMAIN ui'.folders = DOMAIN db'.folders
  BY <1>1, <1>2 DEF FoldsKnown
<1>5. (\A k \in tasks' : k.who \in Folding => Got(k, "setCollapsed")) => ui'.closed = ClosedIn(db'.folders)
  BY <1>1, <1>2 DEF FoldsKnown
<1>6. \A k \in tasks' : k.who = "toggle" /\ "setCollapsed" \in k.asks =>
          /\ k.arg.folder \in DOMAIN db'.folders
          /\ k.arg.closed = (k.arg.folder \notin ClosedIn(db'.folders))
          /\ ui'.closed = SymDiff(ClosedIn(db'.folders), {k.arg.folder})
  BY <1>1, <1>2 DEF FoldsKnown
<1>7. \A k \in tasks' : k.who \in {"unfile", "prompt"} /\ "folders" \in DOMAIN k.got => k.got.folders = db'.folders
  BY <1>1, <1>2 DEF FoldsKnown
<1> QED
  BY <1>3, <1>4, <1>5, <1>6, <1>7 DEF FoldsKnown, Got, Answered, ClosedIn

LEMMA HomeTasks ==
    ASSUME WorldKnown, ChainsKnown, Page = "home", NEW k \in tasks
    PROVE  /\ TaskKnown(k) /\ k.who \in {"poll", "batch", "runOne", "remove", "move", "toggle", "unfile", "prompt"}
           /\ k.who # "poll" => k.at # "timer"
           /\ k.who = "toggle" => k.asks \cup DOMAIN k.got = {"setCollapsed"}
           /\ k.who = "unfile" => k.asks \cup DOMAIN k.got \in {{"removeFolder"}, {"tests", "folders"}}
           /\ k.who = "prompt" => k.asks \cup DOMAIN k.got \in {{"createFolder"}, {"renameFolder"}, {"tests", "folders"}}
           /\ k.who \notin Folding => \A ask \in k.asks : ask \notin {"createFolder", "removeFolder", "setCollapsed"}
<1>1. TaskKnown(k)
  BY DEF ChainsKnown
<1>2. k.who \in {"poll", "batch", "runOne", "remove", "move", "toggle", "unfile", "prompt"}
  BY <1>1 DEF TaskKnown, WhoOn
<1>3. k.who # "poll" => k.at # "timer"
  BY <1>1, <1>2 DEF TaskKnown, Pollers
<1>4. /\ Stages.toggle = {{"setCollapsed"}} /\ Stages.unfile = {{"removeFolder"}, {"tests", "folders"}}
      /\ Stages.prompt = {{"createFolder"}, {"renameFolder"}, {"tests", "folders"}}
  BY DEF Stages
<1>5. ASSUME k.who \notin Folding, NEW ask \in k.asks PROVE ask \notin {"createFolder", "removeFolder", "setCollapsed"}
  <2>1. k.who \in {"poll", "batch", "runOne", "remove", "move"}
    BY <1>2, <1>5 DEF Folding
  <2>2. k.asks \cup DOMAIN k.got \in Stages[k.who]
    BY <1>1, <1>5 DEF TaskKnown
  <2>3. /\ Stages.poll = {{"tests"}} /\ Stages.batch = {{"createMany"}, {"tests"}} /\ Stages.runOne = {{"create"}, {"tests"}}
        /\ Stages.remove = {{"removeTest"}} /\ Stages.move = {{"move"}}
    BY DEF Stages
  <2>4. k.asks \cup DOMAIN k.got \in {{"tests"}, {"createMany"}, {"create"}, {"removeTest"}, {"move"}}
    BY <2>1, <2>2, <2>3
  <2> QED
    BY <1>5, <2>4
<1> QED
  BY <1>1, <1>2, <1>3, <1>4, <1>5 DEF TaskKnown

LEMMA MixesAlone ==
    ASSUME WorldKnown, Mixes
    PROVE  Alone' => Alone /\ \A k \in tasks : k.who \notin Folding
<1>1. PICK b : b = (hist.mixed \/ \E k \in tasks : k.who \in Folding)
  OBVIOUS
<1>2. hist' = [hist EXCEPT !.mixed = b]
  BY <1>1, Zenon DEF Mixes
<1>3. hist'.mixed = b /\ hist'.lost = hist.lost
  BY <1>2 DEF WorldKnown
<1>4. ~ b => ~ hist.mixed /\ \A k \in tasks : k.who \notin Folding
  BY <1>1, Zenon
<1> QED
  BY <1>3, <1>4 DEF Alone

LEMMA SameAlone ==
    ASSUME WorldKnown
    PROVE  /\ UNCHANGED hist => (Alone' => Alone)
           /\ \A v, w : hist' = [hist EXCEPT !.late = v] \/ hist' = [hist EXCEPT !.mine = v, !.again = w] => (Alone' => Alone)
           /\ \A v : hist' = [hist EXCEPT !.lost = hist.lost \cup v] => (Alone' => Alone /\ Folding \cap v = {})
<1>1. ASSUME NEW v, NEW w, hist' = [hist EXCEPT !.late = v] \/ hist' = [hist EXCEPT !.mine = v, !.again = w]
      PROVE  Alone' => Alone
  <2>1. hist'.mixed = hist.mixed /\ hist'.lost = hist.lost
    BY <1>1 DEF WorldKnown
  <2> QED
    BY <2>1 DEF Alone
<1>2. ASSUME NEW v, hist' = [hist EXCEPT !.lost = hist.lost \cup v] PROVE Alone' => Alone /\ Folding \cap v = {}
  <2>1. hist'.mixed = hist.mixed /\ hist'.lost = hist.lost \cup v
    BY <1>2 DEF WorldKnown
  <2> QED
    BY <2>1 DEF Alone
<1> QED
  BY <1>1, <1>2 DEF Alone

(* A change of the folders begins. *)
LEMMA FoldBegin ==
    ASSUME WorldKnown, FoldInv, Page = "home", setup' = setup, db' = db, Mixes, ui'.folders = ui.folders,
           ui'.closed \subseteq DOMAIN ui'.folders, ui'.prompt.mode \in {"none", "create", "rename"},
           NEW k, tasks' = tasks \cup {k}, k.who \in Folding, k.at = "sent", DOMAIN k.got = {},
           FoldsKnown /\ (\A j \in tasks : j.who \notin Folding) /\ k.who = "toggle" /\ "setCollapsed" \in k.asks =>
              /\ k.arg.folder \in DOMAIN db.folders
              /\ k.arg.closed = (k.arg.folder \notin ClosedIn(db.folders))
              /\ ui'.closed = SymDiff(ClosedIn(db.folders), {k.arg.folder})
    PROVE  FoldInv'
<1> SUFFICES ASSUME Alone' PROVE FoldsKnown'
  BY DEF FoldInv, Page
<1>1. FoldsKnown /\ \A j \in tasks : j.who \notin Folding
  BY MixesAlone DEF FoldInv
<1>2. {"unfile", "prompt", "toggle"} = Folding
  BY DEF Folding
<1>3. DOMAIN ui.folders = DOMAIN db.folders
  BY <1>1, <1>2 DEF FoldsKnown
<1>4. ~ Got(k, "setCollapsed")
  BY DEF Got
<1> QED
  BY <1>1, <1>2, <1>3, <1>4 DEF FoldsKnown, Got, Answered, ClosedIn

LEMMA UserFolds ==
    ASSUME WorldKnown, ChainsKnown, FoldInv, Page = "home", UserOnList
    PROVE  FoldInv'
<1>1. /\ DOMAIN ui = {"mounted", "gen", "tests", "folders", "closed", "selected", "running", "prompt"}
      /\ setup' = setup /\ db' = db
  BY UserSteps DEF WorldKnown, PageStep, Signals
<1>2. ui.closed \subseteq DOMAIN ui.folders /\ ui.prompt.mode \in {"none", "create", "rename"}
  BY DEF FoldInv
<1>3. {"unfile", "prompt", "toggle"} = Folding
  BY DEF Folding
<1>4. ASSUME ui' = ui \/ \E what : Set(what) /\ DOMAIN what \subseteq {"selected", "running"}
      PROVE  ui'.folders = ui.folders /\ ui'.closed = ui.closed /\ ui'.prompt = ui.prompt
  BY <1>1, <1>4, SetParts
<1>5. ASSUME NEW p, p.mode \in {"none", "create", "rename"}, Set([prompt |-> p])
      PROVE  ui'.folders = ui.folders /\ ui'.closed = ui.closed /\ ui'.prompt.mode \in {"none", "create", "rename"}
  <2>1. PICK what : what = [prompt |-> p] /\ Set(what)
    BY <1>5
  <2>2. DOMAIN what = {"prompt"} /\ what.prompt = p
    BY <2>1
  <2> QED
    BY <1>1, <1>5, <2>1, <2>2, SetParts
<1>6. ASSUME NEW v, ui' = ui \/ \E what : Set(what) /\ DOMAIN what \subseteq {"selected", "running"},
             tasks' = tasks \/ \E who, asks, x : who \notin Folding /\ Starts(who, asks, x),
             hist' = hist \/ hist' = [hist EXCEPT !.late = v]
      PROVE  FoldInv'
  <2>1. \A j : j.who \in Folding => (j \in tasks' <=> j \in tasks)
    <3>1. CASE tasks' = tasks
      BY <3>1
    <3>2. ASSUME NEW who, NEW asks, NEW x, who \notin Folding, Starts(who, asks, x)
          PROVE  \A j : j.who \in Folding => (j \in tasks' <=> j \in tasks)
      <4>1. PICK k : k = Task(who, 0, asks, x)
        OBVIOUS
      <4>2. k.who = who /\ tasks' = tasks \cup {k}
        BY <3>2, <4>1, Tasks DEF Starts
      <4> QED
        BY <3>2, <4>2
    <3> QED
      BY <1>6, <3>1, <3>2
  <2>2. Alone' => Alone
    BY <1>6, SameAlone
  <2> QED
    BY <1>1, <1>2, <1>4, <1>6, <2>1, <2>2, FoldStay
<1>7. ASSUME NEW t, ToggleSelected(t) \/ RunOne(t) \/ RemoveTest(t) \/ \E f : MoveTest(t, f) PROVE FoldInv'
  <2>1. CASE ToggleSelected(t)
    <3>1. PICK v : Set([selected |-> v])
      BY <2>1 DEF ToggleSelected
    <3>2. \E what : Set(what) /\ DOMAIN what \subseteq {"selected", "running"}
      BY <3>1
    <3> QED
      BY <1>6, <2>1, <3>2 DEF ToggleSelected
  <2>2. CASE RunOne(t) \/ RemoveTest(t) \/ \E f : MoveTest(t, f)
    <3>1. {"runOne", "remove", "move"} \cap Folding = {}
      BY DEF Folding
    <3> QED
      BY <1>6, <2>2, <3>1 DEF RunOne, RemoveTest, MoveTest
  <2> QED
    BY <1>7, <2>1, <2>2
<1>8. ASSUME NEW ids, ToggleMany(ids) PROVE FoldInv'
  <2>1. PICK v : Set([selected |-> v])
    BY <1>8 DEF ToggleMany
  <2>2. \E what : Set(what) /\ DOMAIN what \subseteq {"selected", "running"}
    BY <2>1
  <2> QED
    BY <1>6, <1>8, <2>2 DEF ToggleMany
<1>9. CASE ClearSelected
  <2>1. \E what : Set(what) /\ DOMAIN what \subseteq {"selected", "running"}
    BY <1>9 DEF ClearSelected
  <2> QED
    BY <1>6, <1>9, <2>1 DEF ClearSelected
<1>10. CASE RunSelected
  <2>1. \E what : Set(what) /\ DOMAIN what \subseteq {"selected", "running"}
    BY <1>10 DEF RunSelected
  <2>2. "batch" \notin Folding
    BY DEF Folding
  <2> QED
    BY <1>6, <1>10, <2>1, <2>2 DEF RunSelected
<1>11. ASSUME NEW p, p.mode \in {"none", "create", "rename"}, Set([prompt |-> p]), UNCHANGED << setup, db, tasks, hist >>
       PROVE  FoldInv'
  <2>1. Alone' => Alone
    BY <1>11, SameAlone
  <2> QED
    BY <1>5, <1>11, <2>1, FoldStay
<1>12. CASE CancelPrompt
  BY <1>11, <1>12 DEF CancelPrompt
<1>13. ASSUME NEW p, p.mode \in {"rename", "create"}, OpenPrompt(p) PROVE FoldInv'
  BY <1>11, <1>13 DEF OpenPrompt
<1>14. ASSUME NEW f, Toggle(f) PROVE FoldInv'
  <2>1. PICK closed : closed = SymDiff(ui.closed, {f})
    OBVIOUS
  <2>2. PICK what : what = [closed |-> closed] /\ Set(what)
    BY <1>14, <2>1 DEF Toggle
  <2>3. DOMAIN what = {"closed"} /\ what.closed = closed
    BY <2>2
  <2>4. ui'.folders = ui.folders /\ ui'.closed = closed /\ ui'.prompt = ui.prompt
    BY <1>1, <2>2, <2>3, SetParts
  <2>5. closed \subseteq DOMAIN ui.folders
    BY <1>2, <1>14, <2>1 DEF Toggle, SymDiff
  <2>6. PICK b : b = (f \notin ui.closed)
    OBVIOUS
  <2>7. PICK x : x = [folder |-> f, closed |-> b]
    OBVIOUS
  <2>8. x.folder = f /\ x.closed = b
    BY <2>7
  <2>9. PICK k : k = Task("toggle", 0, {"setCollapsed"}, x)
    OBVIOUS
  <2>10. k.who = "toggle" /\ k.at = "sent" /\ DOMAIN k.got = {} /\ k.arg = x
    BY <2>9, Tasks
  <2>11. x = [folder |-> f, closed |-> f \notin ui.closed]
    BY <2>6, <2>7, Zenon
  <2>12. tasks' = tasks \cup {k}
    BY <1>14, <2>9, <2>11 DEF Toggle, Starts
  <2>13. ASSUME FoldsKnown, \A j \in tasks : j.who \notin Folding
         PROVE  /\ f \in DOMAIN db.folders /\ b = (f \notin ClosedIn(db.folders))
                /\ closed = SymDiff(ClosedIn(db.folders), {f})
    <3>1. DOMAIN ui.folders = DOMAIN db.folders /\ ui.closed = ClosedIn(db.folders)
      BY <1>3, <2>13 DEF FoldsKnown
    <3> QED
      BY <1>14, <2>1, <2>6, <3>1 DEF Toggle
  <2> QED
    BY <1>1, <1>2, <1>3, <1>14, <2>4, <2>5, <2>8, <2>10, <2>12, <2>13, FoldBegin DEF Toggle
<1>15. ASSUME NEW who \in {"unfile", "prompt"}, NEW asks, NEW x, Starts(who, asks, x), Mixes,
              ui'.folders = ui.folders, ui'.closed = ui.closed, ui'.prompt.mode \in {"none", "create", "rename"}
       PROVE  FoldInv'
  <2>1. PICK k : k = Task(who, 0, asks, x)
    OBVIOUS
  <2>2. k.who = who /\ k.at = "sent" /\ DOMAIN k.got = {} /\ tasks' = tasks \cup {k}
    BY <1>15, <2>1, Tasks DEF Starts
  <2> QED
    BY <1>1, <1>2, <1>3, <1>15, <2>2, FoldBegin
<1>16. ASSUME NEW f, RemoveFolder(f) PROVE FoldInv'
  BY <1>2, <1>15, <1>16 DEF RemoveFolder
<1>17. ASSUME NEW same, SubmitPrompt(same) PROVE FoldInv'
  <2>1. PICK who, asks, x : who = "prompt" /\ Starts(who, asks, x)
    BY <1>17 DEF SubmitPrompt
  <2>2. Mixes /\ (ui' = ui \/ Set([prompt |-> [mode |-> "none"]]))
    BY <1>17 DEF SubmitPrompt
  <2> QED
    BY <1>2, <1>5, <1>15, <2>1, <2>2
<1>18. \A f : [mode |-> "rename", folder |-> f].mode = "rename" /\ [mode |-> "create", folder |-> f].mode = "create"
  OBVIOUS
<1>19. ASSUME NEW f, OpenPrompt([mode |-> "rename", folder |-> f]) \/ OpenPrompt([mode |-> "create", folder |-> f])
       PROVE  FoldInv'
  BY <1>13, <1>18, <1>19
<1> QED
  BY <1>7, <1>8, <1>9, <1>10, <1>12, <1>14, <1>16, <1>17, <1>19, Zenon DEF UserOnList

(* One change of the folders is under way: it has been taken, or the page will ask for them. *)
LEMMA FoldOne ==
    ASSUME NEW new, new.at = "sent", \A j \in tasks' : j.who \in Folding => j = new,
           \/ /\ new.who = "toggle" /\ "setCollapsed" \notin new.asks
              /\ DOMAIN ui'.folders = DOMAIN db'.folders /\ ui'.closed = ClosedIn(db'.folders)
           \/ /\ new.who \in {"unfile", "prompt"} /\ new \in tasks' /\ "setCollapsed" \notin DOMAIN new.got
              /\ "folders" \in DOMAIN new.got => new.got.folders = db'.folders
    PROVE  FoldsKnown'
<1>1. {"unfile", "prompt", "toggle"} = Folding
  BY DEF Folding
<1>2. CASE new.who = "toggle"
  BY <1>1, <1>2 DEF FoldsKnown, ClosedIn
<1>3. CASE new.who \in {"unfile", "prompt"}
  BY <1>1, <1>3 DEF FoldsKnown, Got
<1> QED
  BY <1>2, <1>3

LEMMA Collapsed ==
    ASSUME WorldKnown, NEW x, x.folder \in DOMAIN db.folders, x.closed = (x.folder \notin ClosedIn(db.folders)),
           db' = Effect("setCollapsed", x, db)
    PROVE  /\ DOMAIN db'.folders = DOMAIN db.folders
           /\ ClosedIn(db'.folders) = SymDiff(ClosedIn(db.folders), {x.folder})
<1>1. PICK fs : fs = [f \in DOMAIN db.folders |-> IF f = x.folder THEN [db.folders[f] EXCEPT !.closed = x.closed] ELSE db.folders[f]]
  OBVIOUS
<1>2. db' = [db EXCEPT !.folders = fs]
  BY <1>1 DEF Effect
<1>3. db'.folders = fs
  BY <1>2 DEF WorldKnown, DbKnown
<1>4. DOMAIN fs = DOMAIN db.folders /\ \A f \in DOMAIN db.folders : f # x.folder => fs[f] = db.folders[f]
  BY <1>1
<1>5. fs[x.folder] = [db.folders[x.folder] EXCEPT !.closed = x.closed]
  BY <1>1
<1>6. "closed" \in DOMAIN db.folders[x.folder]
  BY DEF WorldKnown, DbKnown
<1>7. PICK g, h, c : g = db.folders[x.folder] /\ h = fs[x.folder] /\ c = x.closed
  OBVIOUS
<1>8. h.closed = c
  BY <1>5, <1>6, <1>7
<1>9. x.folder \in ClosedIn(fs) <=> x.folder \notin ClosedIn(db.folders)
  BY <1>3, <1>4, <1>7, <1>8, Zenon DEF ClosedIn
<1>10. \A f : f # x.folder => (f \in ClosedIn(fs) <=> f \in ClosedIn(db.folders))
  BY <1>4 DEF ClosedIn
<1> QED
  BY <1>3, <1>4, <1>9, <1>10 DEF SymDiff

LEMMA ServeFolds ==
    ASSUME WorldKnown, ChainsKnown, FoldInv, Page = "home", NEW who, Serve(who)
    PROVE  FoldInv'
<1>1. UNCHANGED << setup, ui >>
  BY DEF Serve
<1>2. Alone' => Alone
  BY SameAlone DEF Serve
<1>3. PICK k \in tasks : /\ k.who = who /\ k.at = "sent"
         /\ \E ask \in k.asks :
               \/ /\ Refused(ask, k.arg, db)
                  /\ Then(k, {[k EXCEPT !.at = "error"]})
                  /\ UNCHANGED << db, hist >>
               \/ /\ ~ Refused(ask, k.arg, db)
                  /\ db' = Effect(ask, k.arg, db)
                  /\ Then(k, {[k EXCEPT !.asks = @ \ {ask}, !.got = Entry(ask, Answer(ask, k.arg, db)) ++ @]})
  BY DEF Serve
<1>4. PICK ask \in k.asks :
               \/ /\ Refused(ask, k.arg, db)
                  /\ Then(k, {[k EXCEPT !.at = "error"]})
                  /\ UNCHANGED << db, hist >>
               \/ /\ ~ Refused(ask, k.arg, db)
                  /\ db' = Effect(ask, k.arg, db)
                  /\ Then(k, {[k EXCEPT !.asks = @ \ {ask}, !.got = Entry(ask, Answer(ask, k.arg, db)) ++ @]})
  BY <1>3
<1>5. ui'.folders = ui.folders /\ ui'.closed = ui.closed /\ ui'.prompt = ui.prompt
  BY <1>1
<1>6. ui.closed \subseteq DOMAIN ui.folders /\ ui.prompt.mode \in {"none", "create", "rename"}
  BY DEF FoldInv
<1>7. CASE k.who \notin Folding
  <2>1. db'.folders = db.folders
    BY <1>4, <1>7, HomeTasks, EffectKnown DEF WorldKnown
  <2>2. PICK new : new.who = k.who /\ Then(k, {new})
    BY <1>3, <1>4, Served, Erred
  <2>3. \A j : j.who \in Folding => (j \in tasks' <=> j \in tasks)
    BY <1>7, <2>2 DEF Then
  <2> QED
    BY <1>1, <1>2, <1>5, <1>6, <2>1, <2>3, FoldStay
<1>8. CASE k.who \in Folding
  <2> SUFFICES ASSUME Alone' PROVE FoldsKnown'
    BY <1>1, <1>6 DEF FoldInv, Page
  <2>1. FoldsKnown
    BY <1>2 DEF FoldInv
  <2>2. k.who \in {"toggle", "unfile", "prompt"}
    BY <1>8 DEF Folding
  <2>3. ask \notin {"create", "retry"}
    BY <1>4, <2>2, HomeTasks
  <2>4. /\ db' = Effect(ask, k.arg, db)
        /\ Then(k, {[k EXCEPT !.asks = @ \ {ask}, !.got = Entry(ask, Answer(ask, k.arg, db)) ++ @]})
    BY <1>4, <2>3 DEF Refused
  <2>5. PICK new : new = [k EXCEPT !.asks = @ \ {ask}, !.got = Entry(ask, Answer(ask, k.arg, db)) ++ @]
    OBVIOUS
  <2>6. /\ new.who = k.who /\ new.at = "sent" /\ new.asks = k.asks \ {ask}
        /\ DOMAIN new.got = DOMAIN k.got \cup {ask} /\ new.got[ask] = Answer(ask, k.arg, db)
        /\ \A a \in DOMAIN k.got \ {ask} : new.got[a] = k.got[a]
    <3>1. k.at = "sent" /\ ask \in k.asks
      BY <1>3, <1>4
    <3>2. LET t == [k EXCEPT !.asks = @ \ {ask}, !.got = Entry(ask, Answer(ask, k.arg, db)) ++ @] IN
          /\ t.who = k.who /\ t.at = "sent" /\ t.asks = k.asks \ {ask}
          /\ DOMAIN t.got = DOMAIN k.got \cup {ask} /\ t.got[ask] = Answer(ask, k.arg, db)
          /\ \A a \in DOMAIN k.got \ {ask} : t.got[a] = k.got[a]
      BY <3>1, Served
    <3> QED
      BY <2>5, <3>2, Zenon
  <2>7. tasks' = (tasks \ {k}) \cup {new}
    BY <2>4, <2>5 DEF Then
  <2>8. \A j \in tasks' : j.who \in Folding => j = new
    BY <1>8, <2>1, <2>7 DEF FoldsKnown
  <2>9. CASE k.who = "toggle"
    <3>1. ask = "setCollapsed"
      BY <1>4, <2>9, HomeTasks
    <3>2. /\ k.arg.folder \in DOMAIN db.folders /\ k.arg.closed = (k.arg.folder \notin ClosedIn(db.folders))
          /\ ui.closed = SymDiff(ClosedIn(db.folders), {k.arg.folder})
      BY <2>1, <2>9, <3>1 DEF FoldsKnown
    <3>3. DOMAIN db'.folders = DOMAIN db.folders /\ ClosedIn(db'.folders) = SymDiff(ClosedIn(db.folders), {k.arg.folder})
      BY <2>4, <3>1, <3>2, Collapsed
    <3>4. \A j \in tasks : j.who \notin {"unfile", "prompt"}
      BY <2>1, <2>9 DEF FoldsKnown, Folding
    <3>5. DOMAIN ui.folders = DOMAIN db.folders
      BY <2>1, <3>4 DEF FoldsKnown
    <3> QED
      BY <1>5, <2>6, <2>8, <2>9, <3>1, <3>2, <3>3, <3>5, FoldOne
  <2>10. CASE k.who \in {"unfile", "prompt"}
    <3>1. "setCollapsed" \notin DOMAIN new.got
      BY <2>6, <2>10, HomeTasks
    <3>2. ASSUME "folders" \in DOMAIN new.got PROVE new.got.folders = db'.folders
      <4>1. ask \in {"tests", "folders"}
        BY <2>6, <2>10, <3>2, HomeTasks
      <4>2. db' = db
        BY <2>4, <4>1 DEF Effect
      <4>3. CASE ask = "folders"
        BY <2>6, <4>2, <4>3 DEF Answer
      <4>4. CASE ask # "folders"
        BY <2>1, <2>6, <2>10, <3>2, <4>2, <4>4 DEF FoldsKnown
      <4> QED
        BY <4>3, <4>4
    <3> QED
      BY <2>6, <2>7, <2>8, <2>10, <3>1, <3>2, FoldOne
  <2> QED
    BY <2>2, <2>9, <2>10
<1> QED
  BY <1>7, <1>8

LEMMA BreakFolds ==
    ASSUME WorldKnown, ChainsKnown, FoldInv, Page = "home", NEW k \in tasks, Break(k)
    PROVE  FoldInv'
<1>1. UNCHANGED << setup, ui >> /\ k.at = "sent" /\ Then(k, {[k EXCEPT !.at = "error"]})
  BY DEF Break
<1>2. PICK ask \in k.asks : db' = db \/ db' \in Partly(ask, k.arg, db)
  BY DEF Break
<1>3. PICK v : v = (IF db' # db \/ k.who \in Folding THEN {k.who} ELSE {})
  OBVIOUS
<1>4. hist' = [hist EXCEPT !.lost = hist.lost \cup v]
  <2>0. hist' = [hist EXCEPT !.lost = IF db' # db \/ k.who \in Folding THEN @ \cup {k.who} ELSE @]
    BY DEF Break
  <2>1. CASE db' # db \/ k.who \in Folding
    BY <2>0, <1>3, <2>1
  <2>2. CASE ~ (db' # db \/ k.who \in Folding)
    BY <2>0, <1>3, <2>2
  <2> QED
    BY <2>1, <2>2
<1>5. Alone' => Alone /\ Folding \cap v = {}
  BY <1>4, SameAlone
<1>6. ui'.folders = ui.folders /\ ui'.closed = ui.closed /\ ui'.prompt = ui.prompt
  BY <1>1
<1>7. CASE k.who \in Folding
  <2>1. ~ Alone'
    BY <1>3, <1>5, <1>7
  <2> QED
    BY <1>1, <1>6, <2>1 DEF FoldInv, Page
<1>8. CASE k.who \notin Folding
  <2>1. db'.folders = db.folders
    BY <1>2, <1>8, HomeTasks, PartlyKnown DEF WorldKnown
  <2>2. PICK new : new.who = k.who /\ Then(k, {new})
    BY <1>1, Erred
  <2>3. \A j : j.who \in Folding => (j \in tasks' <=> j \in tasks)
    BY <1>8, <2>2 DEF Then
  <2> QED
    BY <1>1, <1>5, <1>6, <2>1, <2>3, FoldStay DEF FoldInv
<1> QED
  BY <1>7, <1>8

LEMMA ResumeFoldsInv ==
    ASSUME WorldKnown, ChainsKnown, FoldInv, Page = "home", NEW who, NEW k \in tasks, Continue(who, k)
    PROVE  FoldInv'
<1>1. /\ DOMAIN ui = {"mounted", "gen", "tests", "folders", "closed", "selected", "running", "prompt"}
      /\ who = k.who /\ who \in {"poll", "batch", "runOne", "remove", "move", "toggle", "unfile", "prompt"}
      /\ Settled(k) /\ UNCHANGED << setup, db >>
  BY HomeTasks DEF WorldKnown, Signals, Continue
<1>2. hist' = hist
  BY <1>1 DEF Continue
<1>3. Alone' => Alone
  BY <1>2, SameAlone
<1>4. ui.closed \subseteq DOMAIN ui.folders /\ ui.prompt.mode \in {"none", "create", "rename"}
  BY DEF FoldInv
<1>5. {"unfile", "prompt", "toggle"} = Folding
  BY DEF Folding
<1>6. CASE who \in {"poll", "batch", "runOne", "remove", "move"}
  <2>1. \A j \in tasks' : (j \in tasks /\ j # k) \/ j.who \notin Folding
    <3> SUFFICES ASSUME NEW j \in tasks' PROVE (j \in tasks /\ j # k) \/ j.who \notin Folding
      OBVIOUS
    <3>1. PICK asks : asks = {"tests"}
      OBVIOUS
    <3>2. (j \in tasks /\ j # k) \/ j.who = "poll" \/ j \in NextAsk(k, asks)
      BY <1>5, <1>6, <3>1, ListTasks
    <3> QED
      BY <1>1, <1>5, <1>6, <3>2, Asking
  <2>2. \A j \in tasks : j.who \in Folding => j \in tasks'
    <3>1. (\E ks : Then(k, ks)) \/ Chain("poll", k)
      BY <1>6 DEF Continue, ResumePoll, ResumeBatch, ResumeRunOne, ResumeEdit
    <3>2. ASSUME NEW j \in tasks, j.who \in Folding PROVE j # k /\ j.who # "poll"
      BY <1>1, <1>5, <1>6, <3>2
    <3>3. CASE \E ks : Then(k, ks)
      BY <3>2, <3>3 DEF Then
    <3>4. CASE Chain("poll", k)
      BY <3>2, <3>4 DEF Chain
    <3> QED
      BY <3>1, <3>3, <3>4
  <2>3. ui' = ui \/ \E what : Set(what) /\ DOMAIN what \subseteq {"tests", "gen", "running", "selected"}
    <3>1. CASE who = "poll"
      BY <1>1, <3>1 DEF Continue, ResumePoll
    <3>2. CASE who = "batch"
      <4>1. ResumeBatch(k)
        BY <3>2 DEF Continue
      <4>2. CASE Set([running |-> FALSE])
        BY <4>2
      <4>3. CASE Set([selected |-> {}])
        BY <4>3
      <4>4. CASE Set([running |-> FALSE, tests |-> k.got.tests, gen |-> Bump("poll")])
        BY <4>4
      <4> QED
        BY <4>1, <4>2, <4>3, <4>4 DEF ResumeBatch
    <3>3. CASE who = "runOne"
      <4>1. ResumeRunOne(k)
        BY <3>3 DEF Continue
      <4>2. CASE Set([tests |-> k.got.tests, gen |-> Bump("poll")])
        BY <4>2
      <4> QED
        BY <4>1, <4>2 DEF ResumeRunOne
    <3>4. CASE who \in {"remove", "move"}
      <4>1. ResumeEdit(k)
        BY <3>4 DEF Continue
      <4>2. ASSUME NEW a, NEW b, Set([tests |-> a, selected |-> b]) PROVE \E what : Set(what) /\ DOMAIN what \subseteq {"tests", "gen", "running", "selected"}
        BY <4>2
      <4>3. ASSUME NEW a, Set([tests |-> a]) PROVE \E what : Set(what) /\ DOMAIN what \subseteq {"tests", "gen", "running", "selected"}
        BY <4>3
      <4> QED
        BY <4>1, <4>2, <4>3, Zenon DEF ResumeEdit
    <3> QED
      BY <1>6, <3>1, <3>2, <3>3, <3>4
  <2>4. ui'.folders = ui.folders /\ ui'.closed = ui.closed /\ ui'.prompt = ui.prompt
    BY <1>1, <2>3, SetParts
  <2>5. \A j : j.who \in Folding => (j \in tasks' <=> j \in tasks)
    BY <2>1, <2>2
  <2> QED
    BY <1>1, <1>3, <1>4, <2>4, <2>5, FoldStay
<1>7. ASSUME k.who \in Folding, Alone' PROVE FoldsKnown /\ Answered(k) /\ \A j \in tasks : j.who \in Folding => j = k
  <2>1. FoldsKnown
    BY <1>3, <1>7 DEF FoldInv
  <2>2. k.at = "sent"
    BY <1>7, <2>1 DEF FoldsKnown
  <2> QED
    BY <1>1, <1>7, <2>1, <2>2 DEF FoldsKnown, Settled, Failed
<1>8. CASE who = "toggle"
  <2>1. Then(k, {}) /\ UNCHANGED ui
    <3>1. "removeTest" \notin DOMAIN k.got /\ "move" \notin DOMAIN k.got
      BY <1>1, <1>8, HomeTasks
    <3> QED
      BY <1>8, <3>1 DEF Continue, ResumeEdit, Got
  <2>2. ui'.folders = ui.folders /\ ui'.closed = ui.closed /\ ui'.prompt = ui.prompt
    BY <2>1
  <2> SUFFICES ASSUME Alone' PROVE FoldsKnown'
    BY <1>1, <1>4, <2>2 DEF FoldInv, Page
  <2>3. FoldsKnown /\ Answered(k) /\ \A j \in tasks : j.who \in Folding => j = k
    BY <1>1, <1>5, <1>7, <1>8
  <2>4. Got(k, "setCollapsed")
    BY <1>1, <1>8, <2>3, HomeTasks DEF Got, Answered
  <2>5. ui.closed = ClosedIn(db.folders) /\ DOMAIN ui.folders = DOMAIN db.folders
    BY <1>1, <1>5, <1>8, <2>3, <2>4 DEF FoldsKnown
  <2>6. \A j \in tasks' : j.who \notin Folding
    BY <2>1, <2>3 DEF Then
  <2> QED
    BY <1>1, <1>5, <2>2, <2>5, <2>6 DEF FoldsKnown, ClosedIn
<1>9. CASE who \in {"unfile", "prompt"}
  <2>1. ResumeFolders(k)
    BY <1>9 DEF Continue
  <2>2. CASE Failed(k) /\ UNCHANGED ui
    <3>1. ~ Alone'
      BY <1>1, <1>5, <1>7, <1>9, <2>2 DEF Answered, Failed
    <3>2. ui'.folders = ui.folders /\ ui'.closed = ui.closed /\ ui'.prompt = ui.prompt
      BY <2>2
    <3> QED
      BY <1>1, <1>4, <3>1, <3>2 DEF FoldInv, Page
  <2>3. ASSUME ui'.folders = ui.folders, ui'.closed = ui.closed, ui'.prompt.mode \in {"none", "create", "rename"},
               Then(k, NextAsk(k, {"tests", "folders"}))
        PROVE  FoldInv'
    <3> SUFFICES ASSUME Alone' PROVE FoldsKnown'
      BY <1>1, <1>4, <2>3 DEF FoldInv, Page
    <3>1. PICK asks : asks = {"tests", "folders"}
      OBVIOUS
    <3>2. PICK new : NextAsk(k, asks) = {new}
      BY DEF NextAsk
    <3>3. new.who = k.who /\ new.at = k.at /\ DOMAIN new.got = {}
      BY <3>2, Asking
    <3>4. tasks' = (tasks \ {k}) \cup {new}
      BY <2>3, <3>1, <3>2 DEF Then
    <3>5. k.at = "sent" /\ \A j \in tasks' : j.who \in Folding => j = new
      BY <1>1, <1>5, <1>7, <1>9, <3>4 DEF Answered
    <3> QED
      BY <1>1, <1>9, <3>3, <3>4, <3>5, FoldOne
  <2>4. CASE UNCHANGED ui /\ Then(k, NextAsk(k, {"tests", "folders"}))
    BY <1>4, <2>3, <2>4
  <2>5. CASE Set([prompt |-> [mode |-> "none"]]) /\ Then(k, NextAsk(k, {"tests", "folders"}))
    <3>1. PICK p : p = [mode |-> "none"]
      OBVIOUS
    <3>2. PICK what : what = [prompt |-> p] /\ Set(what)
      BY <2>5, <3>1
    <3>3. DOMAIN what = {"prompt"} /\ what.prompt = p /\ p.mode = "none"
      BY <3>1, <3>2
    <3>4. ui'.folders = ui.folders /\ ui'.closed = ui.closed /\ ui'.prompt = p
      BY <1>1, <3>2, <3>3, SetParts
    <3> QED
      BY <2>3, <2>5, <3>3, <3>4
  <2>6. CASE Got(k, "folders") /\ Set(Refreshed(k)) /\ Then(k, {})
    <3>1. PICK fs, what : fs = k.got.folders /\ what = Refreshed(k)
      OBVIOUS
    <3>2. DOMAIN what = {"tests", "folders", "closed"} /\ what.folders = fs /\ what.closed = ClosedIn(fs)
      BY <3>1 DEF Refreshed, ClosedIn
    <3>3. ui'.folders = fs /\ ui'.closed = ClosedIn(fs) /\ ui'.prompt = ui.prompt
      BY <1>1, <2>6, <3>1, <3>2, SetParts
    <3>4. ui'.closed \subseteq DOMAIN ui'.folders
      BY <3>3 DEF ClosedIn
    <3> SUFFICES ASSUME Alone' PROVE FoldsKnown'
      BY <1>1, <1>4, <3>3, <3>4 DEF FoldInv, Page
    <3>5. FoldsKnown /\ \A j \in tasks : j.who \in Folding => j = k
      BY <1>1, <1>5, <1>7, <1>9
    <3>6. fs = db.folders
      BY <1>1, <1>9, <2>6, <3>1, <3>5 DEF FoldsKnown, Got
    <3>7. \A j \in tasks' : j.who \notin Folding
      BY <2>6, <3>5 DEF Then
    <3> QED
      BY <1>1, <1>5, <3>3, <3>6, <3>7 DEF FoldsKnown, ClosedIn
  <2> QED
    BY <2>1, <2>2, <2>4, <2>5, <2>6, Zenon DEF ResumeFolders
<1> QED
  BY <1>1, <1>6, <1>8, <1>9

LEMMA FoldNext ==
    ASSUME WorldKnown, ChainsKnown, FoldInv, [Next]_vars
    PROVE  FoldInv'
<1>1. setup' = setup
  BY WorldNext
<1> SUFFICES ASSUME Page = "home" PROVE FoldInv'
  BY <1>1 DEF FoldInv, Page
<1>2. DOMAIN ui = {"mounted", "gen", "tests", "folders", "closed", "selected", "running", "prompt"}
  BY DEF WorldKnown, Signals
<1>3. ui.closed \subseteq DOMAIN ui.folders /\ ui.prompt.mode \in {"none", "create", "rename"}
  BY DEF FoldInv
<1>4. CASE UNCHANGED vars
  <2>1. UNCHANGED << setup, db, ui, tasks, hist >>
    BY <1>4 DEF vars
  <2>2. ui'.folders = ui.folders /\ ui'.closed = ui.closed /\ ui'.prompt = ui.prompt /\ (Alone' => Alone)
    BY <2>1, SameAlone
  <2> QED
    BY <1>3, <2>1, <2>2, FoldStay
<1>5. CASE UserStep
  BY <1>5, UserFolds DEF UserStep
<1>6. CASE Leave
  <2>1. PICK what : what = [mounted |-> FALSE] /\ Set(what)
    BY <1>6 DEF Leave
  <2>2. DOMAIN what = {"mounted"}
    BY <2>1
  <2>3. ui'.folders = ui.folders /\ ui'.closed = ui.closed /\ ui'.prompt = ui.prompt
    BY <1>2, <2>1, <2>2, SetParts
  <2>4. UNCHANGED << setup, db, hist >> /\ tasks' = {k \in tasks : k.at # "timer"}
    BY <1>6 DEF Leave
  <2>5. \A j : j.who \in Folding => (j \in tasks' <=> j \in tasks)
    BY <2>4, HomeTasks DEF Folding
  <2>6. Alone' => Alone
    BY <2>4, SameAlone
  <2> QED
    BY <1>3, <2>3, <2>4, <2>5, <2>6, FoldStay
<1>7. ASSUME NEW who, Tick(who) PROVE FoldInv'
  <2>1. UNCHANGED << setup, db, ui, count, hist >> /\ who \in Pollers
    BY <1>7, TickTasks
  <2>2. PICK k \in tasks : k.who = who /\ Then(k, {Ask(who, k.gen)})
    BY <1>7, TickTasks
  <2>3. PICK new : new = Ask(who, k.gen)
    OBVIOUS
  <2>4. new.who = who
    BY <2>3, Tasks DEF Ask
  <2>5. \A j : j.who \in Folding => (j \in tasks' <=> j \in tasks)
    BY <2>1, <2>2, <2>3, <2>4 DEF Then, Folding, Pollers
  <2>6. ui'.folders = ui.folders /\ ui'.closed = ui.closed /\ ui'.prompt = ui.prompt /\ (Alone' => Alone)
    BY <2>1, SameAlone
  <2> QED
    BY <1>3, <2>1, <2>5, <2>6, FoldStay
<1>8. CASE OthersStep
  <2>1. UNCHANGED << setup, ui, tasks >>
    BY <1>8, OthersSteps
  <2>2. ui'.folders = ui.folders /\ ui'.closed = ui.closed /\ ui'.prompt = ui.prompt
    BY <2>1
  <2>3. CASE \E x : db' = Effect("setCollapsed", x, db) /\ hist'.mixed = TRUE
    <3>1. ~ Alone'
      BY <2>3 DEF Alone
    <3> QED
      BY <1>3, <2>1, <2>2, <3>1 DEF FoldInv, Page
  <2>4. ASSUME db'.folders = db.folders, hist'.mixed = hist.mixed PROVE FoldInv'
    <3>4. hist' = [hist EXCEPT !.mixed = hist'.mixed, !.wrote = hist'.wrote, !.again = hist'.again]
      BY <1>8, OthersSteps
    <3>1. PICK b, n, g : hist' = [hist EXCEPT !.mixed = b, !.wrote = n, !.again = g]
      BY <3>4
    <3>2. hist'.lost = hist.lost
      BY <3>1 DEF WorldKnown
    <3>3. Alone' => Alone
      BY <2>4, <3>2 DEF Alone
    <3> QED
      BY <1>3, <2>1, <2>2, <2>4, <3>3, FoldStay
  <2>5. CASE Works(db, db') /\ hist'.mixed = hist.mixed
    BY <2>4, <2>5, WorksKnown DEF WorldKnown
  <2>6. ASSUME NEW ask \in {"create", "removeTest", "removeRun", "move"}, NEW x, db' = Effect(ask, x, db), hist'.mixed = hist.mixed
        PROVE  FoldInv'
    BY <2>4, <2>6, EffectKnown DEF WorldKnown
  <2> QED
    BY <1>8, <2>3, <2>5, <2>6, OthersSteps
<1> QED
  BY <1>4, <1>5, <1>6, <1>7, <1>8, Steps, ServeFolds, BreakFolds, ResumeFoldsInv

LEMMA FoldFirst == Init => FoldInv
<1> SUFFICES ASSUME Init, Page = "home" PROVE FoldInv
  BY DEF FoldInv
<1>1. PICK fs : fs = setup.db.folders
  OBVIOUS
<1>2. PICK p : p = [mode |-> "none"]
  OBVIOUS
<1>3. /\ ui.folders = fs /\ ui.closed = ClosedIn(fs) /\ ui.prompt = p
      /\ tasks = {Task("poll", 1, {"tests"}, None)} /\ db.folders = fs
  BY <1>1, <1>2 DEF Init, Page, Opened, FirstTasks, ClosedIn
<1>4. PICK k : k = Task("poll", 1, {"tests"}, None)
  OBVIOUS
<1>5. k.who = "poll" /\ tasks = {k}
  BY <1>3, <1>4, Tasks
<1>6. p.mode = "none" /\ ClosedIn(fs) \subseteq DOMAIN fs
  BY <1>2 DEF ClosedIn
<1>7. {"unfile", "prompt", "toggle"} = Folding
  BY DEF Folding
<1>8. FoldsKnown
  BY <1>3, <1>5, <1>7 DEF FoldsKnown
<1> QED
  BY <1>3, <1>6, <1>8 DEF FoldInv

-----------------------------------------------------------------------------
(* The types of the signals. *)
LEMMA NowSignalsNext ==
    ASSUME WorldKnown, ChainsKnown, NowSignals, [Next]_vars
    PROVE  NowSignals'
<1>1. setup' = setup
  BY WorldNext
<1> SUFFICES ASSUME Page = "now" PROVE ui'.starting \in BOOLEAN /\ ui'.active \in Nat
  BY <1>1 DEF NowSignals, Page
<1>2. DOMAIN ui = {"mounted", "gen", "active", "starting"} /\ ui.starting \in BOOLEAN /\ ui.active \in Nat
  BY DEF WorldKnown, Signals, NowSignals
<1>3. CASE ui' = ui
  BY <1>2, <1>3
<1>4. ASSUME NEW what, Set(what), DOMAIN what \subseteq {"mounted", "gen", "active", "starting"},
             "active" \in DOMAIN what => what.active \in Nat, "starting" \in DOMAIN what => what.starting \in BOOLEAN
      PROVE  ui'.starting \in BOOLEAN /\ ui'.active \in Nat
  BY <1>2, <1>4, SetParts
<1>5. CASE UserStep
  <2>1. PICK what : what = [starting |-> TRUE] /\ Set(what)
    BY <1>5 DEF UserStep, PressRunNow
  <2>2. DOMAIN what = {"starting"} /\ what.starting = TRUE
    BY <2>1
  <2> QED
    BY <1>4, <2>1, <2>2
<1>6. CASE Leave
  <2>1. PICK what : what = [mounted |-> FALSE] /\ Set(what)
    BY <1>6 DEF Leave
  <2>2. DOMAIN what = {"mounted"}
    BY <2>1
  <2> QED
    BY <1>4, <2>1, <2>2
<1>7. ASSUME NEW who, NEW k \in tasks, Continue(who, k) PROVE ui'.starting \in BOOLEAN /\ ui'.active \in Nat
  <2>1. TaskKnown(k) /\ k.who \in {"now", "press"} /\ k.who = who
    BY <1>7, NowTasks DEF Continue
  <2>2. CASE who = "now"
    <3>1. ResumeNow(k)
      BY <1>7, <2>2 DEF Continue
    <3>2. ASSUME Answered(k), Rest(k) # {}, Set([active |-> ActiveIn(k.got.runs)]) PROVE ui'.starting \in BOOLEAN /\ ui'.active \in Nat
      <4>1. PICK n : n = ActiveIn(k.got.runs)
        OBVIOUS
      <4>2. "runs" \in DOMAIN k.got
        BY <2>1, <2>2, <3>2, NowTasks DEF Answered
      <4>3. n \in Nat
        BY <2>1, <4>1, <4>2, ActiveCount DEF TaskKnown
      <4>4. PICK what : what = [active |-> n] /\ Set(what)
        BY <3>2, <4>1
      <4>5. DOMAIN what = {"active"} /\ what.active = n
        BY <4>4
      <4> QED
        BY <1>4, <4>3, <4>4, <4>5
    <3> QED
      BY <1>3, <3>1, <3>2 DEF ResumeNow
  <2>3. CASE who = "press"
    <3>1. ResumePress(k)
      BY <1>7, <2>3 DEF Continue
    <3>2. CASE Set([starting |-> FALSE])
      <4>1. PICK what : what = [starting |-> FALSE] /\ Set(what)
        BY <3>2
      <4>2. DOMAIN what = {"starting"} /\ what.starting = FALSE
        BY <4>1
      <4> QED
        BY <1>4, <4>1, <4>2
    <3>3. CASE Set([starting |-> FALSE, active |-> ui.active + 1, gen |-> Bump("now")])
      <4>1. PICK n, gen : n = ui.active + 1 /\ gen = Bump("now")
        OBVIOUS
      <4>2. PICK what : what = [starting |-> FALSE, active |-> n, gen |-> gen] /\ Set(what)
        BY <3>3, <4>1
      <4>3. DOMAIN what = {"starting", "active", "gen"} /\ what.starting = FALSE /\ what.active = n
        BY <4>2
      <4>4. n \in Nat
        BY <1>2, <4>1
      <4> QED
        BY <1>4, <4>2, <4>3, <4>4
    <3> QED
      BY <3>1, <3>2, <3>3 DEF ResumePress
  <2> QED
    BY <2>1, <2>2, <2>3
<1>8. ASSUME NEW who, Tick(who) \/ Serve(who) PROVE ui' = ui
  BY <1>8 DEF Tick, Serve
<1> QED
  BY <1>3, <1>5, <1>6, <1>7, <1>8, Steps, BreakSteps, OthersSteps DEF vars

LEMMA NowSignalsFirst == Init => NowSignals
<1> SUFFICES ASSUME Init, Page = "now" PROVE ui.starting \in BOOLEAN /\ ui.active \in Nat
  BY DEF NowSignals
<1>1. ui.starting = FALSE /\ ui.active = 0
  BY DEF Init, Page, Opened
<1>2. ui.starting \in BOOLEAN
  BY <1>1, Zenon
<1> QED
  BY <1>1, <1>2

LEMMA Typed == WorldKnown /\ ChainsKnown /\ NowSignals /\ BatchInv /\ FoldInv /\ ReloadInv /\ SettingsInv => TypeOK
<1> SUFFICES ASSUME WorldKnown, ChainsKnown, NowSignals, BatchInv, FoldInv, ReloadInv, SettingsInv PROVE TypeOK
  OBVIOUS
<1>1. ASSUME NEW k \in tasks
      PROVE  k.who \in Who /\ k.at \in {"timer", "sent", "error"} /\ (k.at = "timer" => k.asks = {})
  <2>1. TaskKnown(k) /\ Page \in {"home", "now", "recent", "run", "settings"}
    BY SetupsAssumption DEF ChainsKnown, WorldKnown, Page
  <2>2. k.who \in Who
    BY <2>1 DEF TaskKnown, WhoOn, Who
  <2> QED
    BY <2>1, <2>2 DEF TaskKnown
<1>2. Page = "home" => /\ ui.closed \subseteq DOMAIN ui.folders /\ ui.running \in BOOLEAN
                       /\ ui.prompt.mode \in {"none", "create", "rename"}
  BY DEF BatchInv, FoldInv
<1>3. Page = "now" => ui.active \in Nat /\ ui.starting \in BOOLEAN
  BY DEF NowSignals
<1>4. Page = "run" => ui.rows \in Nat /\ ui.busy \in BOOLEAN
  BY DEF ReloadInv
<1>5. Page = "settings" => DOMAIN ui.form \subseteq DOMAIN Empty
  BY DEF SettingsInv
<1> QED
  BY <1>1, <1>2, <1>3, <1>4, <1>5 DEF TypeOK

(* A page polls along one chain, loads itself again only for something new, folds as the
   server has it, and saves no setting that was not edited. *)
THEOREM PagesSafe == Spec => []PagesInv
<1>1. Init => PagesKnown
  BY WorldFirst, ChainsFirst, NowSignalsFirst, BatchFirst, FoldFirst, ReloadFirst, SettingsFirst DEF PagesKnown
<1>2. PagesKnown /\ [Next]_vars => PagesKnown'
  BY WorldNext, ChainsNext, NowSignalsNext, BatchNext, FoldNext, ReloadNext, SettingsNext DEF PagesKnown
<1>3. PagesKnown => TypeOK /\ OneChain
  BY Typed, ChainIsOne DEF PagesKnown
<1>4. PagesKnown => ReloadsAccounted /\ FoldsAgree /\ SettingsKept
  BY DEF PagesKnown, ReloadInv, ReloadsAccounted, FoldInv, FoldsAgree, FoldsKnown, Alone, ClosedIn, SettingsInv, SettingsKept, Keeps
<1>5. PagesKnown => PagesInv
  BY <1>3, <1>4 DEF PagesInv
<1> QED
  BY <1>1, <1>2, <1>5, PTL DEF Spec
=============================================================================
