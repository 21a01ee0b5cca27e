------------------------ MODULE TestLifecycleProofs ------------------------
(***************************************************************************)
(* Theorems about TestLifecycle, for every library of actions, every form, *)
(* every text, row and secret, and any number of edits and saves.          *)
(***************************************************************************)
EXTENDS TestLifecycle, FiniteSetTheorems, SequenceTheorems, WellFoundedInduction, TLAPS

-----------------------------------------------------------------------------
(* Records that are merged and lists. *)

LEMMA Merged ==
    ASSUME NEW f, NEW g
    PROVE  /\ \A x : x \in DOMAIN (f ++ g) <=> x \in DOMAIN f \/ x \in DOMAIN g
           /\ \A x : x \in DOMAIN f => (f ++ g)[x] = f[x]
           /\ \A x : x \in DOMAIN g /\ x \notin DOMAIN f => (f ++ g)[x] = g[x]
BY DEF ++

LEMMA Entered ==
    ASSUME NEW k, NEW v, NEW g
    PROVE  /\ \A x : x \in DOMAIN (Entry(k, v) ++ g) <=> x = k \/ x \in DOMAIN g
           /\ (Entry(k, v) ++ g)[k] = v
           /\ \A x : x \in DOMAIN g /\ x # k => (Entry(k, v) ++ g)[x] = g[x]
BY DEF ++, Entry

LEMMA ListDomain ==
    ASSUME NEW l, IsList(l)
    PROVE  Len(l) \in Nat /\ DOMAIN l = 1 .. Len(l) /\ l = [i \in 1 .. Len(l) |-> l[i]]
BY DEF IsList

LEMMA ListOf ==
    ASSUME NEW S, NEW l \in Seq(S)
    PROVE  IsList(l) /\ ToSet(l) \subseteq S
<1>1. l \in [1 .. Len(l) -> S] /\ Len(l) \in Nat
  OBVIOUS
<1>2. ToSet(l) \subseteq S
  BY <1>1 DEF ToSet
<1>3. l \in [1 .. Len(l) -> ToSet(l)]
  BY <1>1 DEF ToSet
<1>4. l \in Seq(ToSet(l))
  BY <1>1, <1>3
<1> QED
  BY <1>2, <1>4 DEF IsList

LEMMA FunctionList ==
    ASSUME NEW n \in Nat, NEW l, l = [i \in 1 .. n |-> l[i]]
    PROVE  IsList(l) /\ Len(l) = n /\ DOMAIN l = 1 .. n
<1>1. l \in [1 .. n -> {l[i] : i \in 1 .. n}]
  OBVIOUS
<1>2. l \in Seq({l[i] : i \in 1 .. n})
  BY <1>1
<1> QED
  BY <1>1, <1>2, ListOf

LEMMA EmptyList == IsList(<< >>) /\ DOMAIN << >> = {}
<1>1. << >> \in Seq({}) /\ Len(<< >>) = 0
  OBVIOUS
<1>2. IsList(<< >>)
  BY <1>1, ListOf
<1> QED
  BY <1>1, <1>2, ListDomain

LEMMA AppendList ==
    ASSUME NEW l, IsList(l), NEW x
    PROVE  /\ IsList(Append(l, x)) /\ Len(Append(l, x)) = Len(l) + 1
           /\ DOMAIN Append(l, x) = 1 .. Len(l) + 1
           /\ \A i \in 1 .. Len(l) : Append(l, x)[i] = l[i]
           /\ Append(l, x)[Len(l) + 1] = x
<1> DEFINE S == ToSet(l) \cup {x}
<1>1. l \in Seq(S)
  BY DEF IsList
<1> HIDE DEF S
<1>2. x \in S
  BY DEF S
<1>3. Append(l, x) \in Seq(S) /\ Len(Append(l, x)) = Len(l) + 1
  BY <1>1, <1>2
<1>4. IsList(Append(l, x))
  BY <1>3, ListOf
<1>5. DOMAIN Append(l, x) = 1 .. Len(l) + 1
  BY <1>3, <1>4, ListDomain
<1>6. (\A i \in 1 .. Len(l) : Append(l, x)[i] = l[i]) /\ Append(l, x)[Len(l) + 1] = x
  BY <1>1, <1>2
<1> QED
  BY <1>3, <1>4, <1>5, <1>6

LEMMA JoinedIn ==
    ASSUME NEW S, NEW l \in Seq(S), NEW m \in Seq(S)
    PROVE  l \o m \in Seq(S)
OBVIOUS

LEMMA JoinedList ==
    ASSUME NEW l, IsList(l), NEW m, IsList(m)
    PROVE  IsList(l \o m) /\ ToSet(l \o m) \subseteq ToSet(l) \cup ToSet(m)
<1> DEFINE S == ToSet(l) \cup ToSet(m)
<1>1. l \in Seq(S) /\ m \in Seq(S)
  BY DEF IsList
<1> HIDE DEF S
<1>2. l \o m \in Seq(S)
  BY <1>1, JoinedIn
<1> QED
  BY <1>2, ListOf DEF S

LEMMA RemovedList ==
    ASSUME NEW l, IsList(l), NEW n \in DOMAIN l
    PROVE  /\ IsList(RemoveAt(l, n))
           /\ \A i \in DOMAIN RemoveAt(l, n) : \E j \in DOMAIN l : RemoveAt(l, n)[i] = l[j]
<1>1. l \in Seq(ToSet(l)) /\ Len(l) \in Nat /\ DOMAIN l = 1 .. Len(l)
  BY ListDomain DEF IsList
<1>2. SubSeq(l, 1, n - 1) \in Seq(ToSet(l)) /\ SubSeq(l, n + 1, Len(l)) \in Seq(ToSet(l))
  BY <1>1, SubSeqProperties
<1>3. RemoveAt(l, n) \in Seq(ToSet(l))
  BY <1>2 DEF RemoveAt
<1>4. IsList(RemoveAt(l, n)) /\ ToSet(RemoveAt(l, n)) \subseteq ToSet(l)
  BY <1>3, ListOf
<1> QED
  BY <1>4 DEF ToSet

LEMMA ChangedList ==
    ASSUME NEW l, IsList(l), NEW n \in DOMAIN l, NEW x
    PROVE  IsList([l EXCEPT ![n] = x]) /\ DOMAIN [l EXCEPT ![n] = x] = DOMAIN l
           /\ \A i \in DOMAIN l : [l EXCEPT ![n] = x][i] = IF i = n THEN x ELSE l[i]
<1>1. Len(l) \in Nat /\ DOMAIN l = 1 .. Len(l) /\ l = [i \in 1 .. Len(l) |-> l[i]]
  BY ListDomain
<1> DEFINE m == [l EXCEPT ![n] = x]
<1>2. m = [i \in 1 .. Len(l) |-> IF i = n THEN x ELSE l[i]]
  BY <1>1
<1>3. m = [i \in 1 .. Len(l) |-> m[i]] /\ \A i \in DOMAIN l : m[i] = IF i = n THEN x ELSE l[i]
  BY <1>1, <1>2
<1> HIDE DEF m
<1>4. IsList(m) /\ DOMAIN m = DOMAIN l
  BY <1>1, <1>3, FunctionList
<1> QED
  BY <1>3, <1>4 DEF m


LEMMA MinNat ==
    ASSUME NEW S, S \subseteq Nat, S # {}
    PROVE  \E x \in S : \A y \in S : x <= y
<1> DEFINE R == OpToRel(<, Nat)
<1>1. IsWellFoundedOn(R, Nat)
  BY NatLessThanWellFounded
<1>2. \A x, y \in Nat : y < x => << y, x >> \in R
  BY DEF OpToRel
<1> HIDE DEF R
<1>3. PICK x \in S : \A y \in S : ~ (<< y, x >> \in R)
  BY <1>1, WFMin
<1>4. \A y \in S : ~ (y < x) /\ x \in Nat /\ y \in Nat
  BY <1>2, <1>3
<1> QED
  BY <1>3, <1>4

(* The function that FlattenSeq computes with exists, however many lists there are. *)
LEMMA FlatteningExists ==
    ASSUME NEW seqs, NEW n \in Nat
    PROVE  \E f : f = [i \in 1 .. n |-> IF i = 1 THEN seqs[i] ELSE f[i - 1] \o seqs[i]]
<1> DEFINE Is(f, m) == f = [i \in 1 .. m |-> IF i = 1 THEN seqs[i] ELSE f[i - 1] \o seqs[i]]
           Bad == {m \in Nat : ~ \E f : Is(f, m)}
<1>1. SUFFICES ASSUME Bad # {} PROVE FALSE
  OBVIOUS
<1>2. PICK m \in Bad : \A k \in Bad : m <= k
  <2> HIDE DEF Is
  <2>1. Bad \subseteq Nat
    OBVIOUS
  <2> HIDE DEF Bad
  <2> QED
    BY <1>1, <2>1, MinNat
<1>3. CASE m = 0
  <2> DEFINE g == [i \in 1 .. 0 |-> 0]
  <2>1. g = [i \in 1 .. 0 |-> IF i = 1 THEN seqs[i] ELSE g[i - 1] \o seqs[i]]
    <3>1. 1 .. 0 = {}
      OBVIOUS
    <3> QED
      BY <3>1
  <2>2. Is(g, m)
    BY <2>1, <1>3
  <2> HIDE DEF g
  <2> QED
    BY <1>2, <2>2
<1>4. CASE m # 0
  <2>1. m - 1 \in Nat /\ m \in Nat
    BY <1>2, <1>4
  <2>2. m - 1 \notin Bad
    <3>1. ~ (m <= m - 1)
      BY <2>1
    <3> HIDE DEF Bad
    <3> QED
      BY <1>2, <3>1
  <2>3. PICK g : Is(g, m - 1)
    BY <2>1, <2>2
  <2> DEFINE h == [i \in 1 .. m |-> IF i < m THEN g[i] ELSE IF i = 1 THEN seqs[i] ELSE g[i - 1] \o seqs[i]]
  <2>4. \A i \in 1 .. m : h[i] = IF i = 1 THEN seqs[i] ELSE h[i - 1] \o seqs[i]
    <3> TAKE i \in 1 .. m
    <3>1. CASE i = 1 /\ i < m
      <4>1. i \in 1 .. m - 1 /\ h[i] = g[i]
        BY <3>1, <2>1
      <4> QED
        BY <4>1, <3>1, <2>3
    <3>2. CASE i = 1 /\ ~ (i < m)
      BY <3>2
    <3>3. CASE i # 1 /\ i < m
      <4>1. i \in 1 .. m - 1 /\ i - 1 \in 1 .. m - 1 /\ i - 1 \in 1 .. m /\ i - 1 < m
        BY <3>3, <2>1
      <4>2. h[i] = g[i] /\ h[i - 1] = g[i - 1]
        BY <4>1, <3>3
      <4>3. g[i] = g[i - 1] \o seqs[i]
        BY <4>1, <3>3, <2>3
      <4> QED
        BY <4>2, <4>3, <3>3
    <3>4. CASE i # 1 /\ ~ (i < m)
      <4>1. i = m /\ i - 1 \in 1 .. m /\ i - 1 < m
        BY <3>4, <2>1
      <4>2. h[i - 1] = g[i - 1]
        BY <4>1
      <4> QED
        BY <4>1, <4>2, <3>4
    <3> QED
      BY <3>1, <3>2, <3>3, <3>4
  <2>5. h = [i \in 1 .. m |-> h[i]]
    OBVIOUS
  <2> HIDE DEF h
  <2>6. Is(h, m)
    BY <2>4, <2>5
  <2> QED
    BY <1>2, <2>6
<1> QED
  BY <1>3, <1>4

(* FlattenSeq gives a list of the elements of the lists. *)
LEMMA Flattened ==
    ASSUME NEW S, NEW seqs \in Seq(Seq(S))
    PROVE  FlattenSeq(seqs) \in Seq(S)
<1>0. CASE seqs = << >>
  <2>1. FlattenSeq(seqs) = << >>
    BY <1>0 DEF FlattenSeq
  <2> QED
    BY <2>1
<1> SUFFICES ASSUME seqs # << >> PROVE FlattenSeq(seqs) \in Seq(S)
  BY <1>0
<1> DEFINE n == Len(seqs)
<1>1. n \in Nat /\ n # 0 /\ \A i \in 1 .. n : seqs[i] \in Seq(S)
  OBVIOUS
<1>2. \E f : f = [i \in 1 .. n |-> IF i = 1 THEN seqs[i] ELSE f[i - 1] \o seqs[i]]
  <2> HIDE DEF n
  <2> QED
    BY <1>1, FlatteningExists
<1> DEFINE flatten[i \in 1 .. n] == IF i = 1 THEN seqs[i] ELSE flatten[i - 1] \o seqs[i]
<1>3. FlattenSeq(seqs) = flatten[n]
  BY <1>1 DEF FlattenSeq
<1>4. flatten = [i \in 1 .. n |-> IF i = 1 THEN seqs[i] ELSE flatten[i - 1] \o seqs[i]]
  BY <1>2, Zenon
<1> HIDE DEF flatten, n
<1> DEFINE Bad == {i \in 1 .. n : flatten[i] \notin Seq(S)}
<1>5. Bad = {}
  <2>1. SUFFICES ASSUME Bad # {} PROVE FALSE
    OBVIOUS
  <2>2. PICK m \in Bad : \A k \in Bad : m <= k
    <3>1. Bad \subseteq Nat
      BY <1>1
    <3> HIDE DEF Bad
    <3> QED
      BY <2>1, <3>1, MinNat
  <2>3. m \in 1 .. n /\ flatten[m] \notin Seq(S)
    BY <2>2
  <2>4. CASE m = 1
    BY <1>1, <1>4, <2>3, <2>4
  <2>5. CASE m # 1
    <3>1. m - 1 \in 1 .. n /\ ~ (m <= m - 1)
      BY <2>3, <2>5, <1>1
    <3>2. flatten[m - 1] \in Seq(S)
      BY <2>2, <3>1
    <3>3. flatten[m] = flatten[m - 1] \o seqs[m]
      BY <1>4, <2>3, <2>5
    <3>4. seqs[m] \in Seq(S)
      BY <1>1, <2>3
    <3>5. flatten[m - 1] \o seqs[m] \in Seq(S)
      BY ONLY <3>2, <3>4, JoinedIn
    <3> QED
      BY <3>3, <3>5, <2>3
  <2> QED
    BY <2>4, <2>5
<1> QED
  BY <1>1, <1>3, <1>5

-----------------------------------------------------------------------------
(* The expansion of references, to any depth. *)

(* What an action expands to at one level, given what all do at the next. *)
Level(acts, deeper) ==
    [a \in DOMAIN acts |-> FlattenSeq([i \in DOMAIN acts[a] |-> Inline(acts[a][i], deeper)])]
Bottom(acts) == [a \in DOMAIN acts |-> << TooDeep >>]

LEMMA LevelsExist ==
    ASSUME NEW acts, NEW k \in Nat
    PROVE  \E f : f = [d \in MaxDepth + 1 - k .. MaxDepth + 1 |->
                          IF d > MaxDepth THEN Bottom(acts) ELSE Level(acts, f[d + 1])]
<1> DEFINE Is(f, m) == f = [d \in MaxDepth + 1 - m .. MaxDepth + 1 |->
                               IF d > MaxDepth THEN Bottom(acts) ELSE Level(acts, f[d + 1])]
           Bad == {m \in Nat : ~ \E f : Is(f, m)}
<1> USE DepthAssumption
<1>1. SUFFICES ASSUME Bad # {} PROVE FALSE
  OBVIOUS
<1>2. PICK m \in Bad : \A j \in Bad : m <= j
  <2> HIDE DEF Is
  <2>1. Bad \subseteq Nat
    OBVIOUS
  <2> HIDE DEF Bad
  <2> QED
    BY <1>1, <2>1, MinNat
<1>3. CASE m = 0
  <2> DEFINE g == [d \in MaxDepth + 1 .. MaxDepth + 1 |-> Bottom(acts)]
  <2>1. \A d \in MaxDepth + 1 .. MaxDepth + 1 : d > MaxDepth
    OBVIOUS
  <2>2. g = [d \in MaxDepth + 1 - 0 .. MaxDepth + 1 |-> IF d > MaxDepth THEN Bottom(acts) ELSE Level(acts, g[d + 1])]
    BY <2>1
  <2>3. Is(g, m)
    BY <2>2, <1>3
  <2> HIDE DEF g
  <2> QED
    BY <1>2, <2>3
<1>4. CASE m # 0
  <2>1. m - 1 \in Nat /\ m \in Nat /\ ~ (m <= m - 1)
    BY <1>2, <1>4
  <2>2. m - 1 \notin Bad
    <3> HIDE DEF Bad
    <3> QED
      BY <1>2, <2>1
  <2>3. PICK g : Is(g, m - 1)
    BY <2>1, <2>2
  <2> DEFINE low == MaxDepth + 1 - m
             h == [d \in low .. MaxDepth + 1 |->
                     IF d > low THEN g[d] ELSE IF d > MaxDepth THEN Bottom(acts) ELSE Level(acts, g[d + 1])]
  <2>4. low \in Int /\ low + 1 = MaxDepth + 1 - (m - 1) /\ low < MaxDepth + 1
    BY <2>1, <1>4
  <2>5. ASSUME NEW d \in low .. MaxDepth + 1
        PROVE  h[d] = IF d > MaxDepth THEN Bottom(acts) ELSE Level(acts, h[d + 1])
    <3> HIDE DEF low
    <3>1. CASE d > low /\ d > MaxDepth
      <4>1. d \in low + 1 .. MaxDepth + 1
        BY <3>1, <2>4
      <4> QED
        BY <4>1, <3>1, <2>3, <2>4
    <3>2. CASE d > low /\ ~ (d > MaxDepth)
      <4>1. d \in low + 1 .. MaxDepth + 1 /\ d + 1 \in low .. MaxDepth + 1 /\ d + 1 > low
        BY <3>2, <2>4
      <4>2. h[d] = g[d] /\ h[d + 1] = g[d + 1]
        BY <4>1, <3>2
      <4>3. g[d] = Level(acts, g[d + 1])
        BY <4>1, <3>2, <2>3, <2>4
      <4> QED
        BY <4>2, <4>3, <3>2
    <3>3. CASE ~ (d > low)
      <4>1. d = low /\ ~ (d > MaxDepth) /\ d + 1 \in low .. MaxDepth + 1 /\ d + 1 > low
        BY <3>3, <2>4
      <4>2. h[d + 1] = g[d + 1] /\ h[d] = Level(acts, g[d + 1])
        BY <4>1
      <4> QED
        BY <4>1, <4>2
    <3> QED
      BY <3>1, <3>2, <3>3
  <2>6. h = [d \in low .. MaxDepth + 1 |-> h[d]]
    OBVIOUS
  <2> HIDE DEF h
  <2>7. Is(h, m)
    BY <2>5, <2>6
  <2> QED
    BY <1>2, <2>7
<1> QED
  BY <1>3, <1>4

(* What a plan may be made of: the steps of the actions that are no references, and
   those with the condition of a reference to it. *)
StepsIn(lists) == UNION {ToSet(lists[a]) : a \in DOMAIN lists}
BareIn(lists)  == {TooDeep} \cup {s \in StepsIn(lists) : s.type # "actionRef"}
GatesIn(lists) == {s.condition : s \in {s \in StepsIn(lists) : Has(s, "condition")}}
PartsIn(lists) ==
    BareIn(lists) \cup {s ++ [condition |-> c] : s \in {s \in BareIn(lists) : ~ Has(s, "condition")}, c \in GatesIn(lists)}

LEMMA CarriedPart ==
    ASSUME NEW lists, NEW s \in StepsIn(lists), NEW p \in PartsIn(lists)
    PROVE  Carried(s, p) \in PartsIn(lists)
<1>1. CASE ~ (Has(s, "condition") /\ ~ Has(p, "condition"))
  BY <1>1 DEF Carried
<1>2. CASE Has(s, "condition") /\ ~ Has(p, "condition")
  <2>1. s.condition \in GatesIn(lists)
    BY <1>2 DEF GatesIn
  <2>2. p \in BareIn(lists)
    <3>1. SUFFICES ASSUME p \notin BareIn(lists) PROVE FALSE
      OBVIOUS
    <3>2. PICK b \in BareIn(lists), c \in GatesIn(lists) : p = b ++ [condition |-> c]
      BY <3>1 DEF PartsIn
    <3>3. "condition" \in DOMAIN (b ++ [condition |-> c])
      BY DEF ++
    <3> QED
      BY <3>2, <3>3, <1>2 DEF Has
  <2>3. Carried(s, p) = p ++ [condition |-> s.condition]
    BY <1>2 DEF Carried
  <2> QED
    BY <2>1, <2>2, <2>3, <1>2 DEF PartsIn
<1> QED
  BY <1>1, <1>2

LEMMA InlinePart ==
    ASSUME NEW lists, NEW s \in StepsIn(lists),
           NEW deeper, \A a \in DOMAIN deeper : deeper[a] \in Seq(PartsIn(lists))
    PROVE  Inline(s, deeper) \in Seq(PartsIn(lists))
<1> DEFINE P == PartsIn(lists)
<1>1. CASE s.type # "actionRef"
  <2>1. s \in P
    BY <1>1 DEF PartsIn, BareIn
  <2> QED
    BY <1>1, <2>1 DEF Inline
<1>2. CASE s.type = "actionRef" /\ s.actionId \notin DOMAIN deeper
  BY <1>2 DEF Inline
<1>3. CASE s.type = "actionRef" /\ s.actionId \in DOMAIN deeper
  <2> DEFINE l == deeper[s.actionId]
  <2>1. l \in Seq(P)
    BY <1>3
  <2>2. Inline(s, deeper) = [i \in DOMAIN l |-> Carried(s, l[i])]
    BY <1>3 DEF Inline
  <2> HIDE DEF l, P
  <2>3. DOMAIN l = 1 .. Len(l) /\ Len(l) \in Nat /\ \A i \in 1 .. Len(l) : l[i] \in P
    BY <2>1
  <2>4. \A i \in 1 .. Len(l) : Carried(s, l[i]) \in P
    BY <2>3, CarriedPart DEF P
  <2>5. [i \in DOMAIN l |-> Carried(s, l[i])] \in Seq(P)
    BY <2>3, <2>4
  <2> QED
    BY <2>2, <2>5 DEF P
<1> QED
  BY <1>1, <1>2, <1>3

LEMMA LevelParts ==
    ASSUME NEW lists, \A a \in DOMAIN lists : IsList(lists[a]),
           NEW deeper, \A a \in DOMAIN deeper : deeper[a] \in Seq(PartsIn(lists)),
           NEW a \in DOMAIN lists
    PROVE  Level(lists, deeper)[a] \in Seq(PartsIn(lists))
<1> DEFINE l == lists[a]
           seqs == [i \in DOMAIN l |-> Inline(l[i], deeper)]
<1>1. IsList(l)
  OBVIOUS
<1>2. Len(l) \in Nat /\ DOMAIN l = 1 .. Len(l)
  <2> HIDE DEF l
  <2> QED
    BY <1>1, ListDomain
<1>3. \A i \in DOMAIN l : l[i] \in StepsIn(lists)
  BY DEF StepsIn, ToSet
<1>4. \A i \in DOMAIN l : Inline(l[i], deeper) \in Seq(PartsIn(lists))
  <2> HIDE DEF l
  <2> QED
    BY <1>3, InlinePart
<1>5. Level(lists, deeper)[a] = FlattenSeq(seqs)
  BY DEF Level
<1> HIDE DEF l
<1>6. seqs \in Seq(Seq(PartsIn(lists)))
  BY <1>2, <1>4
<1> HIDE DEF seqs
<1> QED
  BY <1>5, <1>6, Flattened

(* At every level an action expands to such parts. *)
LEMMA Expanded ==
    ASSUME NEW steps, NEW acts, \A a \in DOMAIN acts : IsList(acts[a])
    PROVE  \E sub : /\ ExpandActions(steps, acts) = FlattenSeq([i \in DOMAIN steps |-> Inline(steps[i], sub)])
                    /\ DOMAIN sub = DOMAIN acts
                    /\ \A a \in DOMAIN acts : sub[a] \in Seq(PartsIn(acts))
<1> USE DepthAssumption
<1> DEFINE n == MaxDepth + 1
           sub[depth \in 1 .. n] ==
               IF depth > MaxDepth THEN [a \in DOMAIN acts |-> << TooDeep >>]
               ELSE [a \in DOMAIN acts |->
                       FlattenSeq([i \in DOMAIN acts[a] |-> Inline(acts[a][i], sub[depth + 1])])]
<1>1. ExpandActions(steps, acts) = FlattenSeq([i \in DOMAIN steps |-> Inline(steps[i], sub[1])])
  BY Zenon DEF ExpandActions
<1>2. \E f : f = [d \in 1 .. n |-> IF d > MaxDepth THEN Bottom(acts) ELSE Level(acts, f[d + 1])]
  <2>1. MaxDepth \in Nat /\ MaxDepth + 1 - MaxDepth = 1
    OBVIOUS
  <2>2. \E f : f = [d \in MaxDepth + 1 - MaxDepth .. MaxDepth + 1 |->
                      IF d > MaxDepth THEN Bottom(acts) ELSE Level(acts, f[d + 1])]
    BY <2>1, LevelsExist
  <2> QED
    BY <2>1, <2>2
<1>3. \E f : f = [depth \in 1 .. n |->
                    IF depth > MaxDepth THEN [a \in DOMAIN acts |-> << TooDeep >>]
                    ELSE [a \in DOMAIN acts |->
                            FlattenSeq([i \in DOMAIN acts[a] |-> Inline(acts[a][i], f[depth + 1])])]]
  BY <1>2, Zenon DEF Bottom, Level
<1>4. sub = [d \in 1 .. n |-> IF d > MaxDepth THEN Bottom(acts) ELSE Level(acts, sub[d + 1])]
  BY <1>3, Zenon DEF Bottom, Level
<1> HIDE DEF sub
<1> DEFINE Good(d) == DOMAIN sub[d] = DOMAIN acts /\ \A a \in DOMAIN acts : sub[d][a] \in Seq(PartsIn(acts))
           Bad == {k \in Nat : k < n /\ ~ Good(n - k)}
<1>5. Bad = {}
  <2>1. SUFFICES ASSUME Bad # {} PROVE FALSE
    OBVIOUS
  <2>2. PICK k \in Bad : \A j \in Bad : k <= j
    <3>1. Bad \subseteq Nat
      OBVIOUS
    <3> HIDE DEF Bad
    <3> QED
      BY <2>1, <3>1, MinNat
  <2>3. k \in Nat /\ k < n /\ ~ Good(n - k) /\ n - k \in 1 .. n
    BY <2>2
  <2>4. CASE k = 0
    <3>1. sub[n - k] = Bottom(acts)
      BY <2>3, <2>4, <1>4
    <3>2. TooDeep \in PartsIn(acts)
      BY DEF PartsIn, BareIn
    <3>3. << TooDeep >> \in Seq(PartsIn(acts))
      BY <3>2
    <3> QED
      BY <3>1, <3>3, <2>3 DEF Bottom
  <2>5. CASE k # 0
    <3>1. k - 1 \in Nat /\ k - 1 < n /\ ~ (k <= k - 1) /\ n - (k - 1) = n - k + 1
      BY <2>3, <2>5
    <3>2. k - 1 \notin Bad
      <4> HIDE DEF Bad
      <4> QED
        BY <2>2, <3>1
    <3>3. Good(n - (k - 1))
      BY <3>1, <3>2
    <3>4. Good(n - k + 1)
      BY <3>1, <3>3
    <3>5. sub[n - k] = Level(acts, sub[n - k + 1])
      <4>1. ~ (n - k > MaxDepth)
        BY <2>3, <2>5
      <4> QED
        BY <4>1, <2>3, <1>4
    <3>6. \A a \in DOMAIN acts : Level(acts, sub[n - k + 1])[a] \in Seq(PartsIn(acts))
      BY <3>4, LevelParts
    <3>7. DOMAIN Level(acts, sub[n - k + 1]) = DOMAIN acts
      BY DEF Level
    <3> QED
      BY <3>5, <3>6, <3>7, <2>3
  <2> QED
    BY <2>4, <2>5
<1>6. MaxDepth \in Nat /\ MaxDepth < n /\ n - MaxDepth = 1
  OBVIOUS
<1>7. Good(1)
  BY <1>5, <1>6
<1> QED
  BY <1>1, <1>7

-----------------------------------------------------------------------------
(* What parsing, cleaning up and editing leave of a step. *)

LEMMA DefaultFields ==
    ASSUME NEW type
    PROVE  DOMAIN For(Defaults, type, << >>) \cap Common = {}
<1>1. CASE type \notin DOMAIN Defaults
  BY <1>1, EmptyList DEF For
<1>2. CASE type \in DOMAIN Defaults
  <2>1. type \in {"waitForLoadState", "assertText", "assertNotText", "assertUrl", "exit", "screenshot", "visualCheck"}
    BY <1>2 DEF Defaults
  <2>2. For(Defaults, type, << >>) = Defaults[type]
    BY <1>2 DEF For
  <2> QED
    BY <2>1, <2>2 DEF Defaults, Common
<1> QED
  BY <1>1, <1>2

LEMMA Restricted ==
    ASSUME NEW f, NEW S
    PROVE  DOMAIN Restrict(f, S) = S /\ \A x \in S : Restrict(f, S)[x] = f[x]
BY DEF Restrict

LEMMA Lacking ==
    ASSUME NEW f, NEW S
    PROVE  /\ \A x : x \in DOMAIN Without(f, S) <=> x \in DOMAIN f /\ x \notin S
           /\ \A x : x \in DOMAIN f /\ x \notin S => Without(f, S)[x] = f[x]
BY DEF Without, Restrict

LEMMA ParsedStep ==
    ASSUME NEW s, IsStep(s)
    PROVE  /\ IsStep(ParseStep(s)) /\ ParseStep(s).type = s.type
           /\ \A k \in Common : /\ Has(ParseStep(s), k) <=> Has(s, k)
                                /\ Has(s, k) => ParseStep(s)[k] = s[k]
<1> DEFINE D == DOMAIN s \cap Known(s.type)
           f == Restrict(s, D)
           g == For(Defaults, s.type, << >>)
<1>1. Common \subseteq Known(s.type)
  BY DEF Known
<1>2. ParseStep(s) = f ++ g
  BY DEF ParseStep
<1>3. DOMAIN f = D /\ \A k \in D : f[k] = s[k]
  BY Restricted
<1>4. DOMAIN g \cap Common = {}
  BY DefaultFields
<1> HIDE DEF f, g
<1>5. \A k \in Common : (k \in DOMAIN (f ++ g) <=> k \in DOMAIN s) /\ (k \in DOMAIN s => (f ++ g)[k] = s[k])
  BY <1>1, <1>3, <1>4, Merged
<1>6. \A k \in Common : (Has(ParseStep(s), k) <=> Has(s, k)) /\ (Has(s, k) => ParseStep(s)[k] = s[k])
  BY <1>2, <1>5 DEF Has
<1>7. "type" \in Common
  BY DEF Common
<1> QED
  BY <1>6, <1>7 DEF IsStep

LEMMA ParsedList ==
    ASSUME NEW l, StepList(l)
    PROVE  /\ StepList(Parsed(l)) /\ DOMAIN Parsed(l) = DOMAIN l
           /\ \A i \in DOMAIN l : Parsed(l)[i] = ParseStep(l[i])
<1>1. Len(l) \in Nat /\ DOMAIN l = 1 .. Len(l) /\ \A i \in DOMAIN l : IsStep(l[i])
  BY ListDomain DEF StepList
<1>2. Parsed(l) = [i \in 1 .. Len(l) |-> Parsed(l)[i]] /\ \A i \in DOMAIN l : Parsed(l)[i] = ParseStep(l[i])
  BY <1>1 DEF Parsed
<1>3. IsList(Parsed(l)) /\ DOMAIN Parsed(l) = DOMAIN l
  BY <1>1, <1>2, FunctionList
<1> QED
  BY <1>1, <1>2, <1>3, ParsedStep DEF StepList

LEMMA NormalStep ==
    ASSUME NEW s, IsStep(s)
    PROVE  IsStep(Normalize(s)) /\ Normalize(s).type = s.type /\ Gates(Normalize(s))
<1> DEFINE n == NormalizeNames(s)
           gone == IF Has(s, "condition") /\ Blank(s.condition) THEN {"condition"} ELSE {}
<1>1. DOMAIN n = DOMAIN s /\ \A k \in DOMAIN s \ {"locator"} : n[k] = s[k]
  BY DEF NormalizeNames
<1>2. Normalize(s) = Without(n, gone)
  BY DEF Normalize
<1>3. gone \subseteq {"condition"}
  OBVIOUS
<1> HIDE DEF n
<1>4. /\ \A k : k \in DOMAIN Normalize(s) <=> k \in DOMAIN s /\ k \notin gone
      /\ \A k : k \in DOMAIN s /\ k \notin gone => Normalize(s)[k] = n[k]
  BY <1>1, <1>2, Lacking
<1>5. IsStep(Normalize(s)) /\ Normalize(s).type = s.type
  BY <1>1, <1>3, <1>4 DEF IsStep, Has
<1>6. ASSUME Has(Normalize(s), "condition") PROVE ~ Blank(Normalize(s).condition)
  BY <1>1, <1>4, <1>6 DEF Has
<1> QED
  BY <1>5, <1>6 DEF Gates

(* An edit is of a field that is not the type. *)
LEMMA EnteredStep ==
    ASSUME NEW s, IsStep(s), NEW k, k # "type", NEW v
    PROVE  IsStep(Entry(k, v) ++ s) /\ (Entry(k, v) ++ s).type = s.type
BY Entered DEF IsStep, Has

LEMMA LackingStep ==
    ASSUME NEW s, IsStep(s), NEW S, "type" \notin S
    PROVE  IsStep(Without(s, S))
BY Lacking DEF IsStep, Has

LEMMA MergedStep ==
    ASSUME NEW s, IsStep(s), NEW S, "type" \notin S, NEW f, "type" \notin DOMAIN f
    PROVE  IsStep(f ++ Without(s, S)) /\ IsStep(f ++ s)
<1>1. "type" \in DOMAIN Without(s, S) /\ Without(s, S).type = s.type
  BY Lacking DEF IsStep, Has
<1> DEFINE g == Without(s, S)
<1> HIDE DEF g
<1>2. "type" \in DOMAIN (f ++ g) /\ (f ++ g).type = g.type
  BY <1>1, Merged DEF g
<1>3. "type" \in DOMAIN (f ++ s) /\ (f ++ s).type = s.type
  BY Merged DEF IsStep, Has
<1> QED
  BY <1>1, <1>2, <1>3 DEF IsStep, Has, g

LEMMA TextFieldNames ==
    ASSUME NEW type PROVE "type" \notin For(TextInputs, type, {})
<1>1. CASE type \in DOMAIN TextInputs
  <2>1. \A t \in DOMAIN TextInputs : "type" \notin TextInputs[t]
    BY DEF TextInputs
  <2> QED
    BY <1>1, <2>1 DEF For
<1>2. CASE type \notin DOMAIN TextInputs
  BY <1>2 DEF For
<1> QED
  BY <1>1, <1>2

LEMMA EditedStep ==
    ASSUME NEW s, IsStep(s), NEW t \in Edits(s)
    PROVE  IsStep(t)
<1>1. CASE t \in LocatorEdits(s)
  <2> DEFINE Fields == (LocatorKeys \cap DOMAIN s) \ (IF s.type = "press" THEN {"locator"} ELSE {})
             New(k) == {Entry(k, l) ++ s : l \in StrategyEdits(s[k]) \cup DrawerEdits(s[k])}
  <2>0. PICK k \in Fields : t \in New(k)
    <3>1. LocatorEdits(s) = UNION {New(k) : k \in Fields}
      BY DEF LocatorEdits
    <3> HIDE DEF New, Fields
    <3> QED
      BY <3>1, <1>1
  <2>1. k \in LocatorKeys /\ \E l : t = Entry(k, l) ++ s
    BY <2>0
  <2>2. k # "type"
    BY DEF LocatorKeys
  <2> QED
    BY <2>1, <2>2, EnteredStep
<1>2. CASE t \in TextEdits(s)
  <2>1. PICK k \in For(TextInputs, s.type, {}), v \in Texts : t = Entry(k, v) ++ s
    BY <1>2 DEF TextEdits
  <2> QED
    BY <2>1, TextFieldNames, EnteredStep
<1>3. CASE t \in ListEdits(s)
  <2> DEFINE table == [select |-> {"values"}, upload |-> {"files"}, visualCheck |-> {"exclude"}]
  <2>1. PICK k \in For(table, s.type, {}) : t \in {Entry(k, << >>) ++ s, Entry(k, << "a" >>) ++ s}
    BY <1>3 DEF ListEdits
  <2>2. k # "type"
    BY DEF For
  <2> QED
    BY <2>1, <2>2, EnteredStep
<1>4. CASE t \in ChoiceEdits(s)
  <2>1. CASE s.type = "click"
    <3>1. \/ \E b \in BOOLEAN : t = [double |-> b] ++ Without(s, {"button"})
          \/ t = [double |-> FALSE, button |-> "right"] ++ s
      BY <1>4, <2>1 DEF ChoiceEdits
    <3>2. \A b \in BOOLEAN : "type" \notin DOMAIN [double |-> b] /\ "type" \notin {"button"}
      OBVIOUS
    <3>3. \A b \in BOOLEAN : IsStep([double |-> b] ++ Without(s, {"button"}))
      BY <3>2, MergedStep
    <3>4. IsStep([double |-> FALSE, button |-> "right"] ++ s)
      BY MergedStep
    <3> QED
      BY <3>1, <3>3, <3>4
  <2>2. CASE s.type = "exit"
    <3>1. \E p \in BOOLEAN : t = [pass |-> p] ++ s
      BY <1>4, <2>2 DEF ChoiceEdits
    <3> QED
      BY <3>1, MergedStep
  <2>3. CASE s.type = "waitForLoadState"
    <3>1. t = [state |-> "load"] ++ s
      BY <1>4, <2>3 DEF ChoiceEdits
    <3> QED
      BY <3>1, MergedStep
  <2>4. CASE s.type = "visualCheck"
    <3>1. \/ \E n \in {0, 91} : t = [tolerancePct |-> n] ++ s
          \/ \E k \in {"tolerancePct", "selector"} : t = Without(s, {k})
          \/ t = [selector |-> "a"] ++ s
      BY <1>4, <2>4 DEF ChoiceEdits
    <3> QED
      BY <3>1, MergedStep, LackingStep
  <2> QED
    BY <1>4, <2>1, <2>2, <2>3, <2>4 DEF ChoiceEdits
<1>5. CASE t \in WaitEdits(s)
  <2>1. \/ t = [locator |-> [role |-> "heading"], state |-> "visible"] ++ Without(s, {"timeoutMs"})
        \/ t = [timeoutMs |-> 1000] ++ Without(s, {"locator", "state"})
        \/ t = [state |-> "hidden"] ++ s
        \/ \E ms \in {0, 500} : t = [timeoutMs |-> ms] ++ s
    BY <1>5 DEF WaitEdits
  <2> QED
    BY <2>1, MergedStep
<1>6. CASE t \in ConditionEdits(s)
  <2>1. \E c \in Texts : t = [condition |-> c] ++ s
    BY <1>6 DEF ConditionEdits
  <2> QED
    BY <2>1, MergedStep
<1> QED
  BY <1>1, <1>2, <1>3, <1>4, <1>5, <1>6 DEF Edits

LEMMA MadeStep ==
    ASSUME NEW type \in Menu
    PROVE  IsStep(Make(type))
<1>1. DOMAIN Made \subseteq DOMAIN Required
  BY DEF Made, Required
<1>2. type \in DOMAIN Required
  BY <1>1, BuilderAssumption
<1>3. "type" \in DOMAIN [type |-> type] /\ [type |-> type].type = type
  OBVIOUS
<1>4. "type" \in DOMAIN Make(type) /\ Make(type).type = type
  BY <1>3, Merged DEF Make
<1> QED
  BY <1>2, <1>4 DEF IsStep, Has

-----------------------------------------------------------------------------
(* FormKnown *)

LEMMA FreshList ==
    ASSUME NEW l, StepList(l)
    PROVE  IsList(Fresh(l)) /\ \A i \in DOMAIN Fresh(l) : IsEntry(Fresh(l)[i])
<1>1. Len(l) \in Nat /\ DOMAIN l = 1 .. Len(l) /\ \A i \in DOMAIN l : IsStep(l[i])
  BY ListDomain DEF StepList
<1>2. /\ Fresh(l) = [i \in 1 .. Len(l) |-> Fresh(l)[i]]
      /\ \A i \in DOMAIN l : Fresh(l)[i] = [of |-> 0, step |-> l[i]]
  BY <1>1 DEF Fresh
<1>3. IsList(Fresh(l)) /\ DOMAIN Fresh(l) = DOMAIN l
  BY <1>1, <1>2, FunctionList
<1>4. 0 \in 0 .. Len(Example)
  BY DEF Example
<1> QED
  BY <1>1, <1>2, <1>3, <1>4 DEF IsEntry

LEMMA ExampleList == StepList(Example) /\ DOMAIN Example = 1 .. Len(Example)
<1>1. Len(Example) = 3 /\ Example = [i \in 1 .. 3 |-> Example[i]]
  BY DEF Example
<1>2. IsList(Example) /\ DOMAIN Example = 1 .. Len(Example)
  BY <1>1, FunctionList
<1>3. \A i \in 1 .. 3 : IsStep(Example[i])
  BY DEF Example, IsStep, Has, Required
<1> QED
  BY <1>1, <1>2, <1>3 DEF StepList

LEMMA LibraryLists ==
    \A a \in DOMAIN Library : Storable(Library[a]) /\ StepList(Library[a])
BY BuilderAssumption DEF Storable, Cleaned

LEMMA FormInit == Init => FormKnown
<1> SUFFICES ASSUME Init PROVE FormKnown
  OBVIOUS
<1>1. StepList(Parsed(mode.seed))
  BY ParsedList, BuilderAssumption DEF Init
<1>2. IsList(form) /\ \A i \in DOMAIN form : IsEntry(form[i])
  BY <1>1, FreshList DEF Init
<1>3. StepList(example) /\ DOMAIN example = 1 .. Len(Example)
  BY ExampleList DEF Init
<1>4. \A a \in DOMAIN palette : StepList(palette[a])
  BY LibraryLists, EmptyList DEF Init
<1> QED
  BY <1>2, <1>3, <1>4 DEF FormKnown

LEMMA PatchForm ==
    ASSUME FormKnown, NEW i \in DOMAIN form, PatchStep(i)
    PROVE  FormKnown'
<1>1. /\ IsList(form) /\ \A j \in DOMAIN form : IsEntry(form[j])
      /\ StepList(example) /\ DOMAIN example = 1 .. Len(Example)
      /\ \A a \in DOMAIN palette : StepList(palette[a])
  BY DEF FormKnown
<1>2. PICK s \in Edits(form[i].step) :
          /\ form' = [form EXCEPT ![i].step = s]
          /\ example' = IF form[i].of = 0 THEN example ELSE [example EXCEPT ![form[i].of] = s]
  BY DEF PatchStep
<1>3. palette' = palette
  BY DEF PatchStep, EditOnly
<1>4. IsStep(s)
  BY <1>1, <1>2, EditedStep DEF IsEntry
<1> DEFINE e == [form[i] EXCEPT !.step = s]
<1>5. IsEntry(e)
  BY <1>1, <1>4 DEF IsEntry
<1>6. form' = [form EXCEPT ![i] = e]
  BY <1>2
<1> HIDE DEF e
<1>7. IsList(form') /\ \A j \in DOMAIN form' : IsEntry(form'[j])
  BY <1>1, <1>5, <1>6, ChangedList
<1>8. StepList(example') /\ DOMAIN example' = 1 .. Len(Example)
  <2>1. CASE form[i].of = 0
    BY <2>1, <1>1, <1>2
  <2>2. CASE form[i].of # 0
    <3>1. form[i].of \in DOMAIN example
      BY <1>1, <2>2 DEF IsEntry
    <3> DEFINE n == form[i].of
    <3>2. example' = [example EXCEPT ![n] = s]
      BY <1>2, <2>2
    <3> HIDE DEF n
    <3>3. n \in DOMAIN example /\ IsList(example) /\ \A j \in DOMAIN example : IsStep(example[j])
      BY <3>1, <1>1 DEF n, StepList
    <3>4. IsList(example') /\ DOMAIN example' = DOMAIN example /\ \A j \in DOMAIN example : IsStep(example'[j])
      BY <3>2, <3>3, <1>4, ChangedList
    <3> QED
      BY <3>4, <1>1 DEF StepList
  <2> QED
    BY <2>1, <2>2
<1> QED
  BY <1>1, <1>3, <1>7, <1>8 DEF FormKnown

LEMMA AddForm ==
    ASSUME FormKnown, NEW s, IsStep(s), form' = Append(form, [of |-> 0, step |-> s]),
           UNCHANGED << example, palette >>
    PROVE  FormKnown'
<1> DEFINE e == [of |-> 0, step |-> s]
<1>1. IsEntry(e)
  BY DEF IsEntry, Example
<1>2. IsList(form) /\ \A j \in DOMAIN form : IsEntry(form[j])
  BY DEF FormKnown
<1> HIDE DEF e
<1>3. form' = Append(form, e)
  BY DEF e
<1>4. DOMAIN form = 1 .. Len(form) /\ Len(form) \in Nat
  BY <1>2, ListDomain
<1>5. /\ IsList(form') /\ DOMAIN form' = 1 .. Len(form) + 1
      /\ (\A j \in 1 .. Len(form) : form'[j] = form[j]) /\ form'[Len(form) + 1] = e
  BY <1>2, <1>3, AppendList
<1>6. \A j \in DOMAIN form' : IsEntry(form'[j])
  <2> TAKE j \in DOMAIN form'
  <2>1. j \in 1 .. Len(form) \/ j = Len(form) + 1
    BY <1>4, <1>5
  <2> QED
    BY <2>1, <1>1, <1>2, <1>4, <1>5
<1> QED
  BY <1>5, <1>6 DEF FormKnown

LEMMA InsertForm ==
    ASSUME FormKnown, InsertActionCopy
    PROVE  FormKnown'
<1>1. PICK a \in DOMAIN palette : form' = form \o Fresh(Parsed(palette[a]))
  BY DEF InsertActionCopy
<1> DEFINE more == Fresh(Parsed(palette[a]))
<1>2. IsList(more) /\ \A j \in DOMAIN more : IsEntry(more[j])
  <2>1. StepList(Parsed(palette[a]))
    BY ParsedList DEF FormKnown
  <2> QED
    BY <2>1, FreshList
<1>3. IsList(form) /\ \A j \in DOMAIN form : IsEntry(form[j])
  BY DEF FormKnown
<1> HIDE DEF more
<1>4. form' = form \o more
  BY <1>1 DEF more
<1>5. IsList(form') /\ ToSet(form') \subseteq ToSet(form) \cup ToSet(more)
  BY <1>2, <1>3, <1>4, JoinedList
<1>6. IsList(form') /\ \A j \in DOMAIN form' : IsEntry(form'[j])
  <2>1. \A e \in ToSet(form) \cup ToSet(more) : IsEntry(e)
    BY <1>2, <1>3 DEF ToSet
  <2>2. \A j \in DOMAIN form' : form'[j] \in ToSet(form')
    BY DEF ToSet
  <2> QED
    BY <1>5, <2>1, <2>2
<1>7. UNCHANGED << example, palette >>
  BY DEF InsertActionCopy, EditOnly
<1> QED
  BY <1>6, <1>7 DEF FormKnown

LEMMA OtherForm ==
    ASSUME FormKnown, UNCHANGED << example, palette >>,
           \/ \E i \in DOMAIN form : form' = RemoveAt(form, i)
           \/ \E i \in DOMAIN form : i < Len(form) /\ form' = [form EXCEPT ![i] = form[i + 1], ![i + 1] = form[i]]
           \/ form' = << >>
           \/ form' = [i \in DOMAIN example |-> [of |-> i, step |-> example[i]]]
           \/ form' = form
    PROVE  FormKnown'
<1>1. /\ IsList(form) /\ \A j \in DOMAIN form : IsEntry(form[j])
      /\ StepList(example) /\ DOMAIN example = 1 .. Len(Example)
  BY DEF FormKnown
<1>2. DOMAIN form = 1 .. Len(form) /\ Len(form) \in Nat
  BY <1>1, ListDomain
<1>3. SUFFICES IsList(form') /\ \A j \in DOMAIN form' : IsEntry(form'[j])
  BY DEF FormKnown
<1>4. ASSUME NEW i \in DOMAIN form, form' = RemoveAt(form, i) PROVE IsList(form') /\ \A j \in DOMAIN form' : IsEntry(form'[j])
  BY <1>1, <1>4, RemovedList
<1>5. ASSUME NEW i \in DOMAIN form, i < Len(form), form' = [form EXCEPT ![i] = form[i + 1], ![i + 1] = form[i]]
      PROVE  IsList(form') /\ \A j \in DOMAIN form' : IsEntry(form'[j])
  <2>1. i + 1 \in DOMAIN form
    BY <1>2, <1>5
  <2> DEFINE once == [form EXCEPT ![i] = form[i + 1]]
             n == i + 1
  <2>2. form' = [once EXCEPT ![n] = form[i]]
    BY <1>5
  <2>3. IsList(once) /\ DOMAIN once = DOMAIN form /\ \A j \in DOMAIN form : IsEntry(once[j])
    BY <1>1, <2>1, ChangedList
  <2>4. IsEntry(form[i]) /\ n \in DOMAIN once
    BY <1>1, <2>1, <2>3
  <2> HIDE DEF once, n
  <2> QED
    BY <2>2, <2>3, <2>4, ChangedList
<1>6. ASSUME form' = << >> PROVE IsList(form') /\ \A j \in DOMAIN form' : IsEntry(form'[j])
  BY <1>6, EmptyList
<1>7. ASSUME form' = [i \in DOMAIN example |-> [of |-> i, step |-> example[i]]]
      PROVE  IsList(form') /\ \A j \in DOMAIN form' : IsEntry(form'[j])
  <2>1. Len(Example) \in Nat
    BY DEF Example
  <2>2. form' = [i \in 1 .. Len(Example) |-> form'[i]]
    BY <1>1, <1>7
  <2>3. IsList(form') /\ DOMAIN form' = 1 .. Len(Example)
    BY <2>1, <2>2, FunctionList
  <2>4. \A j \in DOMAIN form' : IsEntry(form'[j])
    BY <1>1, <1>7, <2>1, <2>3 DEF IsEntry, StepList
  <2> QED
    BY <2>3, <2>4
<1> QED
  BY <1>1, <1>4, <1>5, <1>6, <1>7

LEMMA FormStep ==
    ASSUME FormKnown, SavesChecked, Next
    PROVE  FormKnown'
<1>1. CASE Editing
  <2>1. CASE NameTest
    BY <2>1, OtherForm DEF NameTest
  <2>2. CASE AddStep
    <3>1. PICK type \in Menu : form' = Append(form, [of |-> 0, step |-> Make(type)])
      BY <2>2 DEF AddStep
    <3> QED
      BY <2>2, <3>1, MadeStep, AddForm DEF AddStep, EditOnly
  <2>3. CASE InsertActionRef
    <3>1. PICK a \in DOMAIN palette :
            form' = Append(form, [of |-> 0, step |-> [type |-> "actionRef", actionId |-> a, name |-> "a"]])
      BY <2>3 DEF InsertActionRef
    <3>2. IsStep([type |-> "actionRef", actionId |-> a, name |-> "a"])
      BY DEF IsStep, Has, Required
    <3> QED
      BY <2>3, <3>1, <3>2, AddForm DEF InsertActionRef, EditOnly
  <2>4. CASE InsertActionCopy
    BY <2>4, InsertForm
  <2>5. CASE ClearAll
    BY <2>5, OtherForm DEF ClearAll, EditOnly
  <2>6. CASE LoadExample
    BY <2>6, OtherForm DEF LoadExample, EditOnly
  <2>7. ASSUME NEW i \in DOMAIN form, PatchStep(i) PROVE FormKnown'
    BY <2>7, PatchForm
  <2>8. ASSUME NEW i \in DOMAIN form, RemoveStep(i) PROVE FormKnown'
    BY <2>8, OtherForm DEF RemoveStep, EditOnly
  <2>9. ASSUME NEW i \in DOMAIN form, MoveStep(i) PROVE FormKnown'
    BY <2>9, OtherForm DEF MoveStep, EditOnly
  <2> QED
    BY <1>1, <2>1, <2>2, <2>3, <2>4, <2>5, <2>6, <2>7, <2>8, <2>9 DEF Editing
<1>2. CASE Saving
  <2>1. ASSUME NEW r \in asides, AsideSaved(r) PROVE FormKnown'
    <3>1. palette' = actions /\ UNCHANGED << form, example >>
      BY <2>1 DEF AsideSaved
    <3>2. \A a \in DOMAIN actions : StepList(actions[a])
      BY DEF SavesChecked, AllStored, Range, Storable, Cleaned
    <3> QED
      BY <3>1, <3>2 DEF FormKnown
  <2>2. ASSUME NEW fresh, Unmounted(fresh) PROVE FormKnown'
    <3>1. /\ form' = << >> /\ palette' = << >> /\ example' \in {Example, example}
      BY <2>2 DEF Unmounted
    <3> QED
      BY <3>1, EmptyList, ExampleList DEF FormKnown
  <2>3. CASE SavedInModal \/ Leave \/ CloseEditor
    BY <2>2, <2>3 DEF SavedInModal, Leave, CloseEditor
  <2>4. ASSUME UNCHANGED << form, example, palette >> PROVE FormKnown'
    BY <2>4, OtherForm
  <2>5. CASE Submit \/ SubmitRefused \/ ServeSubmit \/ Saved \/ SaveFails \/ Unanswered \/ SaveAsAction
             \/ \E r \in asides : ServeAside(r) \/ AsideFails(r)
    BY <2>4, <2>5 DEF Submit, SubmitRefused, ServeSubmit, Saved, SaveFails, Unanswered, SaveAsAction,
                      ServeAside, AsideFails
  <2> QED
    BY <1>2, <2>1, <2>3, <2>5 DEF Saving
<1> QED
  BY <1>1, <1>2 DEF Next

-----------------------------------------------------------------------------
(* SavesChecked *)

LEMMA CleanList == FormKnown => Cleaned(Clean) /\ DOMAIN Clean = DOMAIN form
<1> SUFFICES ASSUME FormKnown PROVE Cleaned(Clean) /\ DOMAIN Clean = DOMAIN form
  OBVIOUS
<1>1. Len(form) \in Nat /\ DOMAIN form = 1 .. Len(form) /\ \A i \in DOMAIN form : IsStep(form[i].step)
  BY ListDomain DEF FormKnown, IsEntry
<1> DEFINE c == Clean
<1>2. c = [i \in 1 .. Len(form) |-> c[i]] /\ \A i \in DOMAIN form : c[i] = Normalize(form[i].step)
  BY <1>1 DEF Clean
<1> HIDE DEF c
<1>3. IsList(c) /\ DOMAIN c = DOMAIN form
  BY <1>1, <1>2, FunctionList
<1>4. \A i \in DOMAIN form : IsStep(c[i]) /\ Gates(c[i])
  BY <1>1, <1>2, NormalStep
<1>5. Cleaned(c)
  BY <1>3, <1>4 DEF Cleaned, StepList
<1> QED
  BY <1>3, <1>5 DEF c

(* The rows of the server, one by one. *)
RowsStorable ==
    (\A i \in DOMAIN stored : Storable(stored[i])) /\ (\A a \in DOMAIN actions : Storable(actions[a]))

LEMMA RowByRow == (\A l \in AllStored : Storable(l)) <=> RowsStorable
BY DEF AllStored, RowsStorable, ToSet, Range

LEMMA RowByRowNext == (\A l \in AllStored' : Storable(l)) <=> RowsStorable'
BY DEF AllStored, RowsStorable, ToSet, Range

LEMMA SavesInit == Init => SavesChecked
<1> SUFFICES ASSUME Init PROVE SavesChecked
  OBVIOUS
<1>1. RowsStorable
  BY LibraryLists, EmptyList DEF Init, RowsStorable
<1> QED
  BY <1>1, RowByRow, EmptyList DEF Init, SavesChecked

LEMMA StoredRow ==
    ASSUME SavesChecked, NEW id, NEW l, Storable(l), actions' = Entry(id, l) ++ actions, UNCHANGED stored
    PROVE  IsList(stored') /\ \A k \in AllStored' : Storable(k)
<1>1. RowsStorable /\ IsList(stored)
  BY RowByRow DEF SavesChecked
<1>2. \A a \in DOMAIN actions' : Storable(actions'[a])
  BY <1>1, Entered DEF RowsStorable
<1>3. RowsStorable'
  BY <1>1, <1>2 DEF RowsStorable
<1> QED
  BY <1>1, <1>3, RowByRowNext

LEMMA ServedSave ==
    ASSUME FormKnown, SavesChecked, ServeSubmit
    PROVE  SavesChecked'
<1>1. /\ request # Idle /\ DOMAIN request = {"at", "id", "steps", "shown"} /\ request.at = "sent"
      /\ Storable(request.steps) /\ IsList(stored)
  BY DEF SavesChecked, ServeSubmit, Busy
<1>2. request' = [request EXCEPT !.at = "answered"] /\ UNCHANGED asides
  BY DEF ServeSubmit
<1>3. /\ DOMAIN request' = {"at", "id", "steps", "shown"}
      /\ request'.at = "answered" /\ request'.steps = request.steps
  BY <1>1, <1>2
<1>4. IsList(stored') /\ \A l \in AllStored' : Storable(l)
  <2>1. CASE mode.kind = "action"
    <3>1. UNCHANGED stored /\ (actions' = actions \/ \E id : actions' = Entry(id, request.steps) ++ actions)
      BY <2>1 DEF ServeSubmit
    <3>2. CASE actions' = actions
      BY <3>1, <3>2, <1>1 DEF SavesChecked, AllStored
    <3> QED
      BY <3>1, <3>2, <1>1, StoredRow
  <2>2. CASE mode.kind # "action"
    <3>1. stored' = Append(stored, request.steps) /\ UNCHANGED actions
      BY <2>2 DEF ServeSubmit
    <3>2. Len(stored) \in Nat /\ DOMAIN stored = 1 .. Len(stored)
      BY <1>1, ListDomain
    <3>3. /\ IsList(stored') /\ DOMAIN stored' = 1 .. Len(stored) + 1
          /\ (\A i \in 1 .. Len(stored) : stored'[i] = stored[i]) /\ stored'[Len(stored) + 1] = request.steps
      BY <1>1, <3>1, AppendList
    <3>4. RowsStorable
      BY RowByRow DEF SavesChecked
    <3>5. \A i \in DOMAIN stored' : Storable(stored'[i])
      <4> TAKE i \in DOMAIN stored'
      <4>1. i \in 1 .. Len(stored) \/ i = Len(stored) + 1
        BY <3>2, <3>3
      <4> QED
        BY <4>1, <3>2, <3>3, <3>4, <1>1 DEF RowsStorable
    <3>6. RowsStorable'
      BY <3>1, <3>4, <3>5 DEF RowsStorable
    <3> QED
      BY <3>3, <3>6, RowByRowNext
  <2> QED
    BY <2>1, <2>2
<1> QED
  BY <1>1, <1>2, <1>3, <1>4 DEF SavesChecked

LEMMA ServedAside ==
    ASSUME SavesChecked, NEW r \in asides, ServeAside(r)
    PROVE  SavesChecked'
<1>1. DOMAIN r = {"at", "id", "steps"} /\ Storable(r.steps)
  BY DEF SavesChecked, ServeAside, Storable
<1> DEFINE done == [r EXCEPT !.at = "answered"]
<1>2. DOMAIN done = {"at", "id", "steps"} /\ Storable(done.steps) /\ Cleaned(done.steps)
  BY <1>1 DEF Storable
<1>3. asides' = (asides \ {r}) \cup {done} /\ UNCHANGED << request, stored >>
  BY DEF ServeAside
<1> HIDE DEF done
<1>4. IsList(stored') /\ \A k \in AllStored' : Storable(k)
  BY <1>1, StoredRow DEF ServeAside
<1> QED
  BY <1>2, <1>3, <1>4 DEF SavesChecked

LEMMA SavesStep ==
    ASSUME FormKnown, SavesChecked, Next
    PROVE  SavesChecked'
<1>1. CASE Submit
  <2>1. /\ request' = [at |-> "sent", id |-> NewId, steps |-> Clean, shown |-> Shown]
        /\ UNCHANGED << asides, stored, actions >>
    BY <1>1 DEF Submit, Server
  <2>2. Storable(Clean)
    BY <1>1, CleanList DEF Submit, Storable
  <2>3. /\ DOMAIN request' = {"at", "id", "steps", "shown"}
        /\ request'.at = "sent" /\ request'.steps = Clean
    BY <2>1
  <2> QED
    BY <2>1, <2>2, <2>3 DEF SavesChecked, AllStored
<1>2. CASE SaveAsAction
  <2> DEFINE r == [at |-> "sent", id |-> NewId, steps |-> Clean]
  <2>1. asides' = asides \cup {r} /\ UNCHANGED << request, stored, actions >>
    BY <1>2 DEF SaveAsAction, Server
  <2>2. DOMAIN r = {"at", "id", "steps"} /\ r.at = "sent" /\ Cleaned(r.steps)
    BY CleanList
  <2> HIDE DEF r
  <2> QED
    BY <2>1, <2>2 DEF SavesChecked, AllStored
<1>3. ASSUME asides' \subseteq asides, request' \in {request, Idle}, UNCHANGED << stored, actions >>
      PROVE  SavesChecked'
  BY <1>3 DEF SavesChecked, AllStored
<1>4. CASE Editing
  BY <1>3, <1>4 DEF Editing, NameTest, AddStep, InsertActionRef, InsertActionCopy, ClearAll, LoadExample,
                    PatchStep, RemoveStep, MoveStep, EditOnly, Server
<1>5. CASE SubmitRefused \/ Saved \/ SavedInModal \/ SaveFails \/ Leave \/ CloseEditor \/ Unanswered
           \/ \E r \in asides : AsideSaved(r) \/ AsideFails(r)
  <2>1. asides' \subseteq asides /\ request' \in {request, Idle} /\ UNCHANGED << stored, actions >>
    BY <1>5 DEF SubmitRefused, Saved, SavedInModal, SaveFails, Leave, CloseEditor, Unanswered,
                AsideSaved, AsideFails, Server
  <2> QED
    BY <2>1, <1>3
<1> QED
  BY <1>1, <1>2, <1>4, <1>5, ServedSave, ServedAside DEF Next, Saving

LEMMA SavesOthers ==
    ASSUME FormKnown, SavesChecked, OthersRevise \/ OthersRemove
    PROVE  FormKnown' /\ SavesChecked'
<1>1. UNCHANGED << form, example, palette, request, asides, stored >>
  BY DEF OthersRevise, OthersRemove
<1>2. RowsStorable
  BY RowByRow DEF SavesChecked
<1>3. \A a \in DOMAIN actions' : Storable(actions'[a])
  <2>1. CASE OthersRevise
    <3>1. PICK a \in DOMAIN actions, steps \in Revisions : actions' = [actions EXCEPT ![a] = steps]
      BY <2>1 DEF OthersRevise
    <3> QED
      BY <3>1, <1>2, RevisionsAssumption DEF RowsStorable
  <2>2. CASE OthersRemove
    <3>1. PICK a \in DOMAIN actions : actions' = Without(actions, {a})
      BY <2>2 DEF OthersRemove
    <3> QED
      BY <3>1, <1>2, Lacking DEF RowsStorable
  <2> QED
    BY <2>1, <2>2
<1>4. RowsStorable'
  BY <1>1, <1>2, <1>3 DEF RowsStorable
<1>5. SavesChecked'
  BY <1>1, <1>4, RowByRowNext DEF SavesChecked
<1>6. FormKnown'
  BY <1>1 DEF FormKnown
<1> QED
  BY <1>5, <1>6

-----------------------------------------------------------------------------
(* What a plan is made of. *)

TopParts(steps, lists) ==
    {s \in ToSet(steps) : s.type # "actionRef"}
    \cup {Carried(s, p) : s \in {s \in ToSet(steps) : s.type = "actionRef"}, p \in PartsIn(lists)}

LEMMA InlineTop ==
    ASSUME NEW steps, NEW s \in ToSet(steps), NEW lists,
           NEW deeper, \A a \in DOMAIN deeper : deeper[a] \in Seq(PartsIn(lists))
    PROVE  Inline(s, deeper) \in Seq(TopParts(steps, lists))
<1> DEFINE T == TopParts(steps, lists)
<1>1. CASE s.type # "actionRef"
  <2>1. s \in T
    BY <1>1 DEF TopParts
  <2> QED
    BY <1>1, <2>1 DEF Inline
<1>2. CASE s.type = "actionRef" /\ s.actionId \notin DOMAIN deeper
  BY <1>2 DEF Inline
<1>3. CASE s.type = "actionRef" /\ s.actionId \in DOMAIN deeper
  <2> DEFINE l == deeper[s.actionId]
  <2>1. l \in Seq(PartsIn(lists))
    BY <1>3
  <2>2. Inline(s, deeper) = [i \in DOMAIN l |-> Carried(s, l[i])]
    BY <1>3 DEF Inline
  <2> HIDE DEF l, T
  <2>3. DOMAIN l = 1 .. Len(l) /\ Len(l) \in Nat /\ \A i \in 1 .. Len(l) : l[i] \in PartsIn(lists)
    BY <2>1
  <2>4. \A i \in 1 .. Len(l) : Carried(s, l[i]) \in T
    BY <2>3, <1>3 DEF T, TopParts
  <2>5. [i \in DOMAIN l |-> Carried(s, l[i])] \in Seq(T)
    BY <2>3, <2>4
  <2> QED
    BY <2>2, <2>5 DEF T
<1> QED
  BY <1>1, <1>2, <1>3

LEMMA ExpansionParts ==
    ASSUME NEW steps, IsList(steps), NEW acts, \A a \in DOMAIN acts : IsList(acts[a])
    PROVE  ExpandActions(steps, acts) \in Seq(TopParts(steps, acts))
<1>1. PICK sub : /\ ExpandActions(steps, acts) = FlattenSeq([i \in DOMAIN steps |-> Inline(steps[i], sub)])
                 /\ DOMAIN sub = DOMAIN acts
                 /\ \A a \in DOMAIN acts : sub[a] \in Seq(PartsIn(acts))
  BY Expanded
<1> DEFINE seqs == [i \in DOMAIN steps |-> Inline(steps[i], sub)]
<1>2. \A i \in DOMAIN steps : Inline(steps[i], sub) \in Seq(TopParts(steps, acts))
  <2>1. \A i \in DOMAIN steps : steps[i] \in ToSet(steps)
    BY DEF ToSet
  <2> QED
    BY <1>1, <2>1, InlineTop
<1>3. Len(steps) \in Nat /\ DOMAIN steps = 1 .. Len(steps)
  BY ListDomain
<1>4. seqs \in Seq(Seq(TopParts(steps, acts)))
  BY <1>2, <1>3
<1> HIDE DEF seqs
<1>5. FlattenSeq(seqs) \in Seq(TopParts(steps, acts))
  BY <1>4, Flattened
<1> QED
  BY <1>1, <1>5 DEF seqs

(* A part is no reference, and its condition, if it has one, is not blank. *)
LEMMA PartKind ==
    ASSUME NEW lists, \A s \in StepsIn(lists) : IsStep(s) /\ Gates(s), NEW p \in PartsIn(lists)
    PROVE  Has(p, "type") /\ p.type # "actionRef" /\ Gates(p)
<1>1. ASSUME NEW b \in BareIn(lists) PROVE Has(b, "type") /\ b.type # "actionRef" /\ Gates(b)
  BY <1>1 DEF BareIn, TooDeep, Has, IsStep, Gates
<1>2. CASE p \in BareIn(lists)
  BY <1>1, <1>2
<1>3. CASE p \notin BareIn(lists)
  <2>1. PICK b \in BareIn(lists), c \in GatesIn(lists) : p = b ++ [condition |-> c] /\ ~ Has(b, "condition")
    BY <1>3 DEF PartsIn
  <2>2. ~ Blank(c)
    BY DEF GatesIn, Gates
  <2> DEFINE g == [condition |-> c]
  <2>3. DOMAIN g = {"condition"} /\ g.condition = c
    OBVIOUS
  <2>4. p = b ++ g
    BY <2>1
  <2> HIDE DEF g
  <2>5. Has(p, "type") /\ p.type = b.type /\ p.condition = c
    BY <2>1, <2>3, <2>4, <1>1, Merged DEF Has
  <2> QED
    BY <2>2, <2>5, <1>1 DEF Gates
<1> QED
  BY <1>2, <1>3

LEMMA CarriedKind ==
    ASSUME NEW s, NEW p, Has(p, "type")
    PROVE  Has(Carried(s, p), "type") /\ Carried(s, p).type = p.type
<1> DEFINE g == [condition |-> s.condition]
<1>1. Carried(s, p) = p \/ Carried(s, p) = p ++ g
  BY DEF Carried
<1> HIDE DEF g
<1> QED
  BY <1>1, Merged DEF Has

LEMMA GatedPart ==
    ASSUME NEW s, Has(s, "condition"), ~ Blank(s.condition), NEW p, Gates(p)
    PROVE  Has(Carried(s, p), "condition") /\ ~ Blank(Carried(s, p).condition)
<1>1. CASE Has(p, "condition")
  BY <1>1 DEF Carried, Gates
<1>2. CASE ~ Has(p, "condition")
  <2> DEFINE g == [condition |-> s.condition]
  <2>1. Carried(s, p) = p ++ g /\ DOMAIN g = {"condition"} /\ g.condition = s.condition
    BY <1>2 DEF Carried
  <2> HIDE DEF g
  <2>2. Has(Carried(s, p), "condition") /\ Carried(s, p).condition = s.condition
    BY <2>1, <1>2, Merged DEF Has
  <2> QED
    BY <2>2
<1> QED
  BY <1>1, <1>2

LEMMA ExpandedKind ==
    ASSUME NEW steps, StepList(steps), NEW acts, \A a \in DOMAIN acts : Cleaned(acts[a])
    PROVE  /\ IsList(ExpandActions(steps, acts))
           /\ \A i \in DOMAIN ExpandActions(steps, acts) :
                 /\ Has(ExpandActions(steps, acts)[i], "type")
                 /\ ExpandActions(steps, acts)[i].type # "actionRef"
<1>1. \A a \in DOMAIN acts : IsList(acts[a])
  BY DEF Cleaned, StepList
<1>2. IsList(steps) /\ \A s \in ToSet(steps) : IsStep(s)
  BY DEF StepList, ToSet
<1> DEFINE e == ExpandActions(steps, acts)
<1>3. e \in Seq(TopParts(steps, acts))
  BY <1>1, <1>2, ExpansionParts
<1> HIDE DEF e
<1>4. \A s \in StepsIn(acts) : IsStep(s) /\ Gates(s)
  BY DEF StepsIn, ToSet, Cleaned, StepList
<1>5. \A t \in TopParts(steps, acts) : Has(t, "type") /\ t.type # "actionRef"
  <2> TAKE t \in TopParts(steps, acts)
  <2>1. CASE t \in ToSet(steps) /\ t.type # "actionRef"
    BY <2>1, <1>2 DEF IsStep
  <2>2. CASE ~ (t \in ToSet(steps) /\ t.type # "actionRef")
    <3>1. PICK s \in ToSet(steps), p \in PartsIn(acts) : t = Carried(s, p)
      BY <2>2 DEF TopParts
    <3>2. Has(p, "type") /\ p.type # "actionRef"
      BY <1>4, PartKind
    <3> QED
      BY <3>1, <3>2, CarriedKind
  <2> QED
    BY <2>1, <2>2
<1>6. IsList(e) /\ ToSet(e) \subseteq TopParts(steps, acts)
  BY <1>3, ListOf
<1>7. \A i \in DOMAIN e : e[i] \in ToSet(e)
  BY DEF ToSet
<1> QED
  BY <1>5, <1>6, <1>7 DEF e

(* What replaces a gated reference is gated, in whatever the server holds. *)
LEMMA Gated == SavesChecked => GateCarried
<1> SUFFICES ASSUME SavesChecked, NEW ref \in StepsOf(AllStored), ref.type = "actionRef", Has(ref, "condition"),
                    NEW s \in ToSet(ExpandActions(<< ref >>, actions))
             PROVE  Has(s, "condition") /\ ~ Blank(s.condition)
  BY DEF GateCarried
<1>1. PICK l \in AllStored : ref \in ToSet(l)
  BY DEF StepsOf
<1>2. ~ Blank(ref.condition)
  BY <1>1 DEF SavesChecked, Storable, Cleaned, Gates, ToSet
<1>3. \A a \in DOMAIN actions : Cleaned(actions[a])
  BY DEF SavesChecked, AllStored, Range, Storable
<1>4. \A a \in DOMAIN actions : IsList(actions[a])
  BY <1>3 DEF Cleaned, StepList
<1> DEFINE one == << ref >>
<1>5. IsList(one) /\ ToSet(one) = {ref}
  <2>1. one \in Seq({ref})
    OBVIOUS
  <2>2. ToSet(one) = {ref}
    BY DEF ToSet
  <2> QED
    BY <2>1, <2>2, ListOf
<1> HIDE DEF one
<1>6. ExpandActions(one, actions) \in Seq(TopParts(one, actions))
  BY <1>4, <1>5, ExpansionParts
<1>7. s \in TopParts(one, actions)
  BY <1>6, ListOf DEF one
<1>8. PICK p \in PartsIn(actions) : s = Carried(ref, p)
  BY <1>5, <1>7 DEF TopParts
<1>9. \A t \in StepsIn(actions) : IsStep(t) /\ Gates(t)
  BY <1>3 DEF StepsIn, ToSet, Cleaned, StepList
<1>10. Gates(p)
  BY <1>9, PartKind
<1> QED
  BY <1>2, <1>8, <1>10, GatedPart

LEMMA CompiledType ==
    ASSUME NEW s, Has(s, "type") PROVE Has(Compile(s), "type") /\ Compile(s).type = s.type
<1>1. "type" \notin Unread(s) /\ "type" \notin LocatorKeys
  BY DEF Unread, LocatorKeys
<1> QED
  BY <1>1 DEF Compile, Has

LEMMA ParsedCleaned ==
    ASSUME NEW l, Cleaned(l)
    PROVE  Cleaned(Parsed(l))
<1>1. StepList(l) /\ \A i \in DOMAIN l : IsStep(l[i]) /\ Gates(l[i])
  BY DEF Cleaned, StepList
<1>2. /\ StepList(Parsed(l)) /\ DOMAIN Parsed(l) = DOMAIN l
      /\ \A i \in DOMAIN l : Parsed(l)[i] = ParseStep(l[i])
  BY <1>1, ParsedList
<1>3. "condition" \in Common
  BY DEF Common
<1>4. \A i \in DOMAIN l : Gates(ParseStep(l[i]))
  BY <1>1, <1>3, ParsedStep DEF Gates
<1> QED
  BY <1>2, <1>4 DEF Cleaned

(* The plan of a run that starts. *)
LEMMA PlanKind ==
    ASSUME SavesChecked, stored # << >>
    PROVE  /\ IsList(Plan)
           /\ \A i \in DOMAIN Plan : Has(Plan[i], "type") /\ Plan[i].type # "actionRef"
<1>1. IsList(stored) /\ RowsStorable
  BY RowByRow DEF SavesChecked
<1>2. Len(stored) \in DOMAIN stored
  <2>1. stored \in Seq(ToSet(stored)) /\ DOMAIN stored = 1 .. Len(stored) /\ Len(stored) \in Nat
    BY <1>1, ListDomain DEF IsList
  <2>2. Len(stored) # 0
    BY <2>1
  <2> QED
    BY <2>1, <2>2
<1>3. StepList(Latest)
  BY <1>1, <1>2, ParsedList DEF Latest, RowsStorable, Storable, Cleaned
<1> DEFINE acts == [a \in DOMAIN actions |-> Parsed(actions[a])]
<1>4. \A a \in DOMAIN acts : Cleaned(acts[a])
  BY <1>1, ParsedCleaned DEF RowsStorable, Storable
<1> HIDE DEF acts
<1>5. /\ IsList(ExpandActions(Latest, acts))
      /\ \A i \in DOMAIN ExpandActions(Latest, acts) :
            /\ Has(ExpandActions(Latest, acts)[i], "type")
            /\ ExpandActions(Latest, acts)[i].type # "actionRef"
  BY <1>3, <1>4, ExpandedKind
<1> QED
  BY <1>5 DEF Plan, acts

LEMMA StartedPlan ==
    ASSUME SavesChecked, RunStored
    PROVE  \/ UNCHANGED << plan, at >>
           \/ /\ at' = 1 /\ DOMAIN plan' = 1 .. Len(plan') /\ Len(plan') \in Nat
              /\ \A i \in DOMAIN plan' : plan'[i].type # "actionRef"
<1>1. CASE StartFails
  BY <1>1 DEF StartFails
<1>2. CASE Start(Plan)
  <2>1. IsList(Plan) /\ \A i \in DOMAIN Plan : Has(Plan[i], "type") /\ Plan[i].type # "actionRef"
    BY PlanKind DEF RunStored
  <2>2. Len(Plan) \in Nat /\ DOMAIN Plan = 1 .. Len(Plan)
    BY <2>1, ListDomain
  <2>3. plan' = [i \in DOMAIN Plan |-> Compile(Plan[i])] /\ at' = 1
    BY <1>2 DEF Start
  <2>4. plan' = [i \in 1 .. Len(Plan) |-> plan'[i]]
    BY <2>2, <2>3
  <2>5. IsList(plan') /\ DOMAIN plan' = DOMAIN Plan /\ Len(plan') = Len(Plan)
    BY <2>2, <2>4, FunctionList
  <2>6. \A i \in DOMAIN plan' : plan'[i].type # "actionRef"
    BY <2>1, <2>3, <2>5, CompiledType
  <2> QED
    BY <2>2, <2>3, <2>5, <2>6
<1> QED
  BY <1>1, <1>2 DEF RunStored

-----------------------------------------------------------------------------
(* RowsCounted, BuilderTypes and PlanTypes *)

LEMMA CountsInit == LifeInit => RowsCounted /\ BuilderTypes /\ PlanTypes
<1> SUFFICES ASSUME LifeInit PROVE RowsCounted /\ BuilderTypes /\ PlanTypes
  OBVIOUS
<1>1. Init /\ RunInit
  BY DEF LifeInit
<1>0. Len(<< >>) = 0 /\ DOMAIN << >> = {} /\ 1 .. 0 = {}
  BY EmptyList
<1>2. RowsCounted
  <2>1. request = Idle /\ page = "open" /\ lost = 0 /\ Len(stored) = 0
    BY <1>0, <1>1 DEF Init
  <2> QED
    BY <2>1 DEF RowsCounted
<1>3. mode \in Opened /\ mode.ops \in Nat /\ mode.saves \in Nat
  BY <1>1, BuilderAssumption DEF Init
<1>4. BuilderTypes
  <2>1. page = "open" /\ ops = 0 /\ saves = 0
    BY <1>1 DEF Init
  <2> QED
    BY <1>3, <2>1 DEF BuilderTypes
<1>5. PlanTypes
  <2>1. plan = << >> /\ at = 1 /\ status = "ready"
    BY <1>1 DEF RunInit
  <2> QED
    BY <1>0, <2>1 DEF PlanTypes
<1> QED
  BY <1>2, <1>4, <1>5

LEMMA RowsStep ==
    ASSUME SavesChecked, RowsCounted, Next
    PROVE  RowsCounted'
<1>0. Len(stored) \in Nat
  BY ListDomain DEF SavesChecked
<1>1. CASE Editing
  <2>1. UNCHANGED << request, stored, lost, page >>
    BY <1>1 DEF Editing, NameTest, AddStep, InsertActionRef, InsertActionCopy, ClearAll, LoadExample,
                PatchStep, RemoveStep, MoveStep, EditOnly, Server
  <2> QED
    BY <2>1 DEF RowsCounted
<1>2. CASE Submit
  <2>1. request = Idle /\ request'.at = "sent" /\ page = "open" /\ UNCHANGED << stored, lost, page >>
    BY <1>2 DEF Submit, Server, Busy
  <2> QED
    BY <2>1, <1>0 DEF RowsCounted
<1>3. CASE ServeSubmit
  <2>1. request # Idle /\ request.at = "sent" /\ request'.at = "answered" /\ UNCHANGED << lost, page >>
    BY <1>3 DEF ServeSubmit, Busy, SavesChecked
  <2>2. request' # Idle
    BY <2>1 DEF Idle
  <2>3. stored' = stored \/ \E x : stored' = Append(stored, x)
    BY <1>3 DEF ServeSubmit
  <2>4. Len(stored') <= Len(stored) + 1
    <3>1. ASSUME NEW x, stored' = Append(stored, x) PROVE Len(stored') = Len(stored) + 1
      BY <3>1, AppendList DEF SavesChecked
    <3> QED
      BY <2>3, <3>1, <1>0
  <2>5. Len(stored') \in Nat
    <3>1. ASSUME NEW x, stored' = Append(stored, x) PROVE Len(stored') = Len(stored) + 1
      BY <3>1, AppendList DEF SavesChecked
    <3> QED
      BY <2>3, <3>1, <1>0
  <2> QED
    BY <2>1, <2>2, <2>4, <2>5, <1>0 DEF RowsCounted
<1>4. CASE SaveFails
  <2>1. request' = Idle /\ lost' = lost + 1 /\ page = "open" /\ UNCHANGED << stored, page >>
    BY <1>4 DEF SaveFails
  <2> QED
    BY <2>1, <1>0 DEF RowsCounted
<1>5. CASE Saved
  <2>1. request # Idle /\ request.at = "answered" /\ page' = "leaving" /\ UNCHANGED << request, stored, lost >>
    BY <1>5 DEF Saved, Busy, Server
  <2> QED
    BY <2>1, <1>0 DEF RowsCounted
<1>6. CASE SavedInModal \/ Leave \/ CloseEditor \/ Unanswered
  <2>1. page' = "gone" /\ request' \in {request, Idle} /\ UNCHANGED << stored, lost >>
    BY <1>6 DEF SavedInModal, Leave, CloseEditor, Unanswered, Unmounted, Server
  <2> QED
    BY <2>1, <1>0 DEF RowsCounted
<1>7. CASE SubmitRefused \/ SaveAsAction \/ \E r \in asides : ServeAside(r) \/ AsideSaved(r) \/ AsideFails(r)
  <2>1. UNCHANGED << request, stored, lost, page >>
    BY <1>7 DEF SubmitRefused, SaveAsAction, ServeAside, AsideSaved, AsideFails, Server
  <2> QED
    BY <2>1 DEF RowsCounted
<1> QED
  BY <1>1, <1>2, <1>3, <1>4, <1>5, <1>6, <1>7 DEF Next, Saving

LEMMA BuilderTypesStep ==
    ASSUME BuilderTypes, Next \/ OthersRevise \/ OthersRemove
    PROVE  BuilderTypes'
<1>1. mode.ops \in Nat /\ mode.saves \in Nat
  BY BuilderAssumption DEF BuilderTypes
<1>2. CASE Editing
  <2>1. UNCHANGED << mode, page, saves >> /\ (ops' = ops \/ (ops < mode.ops /\ ops' = ops + 1))
    BY <1>2 DEF Editing, NameTest, AddStep, InsertActionRef, InsertActionCopy, ClearAll, LoadExample,
                PatchStep, RemoveStep, MoveStep, EditOnly, Op
  <2> QED
    BY <2>1, <1>1 DEF BuilderTypes
<1>3. CASE Saving
  <2>1. /\ UNCHANGED << mode, ops >> /\ page' \in {page, "leaving", "gone"}
        /\ saves' = saves \/ (saves < mode.saves /\ saves' = saves + 1)
    BY <1>3 DEF Saving, Submit, SubmitRefused, ServeSubmit, Saved, SavedInModal, SaveFails, Leave, CloseEditor,
                Unanswered, SaveAsAction, ServeAside, AsideSaved, AsideFails, Unmounted
  <2> QED
    BY <2>1, <1>1 DEF BuilderTypes
<1>4. CASE OthersRevise \/ OthersRemove
  <2>1. UNCHANGED << mode, page, saves >> /\ ops < mode.ops /\ ops' = ops + 1
    BY <1>4 DEF OthersRevise, OthersRemove
  <2> QED
    BY <2>1, <1>1 DEF BuilderTypes
<1> QED
  BY <1>2, <1>3, <1>4 DEF Next

LEMMA PlanStep ==
    ASSUME PlanTypes, RunNext
    PROVE  PlanTypes' /\ plan' = plan
<1>1. plan' = plan /\ status' \in {"running", "passed", "failed"} \cup {status}
      /\ (at' = at \/ (at <= Len(plan) /\ at' = at + 1))
  BY DEF RunNext, Skip, Pass, Exit, Fail, Complete, Running
<1> QED
  BY <1>1 DEF PlanTypes

LEMMA StoredIndStep ==
    ASSUME StoredInd, [LifeNext]_lifeVars
    PROVE  StoredInd'
<1>1. FormKnown /\ SavesChecked /\ RowsCounted /\ BuilderTypes /\ PlanTypes
  BY DEF StoredInd
<1>2. CASE Next /\ UNCHANGED runVars
  <2>1. PlanTypes'
    BY <1>1, <1>2 DEF PlanTypes, runVars
  <2> QED
    BY <1>1, <1>2, <2>1, FormStep, SavesStep, RowsStep, BuilderTypesStep DEF StoredInd
<1>3. CASE (OthersRevise \/ OthersRemove) /\ UNCHANGED runVars
  <2>1. PlanTypes'
    BY <1>1, <1>3 DEF PlanTypes, runVars
  <2>2. RowsCounted'
    BY <1>1, <1>3 DEF RowsCounted, OthersRevise, OthersRemove
  <2> QED
    BY <1>1, <1>3, <2>1, <2>2, SavesOthers, BuilderTypesStep DEF StoredInd
<1>4. ASSUME UNCHANGED vars PROVE FormKnown' /\ SavesChecked' /\ RowsCounted' /\ BuilderTypes'
  <2>1. FormKnown'
    BY <1>1, <1>4 DEF FormKnown, vars
  <2>2. SavesChecked'
    BY <1>1, <1>4 DEF SavesChecked, AllStored, vars
  <2>3. RowsCounted' /\ BuilderTypes'
    BY <1>1, <1>4 DEF RowsCounted, BuilderTypes, vars
  <2> QED
    BY <2>1, <2>2, <2>3
<1>5. CASE RunStored
  <2>1. UNCHANGED vars /\ status' \in {"running", "failed"}
    BY <1>5 DEF RunStored, Start, StartFails
  <2>2. PlanTypes'
    BY <1>1, <1>5, <2>1, StartedPlan DEF PlanTypes
  <2> QED
    BY <1>4, <2>1, <2>2 DEF StoredInd
<1>6. CASE RunNext /\ UNCHANGED vars
  BY <1>1, <1>4, <1>6, PlanStep DEF StoredInd
<1>7. CASE UNCHANGED lifeVars
  <2>1. PlanTypes'
    BY <1>1, <1>7 DEF PlanTypes, lifeVars, runVars
  <2> QED
    BY <1>4, <1>7, <2>1 DEF StoredInd, lifeVars
<1> QED
  BY <1>2, <1>3, <1>5, <1>6, <1>7 DEF LifeNext

LEMMA StoredIndInit == LifeInit => StoredInd
BY FormInit, SavesInit, CountsInit DEF LifeInit, StoredInd

LEMMA StoredIndAlways == LifeSpec => []StoredInd
<1>1. LifeInit => StoredInd
  BY StoredIndInit
<1>2. StoredInd /\ [LifeNext]_lifeVars => StoredInd'
  BY StoredIndStep
<1> QED
  BY <1>1, <1>2, PTL DEF LifeSpec

LEMMA StoredIndMeans == StoredInd => StoredInv
<1> SUFFICES ASSUME StoredInd PROVE StoredInv
  OBVIOUS
<1>1. FormKnown /\ SavesChecked /\ RowsCounted /\ BuilderTypes /\ PlanTypes
  BY DEF StoredInd
<1>2. request.at \in {"idle", "sent", "answered"}
  BY <1>1 DEF SavesChecked, Idle
<1>3. TypeOK
  BY <1>1, <1>2 DEF TypeOK, FormKnown, IsEntry, IsStep, BuilderTypes, PlanTypes
<1>4. StoredCanRun
  <2> SUFFICES ASSUME NEW s \in StepsOf(AllStored)
               PROVE  ValidStep(s) /\ (Has(s, "condition") => ~ Blank(s.condition))
    BY DEF StoredCanRun
  <2>1. PICK l \in AllStored : s \in ToSet(l)
    BY DEF StepsOf
  <2>2. PICK i \in DOMAIN l : s = l[i]
    BY <2>1 DEF ToSet
  <2> QED
    BY <1>1, <2>2 DEF SavesChecked, Storable, AllValid, Cleaned, Gates
<1>5. OneRowPerSave
  BY <1>1 DEF RowsCounted, OneRowPerSave
<1> QED
  BY <1>3, <1>4, <1>5 DEF StoredInv

(* Whatever is typed, moved, copied or half done when Save is clicked, however many
   saves fail or are answered after the page is gone, and whatever other users do to
   the actions, every stored step can run and no click makes two rows
   (StepBuilder.tsx:186-195, 317-360). *)
THEOREM RowsStored == LifeSpec => []StoredInv
BY StoredIndAlways, StoredIndMeans, PTL

(* To whatever depth actions refer to each other, what replaces a gated reference is
   gated and no reference reaches a run (expand.ts:18-40). *)
THEOREM ReferencesExpanded == LifeSpec => []ExpansionSound
<1>1. LifeInit => NothingUnexpanded
  BY EmptyList DEF LifeInit, RunInit, NothingUnexpanded
<1>2. StoredInd /\ NothingUnexpanded /\ [LifeNext]_lifeVars => NothingUnexpanded'
  <2> SUFFICES ASSUME StoredInd, NothingUnexpanded, [LifeNext]_lifeVars PROVE NothingUnexpanded'
    OBVIOUS
  <2>1. CASE RunStored
    <3>1. SavesChecked
      BY DEF StoredInd
    <3> QED
      BY <2>1, <3>1, StartedPlan DEF NothingUnexpanded
  <2>2. CASE RunNext
    <3>1. plan' = plan
      BY <2>2, PlanStep DEF StoredInd
    <3> QED
      BY <3>1 DEF NothingUnexpanded
  <2>3. CASE UNCHANGED runVars
    BY <2>3 DEF runVars, NothingUnexpanded
  <2> QED
    BY <2>1, <2>2, <2>3 DEF LifeNext, lifeVars
<1>3. StoredInd /\ NothingUnexpanded => ExpansionSound
  BY Gated DEF StoredInd, ExpansionSound
<1> QED
  BY <1>1, <1>2, <1>3, StoredIndAlways, PTL DEF LifeSpec

-----------------------------------------------------------------------------
(* A run: its variables, its healing and its errors. *)

LEMMA Resolved ==
    ASSUME NEW names
    PROVE  \A k : k \in DOMAIN store => k \in DOMAIN Resolve(names) /\ Resolve(names)[k] = store[k]
<1> DEFINE g == [k \in (names \cap Builtins) \ DOMAIN store |-> Generated[draws + 1]]
<1>1. Resolve(names) = store ++ g
  BY DEF Resolve
<1> HIDE DEF g
<1> QED
  BY <1>1, Merged

LEMMA SeededSecrets ==
    \A k \in DOMAIN Secrets : k \in DOMAIN Seeded /\ Seeded[k] = Secrets[k]
BY Merged DEF Seeded

LEMMA RedactedText ==
    ASSUME NEW text
    PROVE  Redact(text) \in Range(Secrets) => Redact(text) \in Short
<1> SUFFICES ASSUME Redact(text) \in Range(Secrets) PROVE Redact(text) \in Short
  OBVIOUS
<1>1. Range(Secrets) \subseteq {Seeded[k] : k \in DOMAIN Seeded \cap DOMAIN Secrets}
  BY SeededSecrets DEF Range
<1>2. CASE text \in {Seeded[k] : k \in DOMAIN Seeded \cap DOMAIN Secrets} \ Short
  <2>1. Redact(text) = "***"
    BY <1>2 DEF Redact
  <2> QED
    BY <2>1, WordsAssumption
<1>3. CASE text \notin {Seeded[k] : k \in DOMAIN Seeded \cap DOMAIN Secrets} \ Short
  <2>1. Redact(text) = text
    BY <1>3 DEF Redact
  <2> QED
    BY <2>1, <1>1, <1>3
<1> QED
  BY <1>2, <1>3

LEMMA AssignedLater ==
    ASSUME NEW k, NEW first, NEW last \in Int, Assigned(k, first, last), UNCHANGED plan
    PROVE  Assigned(k, first, last + 1)'
BY DEF Assigned


LEMMA Within ==
    ASSUME NEW now \in Int, NEW next \in Int, now <= next
    PROVE  \A n \in Int : \A m \in n .. now - 1 : m \in n .. next - 1
OBVIOUS

LEMMA SameLog ==
    ASSUME PlanTypes, VariablesInv, UNCHANGED << log, plan >>, at' = at \/ at' = at + 1,
           \A k : k \in DOMAIN store => k \in DOMAIN store' /\ store'[k] = store[k],
           status # "ready", status' # "ready", status' = "running" => status = "running",
           error' = error \/ (error' \in Range(Secrets) => error' \in Short)
    PROVE  VariablesInv'
<1>1. at \in Int /\ at' \in Int
  BY DEF PlanTypes
<1>2. LogBehind'
  BY <1>1 DEF VariablesInv, LogBehind
<1>3. \A i \in DOMAIN log : log[i].at \in Int
  BY <1>1 DEF VariablesInv, LogBehind
<1>4. PICK now \in Int, next \in Int : now = at /\ next = at' /\ now <= next
  BY <1>1
<1>5. \A n \in Int : \A m \in n .. now - 1 : m \in n .. next - 1
  BY <1>4, Within
<1>6. \A k : \A n \in Int : Assigned(k, n, at - 1) => Assigned(k, n, at - 1)'
  <2> SUFFICES ASSUME NEW k, NEW n \in Int, Assigned(k, n, at - 1) PROVE Assigned(k, n, at - 1)'
    OBVIOUS
  <2>1. \E m \in n .. now - 1 : plan[m].type \in Writes /\ plan[m].name = k
    BY <1>4 DEF Assigned
  <2>2. \E m \in n .. next - 1 : plan'[m].type \in Writes /\ plan'[m].name = k
    BY <2>1, <1>5
  <2> QED
    BY <2>2, <1>4, Zenon DEF Assigned, Writes
<1>7. BuiltinsKept'
  <2> SUFFICES ASSUME NEW i \in DOMAIN log, NEW k \in DOMAIN log[i].read \cap Builtins
               PROVE  k \in DOMAIN store' /\ (store'[k] = log[i].read[k] \/ Assigned(k, log[i].at, at - 1)')
    BY DEF BuiltinsKept, Assigned
  <2>1. k \in DOMAIN store /\ (store[k] = log[i].read[k] \/ Assigned(k, log[i].at, at - 1))
    BY DEF VariablesInv, BuiltinsKept
  <2> QED
    BY <2>1, <1>6, <1>3
<1>8. SecretsKept'
  <2> SUFFICES ASSUME status' = "running", NEW k \in DOMAIN Secrets
               PROVE  k \in DOMAIN store' /\ (store'[k] = Secrets[k] \/ Assigned(k, 1, at - 1)')
    BY DEF SecretsKept, Assigned
  <2>1. k \in DOMAIN store /\ (store[k] = Secrets[k] \/ Assigned(k, 1, at - 1))
    BY DEF VariablesInv, SecretsKept
  <2> QED
    BY <2>1, <1>6
<1>9. VariablesSound'
  <2>1. BuiltinsStable' /\ SecretsWin'
    BY DEF VariablesInv, VariablesSound, BuiltinsStable, SecretsWin
  <2>2. ErrorsRedacted'
    BY DEF VariablesInv, VariablesSound, ErrorsRedacted
  <2> QED
    BY <2>1, <2>2 DEF VariablesSound
<1>10. ReadyEmpty'
  BY DEF ReadyEmpty
<1> QED
  BY <1>2, <1>7, <1>8, <1>9, <1>10 DEF VariablesInv

(* What a step that passes adds to the log. *)
LEMMA PassedStep ==
    ASSUME PlanTypes, VariablesInv, Pass
    PROVE  VariablesInv'
<1>1. /\ status = "running" /\ status' = status /\ at <= Len(plan) /\ at' = at + 1
      /\ UNCHANGED << plan, error >>
  BY DEF Pass, Running
<1>2. at \in Nat /\ at >= 1 /\ at - 1 \in Int /\ at' - 1 = at
  BY <1>1 DEF PlanTypes
<1>3. IsList(log) /\ \A i \in DOMAIN log : log[i].at \in 1 .. at - 1
  BY DEF VariablesInv, LogBehind
<1> DEFINE values == Resolve(TokensOf(Step))
<1> DEFINE on == UNION {ToSet(Step[k]) : k \in LocatorKeys \cap DOMAIN Step}
<1>4. PICK present \in SUBSET {t \in on : Findable(t)} : \E value :
           /\ store' = IF Step.type \in Writes THEN Entry(Step.name, value) ++ values ELSE values
           /\ log' = Append(log, Asked(Step, Chosen(Step, present), values))
  BY DEF Pass
<1>5. PICK value :
           /\ store' = IF Step.type \in Writes THEN Entry(Step.name, value) ++ values ELSE values
           /\ log' = Append(log, Asked(Step, Chosen(Step, present), values))
  BY <1>4
<1> DEFINE entry == Asked(Step, Chosen(Step, present), values)
<1>6. \A k : k \in DOMAIN store => k \in DOMAIN values /\ values[k] = store[k]
  BY Resolved
<1>7. /\ entry.at = at /\ entry.on = Chosen(Step, present)
      /\ \A k \in DOMAIN entry.read : k \in DOMAIN values /\ entry.read[k] = values[k]
  BY DEF Asked, Restrict
<1> HIDE DEF values, entry
<1>8. \A k : k \in DOMAIN values =>
          k \in DOMAIN store' /\ (store'[k] = values[k] \/ (plan[at].type \in Writes /\ plan[at].name = k))
  <2>1. CASE Step.type \in Writes
    <3>1. store' = Entry(Step.name, value) ++ values
      BY <1>5, <2>1
    <3> QED
      BY <2>1, <3>1, Entered DEF Step
  <2>2. CASE Step.type \notin Writes
    BY <1>5, <2>2
  <2> QED
    BY <2>1, <2>2
<1>9. Len(log) \in Nat /\ DOMAIN log = 1 .. Len(log)
  BY <1>3, ListDomain
<1>10. log' = Append(log, entry)
  BY <1>5 DEF entry, values
<1>11. /\ IsList(log') /\ DOMAIN log' = 1 .. Len(log) + 1
       /\ \A i \in 1 .. Len(log) : log'[i] = log[i]
       /\ log'[Len(log) + 1] = entry
  BY <1>3, <1>10, AppendList
<1>12. \A i \in DOMAIN log' : (i \in DOMAIN log /\ log'[i] = log[i]) \/ (i = Len(log) + 1 /\ log'[i] = entry)
  BY <1>9, <1>11
(* An assignment before this step, or at it. *)
<1> DEFINE Since(k, n) == \E m \in n .. at : plan[m].type \in Writes /\ plan[m].name = k
<1>13. \A k : \A n \in Int : Assigned(k, n, at - 1) => Since(k, n)
  <2> SUFFICES ASSUME NEW k, NEW n \in Int, Assigned(k, n, at - 1) PROVE Since(k, n)
    OBVIOUS
  <2>1. PICK m \in n .. at - 1 : plan[m].type \in Writes /\ plan[m].name = k
    BY DEF Assigned
  <2>2. m \in n .. at
    BY <1>2, <2>1
  <2> QED
    BY <2>1, <2>2
<1>14. \A k : \A n \in Int : n <= at /\ plan[at].type \in Writes /\ plan[at].name = k => Since(k, n)
  <2> SUFFICES ASSUME NEW k, NEW n \in Int, n <= at, plan[at].type \in Writes, plan[at].name = k
               PROVE  Since(k, n)
    OBVIOUS
  <2>1. at \in n .. at
    BY <1>2
  <2> QED
    BY <2>1
<1>15. \A i \in DOMAIN log' : log'[i].at \in 1 .. at
  <2> SUFFICES ASSUME NEW i \in DOMAIN log' PROVE log'[i].at \in 1 .. at
    OBVIOUS
  <2>1. CASE i \in DOMAIN log /\ log'[i] = log[i]
    BY <2>1, <1>2, <1>3
  <2>2. CASE log'[i] = entry
    BY <2>2, <1>2, <1>7
  <2> QED
    BY <2>1, <2>2, <1>12
<1>16. LogBehind'
  BY <1>2, <1>11, <1>15 DEF LogBehind
(* A name of the store has its value, or the step before assigned it. *)
<1>17. \A k : \A n \in Int :
           n <= at /\ k \in DOMAIN values
              => k \in DOMAIN store' /\ (store'[k] = values[k] \/ Since(k, n))
  BY <1>8, <1>14
<1>18. \A i \in DOMAIN log' : \A k \in DOMAIN log'[i].read \cap Builtins :
           k \in DOMAIN values /\ (values[k] = log'[i].read[k] \/ Since(k, log'[i].at))
  <2> SUFFICES ASSUME NEW i \in DOMAIN log', NEW k \in DOMAIN log'[i].read \cap Builtins
               PROVE  k \in DOMAIN values /\ (values[k] = log'[i].read[k] \/ Since(k, log'[i].at))
    OBVIOUS
  <2>1. CASE i \in DOMAIN log /\ log'[i] = log[i]
    <3>1. log[i].at \in Int
      BY <2>1, <1>2, <1>3
    <3>2. k \in DOMAIN store /\ (store[k] = log[i].read[k] \/ Assigned(k, log[i].at, at - 1))
      BY <2>1 DEF VariablesInv, BuiltinsKept
    <3> HIDE DEF Since
    <3> QED
      BY <2>1, <3>1, <3>2, <1>6, <1>13
  <2>2. CASE log'[i] = entry
    BY <2>2, <1>7
  <2> QED
    BY <2>1, <2>2, <1>12
<1>19. BuiltinsKept'
  <2> SUFFICES ASSUME NEW i \in DOMAIN log', NEW k \in DOMAIN log'[i].read \cap Builtins
               PROVE  k \in DOMAIN store' /\ (store'[k] = log'[i].read[k] \/ Since(k, log'[i].at))
    <3>1. \A k, n : Since(k, n) <=> \E m \in n .. at' - 1 : plan'[m].type \in Writes /\ plan'[m].name = k
      BY <1>1, <1>2
    <3> HIDE DEF Since
    <3> QED
      BY <3>1 DEF BuiltinsKept, Assigned, Writes
  <2>1. log'[i].at \in Int /\ log'[i].at <= at
    BY <1>2, <1>15
  <2>2. k \in DOMAIN values /\ (values[k] = log'[i].read[k] \/ Since(k, log'[i].at))
    BY <1>18
  <2> HIDE DEF Since
  <2> QED
    BY <2>1, <2>2, <1>17
<1>20. \A k \in DOMAIN Secrets : k \in DOMAIN values /\ (values[k] = Secrets[k] \/ Assigned(k, 1, at - 1))
  BY <1>1, <1>6 DEF VariablesInv, SecretsKept
<1>21. SecretsKept'
  <2> SUFFICES ASSUME NEW k \in DOMAIN Secrets
               PROVE  k \in DOMAIN store' /\ (store'[k] = Secrets[k] \/ Since(k, 1))
    BY <1>1, <1>2 DEF SecretsKept, Assigned, Writes
  <2>1. k \in DOMAIN values /\ (values[k] = Secrets[k] \/ Since(k, 1))
    <3> HIDE DEF Since
    <3> QED
      BY <1>13, <1>20
  <2> HIDE DEF Since
  <2> QED
    BY <2>1, <1>2, <1>17
<1>22. \A i \in DOMAIN log : \A k \in DOMAIN log[i].read \cap DOMAIN entry.read \cap Builtins :
           log[i].read[k] = entry.read[k] \/ Assigned(k, log[i].at, at - 1)
  <2> SUFFICES ASSUME NEW i \in DOMAIN log, NEW k \in DOMAIN log[i].read \cap DOMAIN entry.read \cap Builtins
               PROVE  log[i].read[k] = entry.read[k] \/ Assigned(k, log[i].at, at - 1)
    OBVIOUS
  <2>1. k \in DOMAIN store /\ (store[k] = log[i].read[k] \/ Assigned(k, log[i].at, at - 1))
    BY DEF VariablesInv, BuiltinsKept
  <2> QED
    BY <2>1, <1>6, <1>7
<1>23. BuiltinsStable'
  <2> SUFFICES ASSUME NEW i \in DOMAIN log', NEW j \in DOMAIN log', i < j,
                      NEW k \in DOMAIN log'[i].read \cap DOMAIN log'[j].read \cap Builtins
               PROVE  \/ log'[i].read[k] = log'[j].read[k]
                      \/ \E n \in log'[i].at .. log'[j].at - 1 : plan[n].type \in Writes /\ plan[n].name = k
    BY <1>1 DEF BuiltinsStable, Writes
  <2>1. i \in DOMAIN log /\ log'[i] = log[i]
    BY <1>9, <1>11
  <2>2. CASE j \in DOMAIN log /\ log'[j] = log[j]
    BY <2>1, <2>2 DEF VariablesInv, VariablesSound, BuiltinsStable
  <2>3. CASE log'[j] = entry
    BY <2>1, <2>3, <1>7, <1>22 DEF Assigned
  <2> QED
    BY <2>2, <2>3, <1>12
<1>24. SecretsWin'
  <2> SUFFICES ASSUME NEW i \in DOMAIN log', NEW k \in DOMAIN log'[i].read \cap DOMAIN Secrets
               PROVE  \/ log'[i].read[k] = Secrets[k]
                      \/ \E n \in 1 .. log'[i].at - 1 : plan[n].type \in Writes /\ plan[n].name = k
    BY <1>1 DEF SecretsWin, Writes
  <2>1. CASE i \in DOMAIN log /\ log'[i] = log[i]
    BY <2>1 DEF VariablesInv, VariablesSound, SecretsWin
  <2>2. CASE log'[i] = entry
    BY <2>2, <1>7, <1>20 DEF Assigned
  <2> QED
    BY <2>1, <2>2, <1>12
<1>25. ErrorsRedacted'
  BY <1>1 DEF VariablesInv, VariablesSound, ErrorsRedacted
<1>26. ReadyEmpty'
  BY <1>1 DEF ReadyEmpty
<1> QED
  BY <1>16, <1>19, <1>21, <1>23, <1>24, <1>25, <1>26 DEF VariablesInv, VariablesSound

(* A run that has asked nothing yet. *)
LEMMA EmptyLog ==
    log = << >> /\ SecretsKept /\ ErrorsRedacted => VariablesInv
<1> SUFFICES ASSUME log = << >>, SecretsKept, ErrorsRedacted PROVE VariablesInv
  OBVIOUS
<1>1. IsList(log) /\ DOMAIN log = {}
  BY EmptyList
<1>2. LogBehind /\ BuiltinsKept /\ BuiltinsStable /\ SecretsWin
  BY <1>1 DEF LogBehind, BuiltinsKept, BuiltinsStable, SecretsWin
<1>3. ReadyEmpty
  BY DEF ReadyEmpty
<1> QED
  BY <1>2, <1>3 DEF VariablesInv, VariablesSound

LEMMA EmptyLogNext ==
    log' = << >> /\ SecretsKept' /\ ErrorsRedacted' => VariablesInv'
<1>1. (log = << >> /\ SecretsKept /\ ErrorsRedacted)' => VariablesInv'
  BY EmptyLog, PTL
<1> QED
  BY <1>1

LEMMA VariablesInit == LifeInit => VariablesInv
<1> SUFFICES ASSUME LifeInit PROVE VariablesInv
  OBVIOUS
<1>1. log = << >> /\ status = "ready" /\ error = ""
  BY DEF LifeInit, RunInit
<1>2. SecretsKept
  BY <1>1 DEF SecretsKept
<1>3. ErrorsRedacted
  BY <1>1, WordsAssumption DEF ErrorsRedacted
<1> QED
  BY <1>1, <1>2, <1>3, EmptyLog

LEMMA VariablesBegin ==
    ASSUME VariablesInv, RunStored
    PROVE  VariablesInv'
<1>1. CASE Start(Plan)
  <2>1. log' = << >> /\ store' = Seeded /\ error' = ""
    BY <1>1 DEF Start
  <2>2. SecretsKept'
    BY <2>1, SeededSecrets DEF SecretsKept
  <2>3. ErrorsRedacted'
    BY <2>1, WordsAssumption DEF ErrorsRedacted
  <2> QED
    BY <2>1, <2>2, <2>3, EmptyLogNext
<1>2. CASE StartFails
  <2>1. log' = log /\ status = "ready" /\ status' = "failed" /\ error' = "tooDeep"
    BY <1>2 DEF StartFails
  <2>2. log' = << >>
    BY <2>1 DEF VariablesInv, ReadyEmpty
  <2>3. SecretsKept'
    BY <2>1 DEF SecretsKept
  <2>4. ErrorsRedacted'
    BY <2>1, WordsAssumption DEF ErrorsRedacted
  <2> QED
    BY <2>2, <2>3, <2>4, EmptyLogNext
<1> QED
  BY <1>1, <1>2 DEF RunStored

LEMMA VariablesStep ==
    ASSUME PlanTypes, VariablesInv, RunNext
    PROVE  VariablesInv'
<1>1. ErrorsRedacted
  BY DEF VariablesInv, VariablesSound
<1>2. CASE Pass
  BY <1>2, PassedStep
<1>3. CASE Skip
  <2>1. PICK names : store' = Resolve(names)
    BY <1>3 DEF Skip
  <2>2. \A k : k \in DOMAIN store => k \in DOMAIN store' /\ store'[k] = store[k]
    BY <2>1, Resolved
  <2> QED
    BY <1>3, <2>2, SameLog DEF Skip, Running
<1>4. CASE Fail
  <2>1. \A k : k \in DOMAIN store => k \in DOMAIN store' /\ store'[k] = store[k]
    BY <1>4, Resolved DEF Fail
  <2>2. PICK text : error' = Redact(text)
    BY <1>4 DEF Fail
  <2>3. error' \in Range(Secrets) => error' \in Short
    BY <2>2, RedactedText
  <2> QED
    BY <1>4, <2>1, <2>3, SameLog DEF Fail, Running
<1>5. CASE Exit
  <2>1. error' \in Range(Secrets) => error' \in Short
    BY <1>5, WordsAssumption DEF Exit
  <2> QED
    BY <1>5, <2>1, SameLog DEF Exit, Running
<1>6. CASE Complete
  BY <1>6, SameLog DEF Complete
<1> QED
  BY <1>2, <1>3, <1>4, <1>5, <1>6 DEF RunNext

LEMMA VariablesInvAlways == LifeSpec => []VariablesInv
<1>1. LifeInit => VariablesInv
  BY VariablesInit
<1>2. StoredInd /\ VariablesInv /\ [LifeNext]_lifeVars => VariablesInv'
  <2> SUFFICES ASSUME PlanTypes, VariablesInv, [LifeNext]_lifeVars PROVE VariablesInv'
    BY DEF StoredInd
  <2>1. CASE RunStored
    BY <2>1, VariablesBegin
  <2>2. CASE RunNext
    BY <2>2, VariablesStep
  <2>3. CASE UNCHANGED runVars
    <3>1. LogBehind' /\ BuiltinsKept' /\ SecretsKept' /\ ReadyEmpty'
      BY <2>3 DEF runVars, VariablesInv, LogBehind, BuiltinsKept, SecretsKept, ReadyEmpty, Assigned, Writes
    <3>2. VariablesSound'
      BY <2>3 DEF runVars, VariablesInv, VariablesSound, BuiltinsStable, SecretsWin, ErrorsRedacted, Writes
    <3> QED
      BY <3>1, <3>2 DEF VariablesInv
  <2> QED
    BY <2>1, <2>2, <2>3 DEF LifeNext, lifeVars
<1> QED
  BY <1>1, <1>2, StoredIndAlways, PTL DEF LifeSpec

(* In every run of every saved test, whatever its plan: a built-in is drawn once,
   no column hides a secret and no stored error shows one, copied or not
   (variables.ts:68-82, run.ts:270-298). *)
THEOREM VariablesMeanOneThing == LifeSpec => []VariablesSound
<1>1. VariablesInv => VariablesSound
  BY DEF VariablesInv
<1> QED
  BY <1>1, VariablesInvAlways, PTL

-----------------------------------------------------------------------------
(* What a form shows can be told, saved and written as a script.  Of a step's
   elements each has a strategy, empty or not, and a flag is a flag. *)
WellStep(s) ==
    /\ \A k \in LocatorKeys \cap DOMAIN s : DOMAIN s[k] \cap Strategies # {}
    /\ Has(s, "double") => s.double \in BOOLEAN

LEMMA DefaultNames ==
    ASSUME NEW type
    PROVE  DOMAIN For(Defaults, type, << >>) \cap (LocatorKeys \cup {"double", "button"}) = {}
<1>1. CASE type \notin DOMAIN Defaults
  BY <1>1, EmptyList DEF For
<1>2. CASE type \in DOMAIN Defaults
  <2>1. type \in {"waitForLoadState", "assertText", "assertNotText", "assertUrl", "exit", "screenshot", "visualCheck"}
    BY <1>2 DEF Defaults
  <2>2. For(Defaults, type, << >>) = Defaults[type]
    BY <1>2 DEF For
  <2> QED
    BY <2>1, <2>2 DEF Defaults, LocatorKeys
<1> QED
  BY <1>1, <1>2

(* What parsing makes of a step's fields. *)
LEMMA ParsedFields ==
    ASSUME NEW s, NEW k
    PROVE  LET p == ParseStep(s)
               d == For(Defaults, s.type, << >>)
           IN  /\ k \in DOMAIN p <=> k \in DOMAIN s \cap Known(s.type) \/ k \in DOMAIN d
               /\ k \in DOMAIN s \cap Known(s.type) => p[k] = s[k]
               /\ k \in DOMAIN d /\ k \notin DOMAIN s \cap Known(s.type) => p[k] = d[k]
<1> DEFINE D == DOMAIN s \cap Known(s.type)
           f == Restrict(s, D)
           g == For(Defaults, s.type, << >>)
<1>1. ParseStep(s) = f ++ g
  BY DEF ParseStep
<1>2. DOMAIN f = D /\ \A x \in D : f[x] = s[x]
  BY Restricted
<1> HIDE DEF f, g
<1> QED
  BY <1>1, <1>2, Merged DEF g

LEMMA ValidWell ==
    ASSUME NEW s, IsStep(s), ValidStep(s)
    PROVE  WellStep(ParseStep(s))
<1> DEFINE p == ParseStep(s)
<1>1. p.type = s.type
  BY ParsedStep
<1>2. ASSUME NEW k \in LocatorKeys \cap DOMAIN p PROVE DOMAIN p[k] \cap Strategies # {}
  <2>1. k \in DOMAIN s \cap Known(s.type) /\ p[k] = s[k]
    BY <1>2, ParsedFields, DefaultNames
  <2>2. HasStrategy(s[k])
    BY <2>1, <1>2 DEF ValidStep
  <2> QED
    BY <2>1, <2>2 DEF HasStrategy, Has
<1>3. ASSUME Has(p, "double") PROVE p.double \in BOOLEAN
  <2>1. "double" \in DOMAIN s \cap Known(s.type) /\ p.double = s.double
    BY <1>3, ParsedFields, DefaultNames DEF Has
  <2> QED
    BY <2>1 DEF ValidStep
<1> QED
  BY <1>2, <1>3 DEF WellStep

(* A field is set; fields are set or go. *)
LEMMA WellEntered ==
    ASSUME NEW s, WellStep(s), NEW k, NEW v,
           k \in LocatorKeys => DOMAIN v \cap Strategies # {}, k = "double" => v \in BOOLEAN
    PROVE  WellStep(Entry(k, v) ++ s)
<1> DEFINE t == Entry(k, v) ++ s
<1>1. \A x \in DOMAIN t : (x = k /\ t[x] = v) \/ (x # k /\ x \in DOMAIN s /\ t[x] = s[x])
  BY Entered
<1> HIDE DEF t
<1>2. ASSUME NEW x \in LocatorKeys \cap DOMAIN t PROVE DOMAIN t[x] \cap Strategies # {}
  BY <1>1, <1>2 DEF WellStep
<1>3. Has(t, "double") => t.double \in BOOLEAN
  BY <1>1 DEF WellStep, Has
<1> QED
  BY <1>2, <1>3 DEF WellStep, t

LEMMA WellMerged ==
    ASSUME NEW s, WellStep(s), NEW S, NEW f, WellStep(f)
    PROVE  WellStep(f ++ Without(s, S)) /\ WellStep(f ++ s) /\ WellStep(Without(s, S))
<1>1. ASSUME NEW g, WellStep(g) PROVE WellStep(f ++ g)
  <2> DEFINE t == f ++ g
  <2>1. \A x \in DOMAIN t : (x \in DOMAIN f /\ t[x] = f[x]) \/ (x \in DOMAIN g /\ t[x] = g[x])
    BY Merged
  <2> HIDE DEF t
  <2>2. ASSUME NEW x \in LocatorKeys \cap DOMAIN t PROVE DOMAIN t[x] \cap Strategies # {}
    BY <1>1, <2>1 DEF WellStep
  <2>3. Has(t, "double") => t.double \in BOOLEAN
    BY <1>1, <2>1 DEF WellStep, Has
  <2> QED
    BY <2>2, <2>3 DEF WellStep, t
<1>2. WellStep(Without(s, S))
  <2>1. \A x \in DOMAIN Without(s, S) : x \in DOMAIN s /\ Without(s, S)[x] = s[x]
    BY Lacking
  <2> QED
    BY <2>1 DEF WellStep, Has
<1> QED
  BY <1>1, <1>2

LEMMA FirstOf ==
    ASSUME NEW order, NEW l, NEW none, Len(order) \in Nat
    PROVE  \/ FirstSet(order, l, none) = none /\ \A i \in 1 .. Len(order) : ~ Has(l, order[i])
           \/ \E n \in 1 .. Len(order) :
                 FirstSet(order, l, none) = order[n] /\ Has(l, order[n]) /\ \A i \in 1 .. n - 1 : ~ Has(l, order[i])
<1> DEFINE I == {i \in 1 .. Len(order) : Has(l, order[i])}
<1>1. SelectInSeq(order, LAMBDA k : Has(l, k)) = IF I # {} THEN Min(I) ELSE 0
  BY DEF SelectInSeq
<1>2. CASE I = {}
  <2>1. FirstSet(order, l, none) = none
    BY <1>1, <1>2 DEF FirstSet
  <2> QED
    BY <2>1, <1>2
<1>3. CASE I # {}
  <2>1. I \subseteq Nat
    OBVIOUS
  <2>2. \E x \in I : \A y \in I : x <= y
    <3> HIDE DEF I
    <3> QED
      BY <1>3, <2>1, MinNat
  <2>3. Min(I) \in I /\ \A y \in I : Min(I) <= y
    BY <2>2 DEF Min
  <2>4. Min(I) # 0 /\ Min(I) \in 1 .. Len(order) /\ Has(l, order[Min(I)])
    BY <2>3
  <2>5. \A i \in 1 .. Min(I) - 1 : ~ Has(l, order[i])
    BY <2>3, <2>4
  <2> HIDE DEF I
  <2>6. FirstSet(order, l, none) = order[Min(I)]
    BY <1>1, <1>3, <2>4 DEF FirstSet
  <2> QED
    BY <2>4, <2>5, <2>6
<1> QED
  BY <1>2, <1>3

LEMMA StrategyKnown ==
    ASSUME NEW l
    PROVE  /\ StrategyOf(l) \in Strategies
           /\ StrategyOf(l) \in DOMAIN l \/ (DOMAIN l \cap Strategies = {} /\ StrategyOf(l) = "role")
<1>1. Len(StratKeys) = 10 /\ Strategies = {StratKeys[i] : i \in 1 .. 10}
  <2>1. Len(StratKeys) = 10
    BY DEF StratKeys
  <2>2. \A x : x \in Strategies <=> \E i \in 1 .. 10 : x = StratKeys[i]
    BY DEF Strategies, StratKeys
  <2> QED
    BY <2>1, <2>2
<1>2. \/ StrategyOf(l) = "role" /\ \A i \in 1 .. 10 : ~ Has(l, StratKeys[i])
      \/ \E n \in 1 .. 10 : StrategyOf(l) = StratKeys[n] /\ Has(l, StratKeys[n])
  <2>1. Len(StratKeys) \in Nat
    BY <1>1
  <2>2. \/ FirstSet(StratKeys, l, "role") = "role" /\ \A i \in 1 .. Len(StratKeys) : ~ Has(l, StratKeys[i])
        \/ \E n \in 1 .. Len(StratKeys) : FirstSet(StratKeys, l, "role") = StratKeys[n] /\ Has(l, StratKeys[n])
    BY <2>1, FirstOf
  <2> QED
    BY <1>1, <2>2 DEF StrategyOf
<1>3. "role" \in Strategies
  BY DEF Strategies
<1> QED
  BY <1>1, <1>2, <1>3 DEF Has

(* What a retargeted element takes over. *)
Kept == {"exact", "nth", "fallbacks"}

LEMMA Retargeted ==
    ASSUME NEW l, NEW strategy \in Strategies, NEW value
    PROVE  LET m == WithStrategy(l, strategy, value) IN
           /\ DOMAIN m \cap Strategies # {}
           /\ \A x \in Kept : (x \in DOMAIN m <=> x \in DOMAIN l) /\ (x \in DOMAIN l => m[x] = l[x])
<1> DEFINE D == DOMAIN l \cap Kept
           f == Restrict(l, D)
           g == IF strategy # "role" THEN Entry(strategy, value)
                ELSE [role |-> For(l, "role", "button")] ++ (IF value = "" THEN << >> ELSE [name |-> value])
<1>1. WithStrategy(l, strategy, value) = f ++ g
  BY DEF WithStrategy, Kept
<1>2. DOMAIN f = D /\ \A x \in D : f[x] = l[x]
  BY Restricted
<1>3. DOMAIN g \cap Kept = {} /\ DOMAIN g \cap Strategies # {}
  <2>1. Strategies \cap Kept = {} /\ "role" \in Strategies /\ "name" \notin Kept
    BY DEF Strategies, Kept
  <2>2. CASE strategy # "role"
    BY <2>1, <2>2 DEF Entry
  <2>3. CASE strategy = "role"
    <3> DEFINE n == IF value = "" THEN << >> ELSE [name |-> value]
    <3>1. DOMAIN n \subseteq {"name"}
      <4>1. CASE value = ""
        BY <4>1, EmptyList
      <4> QED
        BY <4>1
    <3> HIDE DEF n
    <3>2. DOMAIN [role |-> For(l, "role", "button")] = {"role"}
      OBVIOUS
    <3>3. \A x : x \in DOMAIN g <=> x = "role" \/ x \in DOMAIN n
      <4>1. g = [role |-> For(l, "role", "button")] ++ n
        BY <2>3 DEF n
      <4> HIDE DEF g
      <4> QED
        BY <4>1, <3>2, Merged
    <3> QED
      BY <2>1, <3>1, <3>3
  <2> QED
    BY <2>2, <2>3
<1> HIDE DEF f, g
<1> QED
  BY <1>1, <1>2, <1>3, Merged

(* Choosing how an element is found changes no modifier; the drawer changes nothing
   else; either leaves it a strategy. *)
LEMMA StrategyEdited ==
    ASSUME NEW l, NEW m \in StrategyEdits(l)
    PROVE  /\ DOMAIN m \cap Strategies # {}
           /\ \A x \in Kept : (x \in DOMAIN m <=> x \in DOMAIN l) /\ (x \in DOMAIN l => m[x] = l[x])
<1>1. Offered \subseteq Strategies
  BY DEF Offered, Strategies
<1>2. \/ \E k \in Offered : m = WithStrategy(l, k, PrimaryValue(l))
      \/ \E v \in Texts : m = WithStrategy(l, StrategyOf(l), v)
      \/ m = [role |-> "link"] ++ l
  BY DEF StrategyEdits
<1>3. CASE m = [role |-> "link"] ++ l
  <2>1. DOMAIN [role |-> "link"] = {"role"}
    OBVIOUS
  <2>2. /\ \A x : x \in DOMAIN m <=> x = "role" \/ x \in DOMAIN l
        /\ \A x : x \in DOMAIN l /\ x # "role" => m[x] = l[x]
    BY <1>3, <2>1, Merged
  <2>3. "role" \in Strategies /\ "role" \notin Kept
    BY DEF Strategies, Kept
  <2> QED
    BY <2>2, <2>3
<1> QED
  BY <1>1, <1>2, <1>3, Retargeted, StrategyKnown

LEMMA DrawerEdited ==
    ASSUME NEW l, NEW m \in DrawerEdits(l)
    PROVE  /\ \A x : x \notin Kept => (x \in DOMAIN m <=> x \in DOMAIN l)
           /\ \A x \in DOMAIN l : x \notin Kept => m[x] = l[x]
<1>1. \/ m = [exact |-> TRUE] ++ l \/ \E n \in {0, 2} : m = [nth |-> n - 1] ++ l
      \/ m = Without(l, {"exact"}) \/ m = Without(l, {"nth"})
      \/ \E fs : m = WithBackups(l, fs)
  BY DEF DrawerEdits
<1>2. "exact" \in Kept /\ "nth" \in Kept /\ "fallbacks" \in Kept
  BY DEF Kept
<1>3. ASSUME NEW k \in Kept PROVE /\ \A x : x \notin Kept => (x \in DOMAIN Without(l, {k}) <=> x \in DOMAIN l)
                                  /\ \A x \in DOMAIN l : x \notin Kept => Without(l, {k})[x] = l[x]
  BY Lacking
<1>4. ASSUME NEW f, DOMAIN f \subseteq Kept PROVE /\ \A x : x \notin Kept => (x \in DOMAIN (f ++ l) <=> x \in DOMAIN l)
                                                  /\ \A x \in DOMAIN l : x \notin Kept => (f ++ l)[x] = l[x]
  BY <1>4, Merged
<1>5. CASE \E fs : m = WithBackups(l, fs)
  <2>1. PICK fs : m = WithBackups(l, fs)
    BY <1>5
  <2>2. m = Without(l, {"fallbacks"}) \/ m = [fallbacks |-> fs] ++ l
    BY <2>1 DEF WithBackups
  <2>3. DOMAIN [fallbacks |-> fs] \subseteq Kept
    BY <1>2
  <2> QED
    BY <2>2, <2>3, <1>2, <1>3, <1>4
<1>6. CASE m = [exact |-> TRUE] ++ l
  <2>1. DOMAIN [exact |-> TRUE] \subseteq Kept
    BY <1>2
  <2> QED
    BY <2>1, <1>6, <1>4
<1>7. CASE \E n \in {0, 2} : m = [nth |-> n - 1] ++ l
  <2>1. PICK n \in {0, 2} : m = [nth |-> n - 1] ++ l
    BY <1>7
  <2>2. DOMAIN [nth |-> n - 1] \subseteq Kept
    BY <1>2
  <2> QED
    BY <2>1, <2>2, <1>4
<1> QED
  BY <1>1, <1>2, <1>3, <1>5, <1>6, <1>7

LEMMA MadeFields ==
    ASSUME NEW t \in DOMAIN Made
    PROVE  /\ "double" \notin DOMAIN Made[t]
           /\ \A k \in LocatorKeys \cap DOMAIN Made[t] : \E kind : Made[t][k] = [role |-> kind]
<1> DEFINE Plain == {"goto", "back", "refresh", "scroll", "press", "assertUrl", "visualCheck", "wait", "waitForUrl",
                     "waitForLoadState", "screenshot", "setVar", "aiStep", "extractJs", "execJs", "assertJs", "exit"}
           One == {"click", "fill", "select", "hover", "upload", "totp", "assertVisible", "assertText",
                   "assertNotVisible", "assertPresent", "assertNotPresent", "assertNotText", "extract"}
<1>1. t \in Plain \/ t \in One \/ t = "dragAndDrop"
  BY DEF Made
<1>2. CASE t \in Plain
  <2>1. /\ DOMAIN Made["goto"] = {"url"} /\ DOMAIN Made["back"] = {} /\ DOMAIN Made["refresh"] = {}
        /\ DOMAIN Made["scroll"] = {} /\ DOMAIN Made["press"] = {"key"}
        /\ DOMAIN Made["assertUrl"] = {"url", "exact"} /\ DOMAIN Made["visualCheck"] = {"name", "fullPage"}
    BY EmptyList DEF Made
  <2>2. /\ DOMAIN Made["wait"] = {"timeoutMs"} /\ DOMAIN Made["waitForUrl"] = {"url"}
        /\ DOMAIN Made["waitForLoadState"] = {"state"} /\ DOMAIN Made["screenshot"] = {"fullPage"}
        /\ DOMAIN Made["setVar"] = {"name", "value"}
    BY DEF Made
  <2>3. /\ DOMAIN Made["aiStep"] = {"instruction"} /\ DOMAIN Made["extractJs"] = {"name", "code"}
        /\ DOMAIN Made["execJs"] = {"code"} /\ DOMAIN Made["assertJs"] = {"code"} /\ DOMAIN Made["exit"] = {"pass"}
    BY DEF Made
  <2> DEFINE D == [x \in Plain |-> DOMAIN Made[x]]
  <2>4. \A x \in Plain : D[x] \cap {"locator", "from", "to", "double"} = {}
    BY <2>1, <2>2, <2>3
  <2>5. D[t] = DOMAIN Made[t]
    BY <1>2
  <2> QED
    BY <1>2, <2>4, <2>5 DEF LocatorKeys
<1>3. CASE t \in One
  <2>1. /\ DOMAIN Made["click"] = {"locator"} /\ DOMAIN Made["fill"] = {"locator", "value"}
        /\ DOMAIN Made["select"] = {"locator", "values"} /\ DOMAIN Made["hover"] = {"locator"}
        /\ DOMAIN Made["upload"] = {"locator", "files"} /\ DOMAIN Made["totp"] = {"locator", "secret"}
        /\ DOMAIN Made["assertVisible"] = {"locator"}
    BY DEF Made
  <2>2. /\ DOMAIN Made["assertText"] = {"locator", "text", "mode"} /\ DOMAIN Made["assertNotVisible"] = {"locator"}
        /\ DOMAIN Made["assertPresent"] = {"locator"} /\ DOMAIN Made["assertNotPresent"] = {"locator"}
        /\ DOMAIN Made["assertNotText"] = {"locator", "text", "mode"} /\ DOMAIN Made["extract"] = {"name", "locator"}
    BY DEF Made
  <2>3. /\ Made["click"].locator = [role |-> "button"] /\ Made["fill"].locator = [role |-> "textbox"]
        /\ Made["select"].locator = [role |-> "combobox"] /\ Made["hover"].locator = [role |-> "button"]
        /\ Made["upload"].locator = [role |-> "button"] /\ Made["totp"].locator = [role |-> "textbox"]
        /\ Made["assertVisible"].locator = [role |-> "heading"]
    BY DEF Made
  <2>4. /\ Made["assertText"].locator = [role |-> "heading"] /\ Made["assertNotVisible"].locator = [role |-> "heading"]
        /\ Made["assertPresent"].locator = [role |-> "button"] /\ Made["assertNotPresent"].locator = [role |-> "button"]
        /\ Made["assertNotText"].locator = [role |-> "heading"] /\ Made["extract"].locator = [role |-> "heading"]
    BY DEF Made
  <2>5. \A x \in One : DOMAIN Made[x] \cap {"from", "to", "double"} = {}
    BY <2>1, <2>2
  <2>6. \A x \in One : \E kind : Made[x].locator = [role |-> kind]
    BY <2>3, <2>4
  <2> QED
    BY <1>3, <2>5, <2>6 DEF LocatorKeys
<1>4. CASE t = "dragAndDrop"
  <2>1. DOMAIN Made["dragAndDrop"] = {"from", "to"} /\ Made["dragAndDrop"].from = [role |-> "button"]
        /\ Made["dragAndDrop"].to = [role |-> "button"]
    BY DEF Made
  <2> QED
    BY <1>4, <2>1 DEF LocatorKeys
<1> QED
  BY <1>1, <1>2, <1>3, <1>4

(* The fields that are typed into or chosen are none of these. *)
LEMMA TextFieldsPlain ==
    ASSUME NEW type PROVE For(TextInputs, type, {}) \cap (LocatorKeys \cup {"double"}) = {}
<1>1. CASE type \in DOMAIN TextInputs
  <2>1. \A t \in DOMAIN TextInputs : TextInputs[t] \cap (LocatorKeys \cup {"double"}) = {}
    BY DEF TextInputs, LocatorKeys
  <2> QED
    BY <1>1, <2>1 DEF For
<1>2. CASE type \notin DOMAIN TextInputs
  BY <1>2 DEF For
<1> QED
  BY <1>1, <1>2

LEMMA PlainWell ==
    ASSUME NEW f, DOMAIN f \cap (LocatorKeys \cup {"double"}) = {}
    PROVE  WellStep(f)
BY DEF WellStep, Has

LEMMA EditedWell ==
    ASSUME NEW s, WellStep(s), NEW t \in Edits(s)
    PROVE  WellStep(t)
<1>0. "role" \in Strategies
  BY DEF Strategies
<1>1. CASE t \in LocatorEdits(s)
  <2> DEFINE Fields == (LocatorKeys \cap DOMAIN s) \ (IF s.type = "press" THEN {"locator"} ELSE {})
             New(k) == {Entry(k, l) ++ s : l \in StrategyEdits(s[k]) \cup DrawerEdits(s[k])}
  <2>0. PICK k \in Fields : t \in New(k)
    <3>1. LocatorEdits(s) = UNION {New(k) : k \in Fields}
      BY DEF LocatorEdits
    <3> HIDE DEF New, Fields
    <3> QED
      BY <3>1, <1>1
  <2>1. PICK l \in StrategyEdits(s[k]) \cup DrawerEdits(s[k]) : t = Entry(k, l) ++ s
    BY <2>0
  <2>2. k \in LocatorKeys \cap DOMAIN s /\ k # "double"
    BY DEF LocatorKeys
  <2>3. DOMAIN s[k] \cap Strategies # {}
    BY <2>2 DEF WellStep
  <2>4. DOMAIN l \cap Strategies # {}
    <3>1. Strategies \cap Kept = {}
      BY DEF Strategies, Kept
    <3> QED
      BY <2>1, <2>3, <3>1, StrategyEdited, DrawerEdited
  <2> QED
    BY <2>1, <2>2, <2>4, WellEntered
<1>2. CASE t \in TextEdits(s)
  <2>1. PICK k \in For(TextInputs, s.type, {}), v \in Texts : t = Entry(k, v) ++ s
    BY <1>2 DEF TextEdits
  <2>2. k \notin LocatorKeys /\ k # "double"
    BY TextFieldsPlain
  <2> QED
    BY <2>1, <2>2, WellEntered
<1>3. CASE t \in ListEdits(s)
  <2> DEFINE table == [select |-> {"values"}, upload |-> {"files"}, visualCheck |-> {"exclude"}]
  <2>1. PICK k \in For(table, s.type, {}) : t \in {Entry(k, << >>) ++ s, Entry(k, << "a" >>) ++ s}
    BY <1>3 DEF ListEdits
  <2>2. k \notin LocatorKeys /\ k # "double"
    BY DEF For, LocatorKeys
  <2> QED
    BY <2>1, <2>2, WellEntered
<1>4. CASE t \in ChoiceEdits(s)
  <2>1. CASE s.type = "click"
    <3>1. \/ \E b \in BOOLEAN : t = [double |-> b] ++ Without(s, {"button"})
          \/ t = [double |-> FALSE, button |-> "right"] ++ s
      BY <1>4, <2>1 DEF ChoiceEdits
    <3>2. \A b \in BOOLEAN : WellStep([double |-> b])
      BY DEF WellStep, LocatorKeys, Has
    <3>3. WellStep([double |-> FALSE, button |-> "right"])
      BY DEF WellStep, LocatorKeys, Has
    <3> QED
      BY <3>1, <3>2, <3>3, WellMerged
  <2>2. CASE s.type = "exit"
    <3>1. PICK p \in BOOLEAN : t = [pass |-> p] ++ s
      BY <1>4, <2>2 DEF ChoiceEdits
    <3>2. WellStep([pass |-> p])
      BY PlainWell DEF LocatorKeys
    <3> QED
      BY <3>1, <3>2, WellMerged
  <2>3. CASE s.type = "waitForLoadState"
    <3>1. t = [state |-> "load"] ++ s
      BY <1>4, <2>3 DEF ChoiceEdits
    <3>2. WellStep([state |-> "load"])
      BY PlainWell DEF LocatorKeys
    <3> QED
      BY <3>1, <3>2, WellMerged
  <2>4. CASE s.type = "visualCheck"
    <3>1. \/ \E n \in {0, 91} : t = [tolerancePct |-> n] ++ s
          \/ \E k \in {"tolerancePct", "selector"} : t = Without(s, {k})
          \/ t = [selector |-> "a"] ++ s
      BY <1>4, <2>4 DEF ChoiceEdits
    <3>2. \A n \in {0, 91} : WellStep([tolerancePct |-> n])
      BY PlainWell DEF LocatorKeys
    <3>3. WellStep([selector |-> "a"])
      BY PlainWell DEF LocatorKeys
    <3>4. \A S : WellStep(Without(s, S))
      BY <3>3, WellMerged
    <3> QED
      BY <3>1, <3>2, <3>3, <3>4, WellMerged
  <2> QED
    BY <1>4, <2>1, <2>2, <2>3, <2>4 DEF ChoiceEdits
<1>5. CASE t \in WaitEdits(s)
  <2>1. \/ t = [locator |-> [role |-> "heading"], state |-> "visible"] ++ Without(s, {"timeoutMs"})
        \/ t = [timeoutMs |-> 1000] ++ Without(s, {"locator", "state"})
        \/ t = [state |-> "hidden"] ++ s
        \/ \E ms \in {0, 500} : t = [timeoutMs |-> ms] ++ s
    BY <1>5 DEF WaitEdits
  <2>2. WellStep([locator |-> [role |-> "heading"], state |-> "visible"])
    BY <1>0 DEF WellStep, LocatorKeys, Has
  <2>3. \A ms : WellStep([timeoutMs |-> ms])
    BY PlainWell DEF LocatorKeys
  <2>4. WellStep([state |-> "hidden"])
    BY PlainWell DEF LocatorKeys
  <2> QED
    BY <2>1, <2>2, <2>3, <2>4, WellMerged
<1>6. CASE t \in ConditionEdits(s)
  <2>1. PICK c \in Texts : t = [condition |-> c] ++ s
    BY <1>6 DEF ConditionEdits
  <2>2. WellStep([condition |-> c])
    BY PlainWell DEF LocatorKeys
  <2> QED
    BY <2>1, <2>2, WellMerged
<1> QED
  BY <1>1, <1>2, <1>3, <1>4, <1>5, <1>6 DEF Edits

LEMMA MadeWell ==
    ASSUME NEW type \in Menu
    PROVE  WellStep(Make(type))
<1>1. type \in DOMAIN Made
  BY BuilderAssumption
<1>2. \A t \in DOMAIN Made : WellStep(Made[t])
  <2>1. \A kind : DOMAIN [role |-> kind] \cap Strategies # {}
    BY DEF Strategies
  <2> QED
    BY <2>1, MadeFields DEF WellStep, Has
<1>3. WellStep([type |-> type])
  BY PlainWell DEF LocatorKeys
<1> QED
  BY <1>1, <1>2, <1>3, WellMerged DEF Make

LEMMA ExampleWell == \A i \in DOMAIN Example : WellStep(Example[i])
<1>1. DOMAIN Example = 1 .. 3
  BY DEF Example
<1>2. "role" \in Strategies
  BY DEF Strategies
<1>3. WellStep(Example[1]) /\ WellStep(Example[2]) /\ WellStep(Example[3])
  BY <1>2 DEF Example, WellStep, LocatorKeys, Has
<1> QED
  BY <1>1, <1>3

LEMMA ParsedWell ==
    ASSUME NEW l, StepList(l), AllValid(l)
    PROVE  DOMAIN Fresh(Parsed(l)) = DOMAIN l /\ \A i \in DOMAIN l : WellStep(Fresh(Parsed(l))[i].step)
<1>1. \A i \in DOMAIN l : WellStep(ParseStep(l[i]))
  BY ValidWell DEF StepList, AllValid
<1> QED
  BY <1>1 DEF Fresh, Parsed

(* What a form shows, what others are seeded from and what can be copied into it
   stays so. *)
FormWell ==
    /\ \A i \in DOMAIN form : WellStep(form[i].step)
    /\ \A i \in DOMAIN example : WellStep(example[i])
    /\ \A a \in DOMAIN palette : AllValid(palette[a])

LEMMA FormWellInit == Init => FormWell
<1> SUFFICES ASSUME Init PROVE FormWell
  OBVIOUS
<1>1. \A i \in DOMAIN form : WellStep(form[i].step)
  BY ParsedWell, BuilderAssumption DEF Init
<1>2. \A i \in DOMAIN example : WellStep(example[i])
  BY ExampleWell DEF Init
<1>3. \A a \in DOMAIN palette : AllValid(palette[a])
  BY LibraryLists, EmptyList DEF Init, Storable
<1> QED
  BY <1>1, <1>2, <1>3 DEF FormWell

LEMMA PatchWell ==
    ASSUME FormKnown, FormWell, NEW i \in DOMAIN form, PatchStep(i)
    PROVE  FormWell'
<1>1. PICK s \in Edits(form[i].step) :
          /\ form' = [form EXCEPT ![i].step = s]
          /\ example' = IF form[i].of = 0 THEN example ELSE [example EXCEPT ![form[i].of] = s]
  BY DEF PatchStep
<1>2. palette' = palette
  BY DEF PatchStep, EditOnly
<1>3. WellStep(s)
  BY <1>1, EditedWell DEF FormWell
<1>4. \A j \in DOMAIN form' : WellStep(form'[j].step)
  <2>1. DOMAIN form' = DOMAIN form /\ \A j \in DOMAIN form : form'[j] = IF j = i THEN [form[i] EXCEPT !.step = s] ELSE form[j]
    BY <1>1
  <2>2. "step" \in DOMAIN form[i]
    BY DEF FormKnown, IsEntry
  <2> QED
    BY <2>1, <2>2, <1>3 DEF FormWell
<1>5. \A j \in DOMAIN example' : WellStep(example'[j])
  BY <1>1, <1>3 DEF FormWell
<1> QED
  BY <1>2, <1>4, <1>5 DEF FormWell

LEMMA AddWell ==
    ASSUME FormKnown, FormWell, NEW s, WellStep(s), form' = Append(form, [of |-> 0, step |-> s]),
           UNCHANGED << example, palette >>
    PROVE  FormWell'
<1> DEFINE e == [of |-> 0, step |-> s]
<1>1. IsList(form) /\ form' = Append(form, e)
  BY DEF FormKnown
<1>2. e.step = s
  OBVIOUS
<1> HIDE DEF e
<1>3. DOMAIN form = 1 .. Len(form) /\ Len(form) \in Nat
  BY <1>1, ListDomain
<1>4. /\ DOMAIN form' = 1 .. Len(form) + 1
      /\ (\A j \in 1 .. Len(form) : form'[j] = form[j]) /\ form'[Len(form) + 1] = e
  BY <1>1, AppendList
<1>5. ASSUME NEW j \in DOMAIN form' PROVE WellStep(form'[j].step)
  <2>1. j \in 1 .. Len(form) \/ j = Len(form) + 1
    BY <1>3, <1>4
  <2> QED
    BY <2>1, <1>2, <1>3, <1>4 DEF FormWell
<1> QED
  BY <1>5 DEF FormWell

LEMMA InsertWell ==
    ASSUME FormKnown, FormWell, InsertActionCopy
    PROVE  FormWell'
<1>1. PICK a \in DOMAIN palette : form' = form \o Fresh(Parsed(palette[a]))
  BY DEF InsertActionCopy
<1> DEFINE more == Fresh(Parsed(palette[a]))
<1>2. StepList(palette[a]) /\ AllValid(palette[a])
  BY DEF FormKnown, FormWell
<1>3. IsList(more) /\ \A j \in DOMAIN more : WellStep(more[j].step)
  BY <1>2, ParsedList, FreshList, ParsedWell
<1> HIDE DEF more
<1>4. IsList(form) /\ form' = form \o more
  BY <1>1 DEF more, FormKnown
<1>5. ToSet(form') \subseteq ToSet(form) \cup ToSet(more)
  BY <1>3, <1>4, JoinedList
<1>6. \A e \in ToSet(form) \cup ToSet(more) : WellStep(e.step)
  BY <1>3 DEF ToSet, FormWell
<1>7. \A j \in DOMAIN form' : form'[j] \in ToSet(form')
  BY DEF ToSet
<1>8. UNCHANGED << example, palette >>
  BY DEF InsertActionCopy, EditOnly
<1> QED
  BY <1>5, <1>6, <1>7, <1>8 DEF FormWell

LEMMA OtherWell ==
    ASSUME FormKnown, FormWell, UNCHANGED << example, palette >>,
           \/ \E i \in DOMAIN form : form' = RemoveAt(form, i)
           \/ \E i \in DOMAIN form : i < Len(form) /\ form' = [form EXCEPT ![i] = form[i + 1], ![i + 1] = form[i]]
           \/ form' = << >>
           \/ form' = [i \in DOMAIN example |-> [of |-> i, step |-> example[i]]]
           \/ form' = form
    PROVE  FormWell'
<1>1. IsList(form) /\ DOMAIN form = 1 .. Len(form) /\ Len(form) \in Nat
  BY ListDomain DEF FormKnown
<1>2. SUFFICES \A j \in DOMAIN form' : WellStep(form'[j].step)
  BY DEF FormWell
<1>3. \A j \in DOMAIN form : WellStep(form[j].step)
  BY DEF FormWell
<1>4. ASSUME NEW i \in DOMAIN form, form' = RemoveAt(form, i) PROVE \A j \in DOMAIN form' : WellStep(form'[j].step)
  BY <1>1, <1>3, <1>4, RemovedList
<1>5. ASSUME NEW i \in DOMAIN form, i < Len(form), form' = [form EXCEPT ![i] = form[i + 1], ![i + 1] = form[i]]
      PROVE  \A j \in DOMAIN form' : WellStep(form'[j].step)
  <2>1. i + 1 \in DOMAIN form
    BY <1>1, <1>5
  <2> QED
    BY <1>3, <1>5, <2>1
<1>6. ASSUME form' = << >> PROVE \A j \in DOMAIN form' : WellStep(form'[j].step)
  BY <1>6, EmptyList
<1>7. ASSUME form' = [i \in DOMAIN example |-> [of |-> i, step |-> example[i]]]
      PROVE  \A j \in DOMAIN form' : WellStep(form'[j].step)
  BY <1>7 DEF FormWell
<1> QED
  BY <1>3, <1>4, <1>5, <1>6, <1>7

LEMMA FormWellStep ==
    ASSUME FormKnown, SavesChecked, FormWell, Next
    PROVE  FormWell'
<1>1. CASE Editing
  <2>1. CASE NameTest
    BY <2>1, OtherWell DEF NameTest
  <2>2. CASE AddStep
    <3>1. PICK type \in Menu : form' = Append(form, [of |-> 0, step |-> Make(type)])
      BY <2>2 DEF AddStep
    <3> QED
      BY <2>2, <3>1, MadeWell, AddWell DEF AddStep, EditOnly
  <2>3. CASE InsertActionRef
    <3>1. PICK a \in DOMAIN palette :
            form' = Append(form, [of |-> 0, step |-> [type |-> "actionRef", actionId |-> a, name |-> "a"]])
      BY <2>3 DEF InsertActionRef
    <3>2. WellStep([type |-> "actionRef", actionId |-> a, name |-> "a"])
      BY PlainWell DEF LocatorKeys
    <3> QED
      BY <2>3, <3>1, <3>2, AddWell DEF InsertActionRef, EditOnly
  <2>4. CASE InsertActionCopy
    BY <2>4, InsertWell
  <2>5. CASE ClearAll
    BY <2>5, OtherWell DEF ClearAll, EditOnly
  <2>6. CASE LoadExample
    BY <2>6, OtherWell DEF LoadExample, EditOnly
  <2>7. ASSUME NEW i \in DOMAIN form, PatchStep(i) PROVE FormWell'
    BY <2>7, PatchWell
  <2>8. ASSUME NEW i \in DOMAIN form, RemoveStep(i) PROVE FormWell'
    BY <2>8, OtherWell DEF RemoveStep, EditOnly
  <2>9. ASSUME NEW i \in DOMAIN form, MoveStep(i) PROVE FormWell'
    BY <2>9, OtherWell DEF MoveStep, EditOnly
  <2> QED
    BY <1>1, <2>1, <2>2, <2>3, <2>4, <2>5, <2>6, <2>7, <2>8, <2>9 DEF Editing
<1>2. CASE Saving
  <2>1. ASSUME NEW r \in asides, AsideSaved(r) PROVE FormWell'
    <3>1. palette' = actions /\ UNCHANGED << form, example >>
      BY <2>1 DEF AsideSaved
    <3>2. \A a \in DOMAIN actions : AllValid(actions[a])
      BY DEF SavesChecked, AllStored, Range, Storable
    <3> QED
      BY <3>1, <3>2 DEF FormWell
  <2>2. ASSUME NEW fresh, Unmounted(fresh) PROVE FormWell'
    <3>1. /\ form' = << >> /\ palette' = << >> /\ example' \in {Example, example}
      BY <2>2 DEF Unmounted
    <3> QED
      BY <3>1, EmptyList, ExampleWell DEF FormWell
  <2>3. CASE SavedInModal \/ Leave \/ CloseEditor
    BY <2>2, <2>3 DEF SavedInModal, Leave, CloseEditor
  <2>4. ASSUME UNCHANGED << form, example, palette >> PROVE FormWell'
    BY <2>4, OtherWell
  <2>5. CASE Submit \/ SubmitRefused \/ ServeSubmit \/ Saved \/ SaveFails \/ Unanswered \/ SaveAsAction
             \/ \E r \in asides : ServeAside(r) \/ AsideFails(r)
    BY <2>4, <2>5 DEF Submit, SubmitRefused, ServeSubmit, Saved, SaveFails, Unanswered, SaveAsAction,
                      ServeAside, AsideFails
  <2> QED
    BY <1>2, <2>1, <2>3, <2>5 DEF Saving
<1> QED
  BY <1>1, <1>2 DEF Next

LEMMA FormWellAlways == LifeSpec => []FormWell
<1>1. LifeInit => FormWell
  BY FormWellInit DEF LifeInit
<1>2. StoredInd /\ FormWell /\ [LifeNext]_lifeVars => FormWell'
  <2> SUFFICES ASSUME StoredInd, FormWell, [LifeNext]_lifeVars PROVE FormWell'
    OBVIOUS
  <2>1. FormKnown /\ SavesChecked
    BY DEF StoredInd
  <2>2. CASE Next
    BY <2>1, <2>2, FormWellStep
  <2>3. CASE UNCHANGED << form, example, palette >>
    BY <2>1, <2>3, OtherWell
  <2> QED
    BY <2>2, <2>3 DEF LifeNext, OthersRevise, OthersRemove, RunStored, vars, lifeVars
<1> QED
  BY <1>1, <1>2, StoredIndAlways, PTL DEF LifeSpec

-----------------------------------------------------------------------------
(* SentenceMatchesRun *)

(* Editor, sentence and run agree on how an element is found. *)
LEMMA StrategiesAgree ==
    ASSUME NEW l, DOMAIN l \cap Strategies # {}
    PROVE  /\ ByStrategy(l) = StrategyOf(l)
           /\ StrategyOf(l) \in Strategies /\ StrategyOf(l) \in DOMAIN l
<1> DEFINE nine == << "role", "text", "placeholder", "label", "testId", "altText", "title", "css", "xpath" >>
<1>1. StrategyOf(l) \in Strategies /\ StrategyOf(l) \in DOMAIN l
  BY StrategyKnown
<1>2. Len(StratKeys) = 10 /\ StratKeys[10] = "ref" /\ Len(nine) = 9 /\ \A i \in 1 .. 9 : nine[i] = StratKeys[i] /\ nine[i] # "ref"
  BY DEF StratKeys
<1>3. ByStrategy(l) = FirstSet(nine, l, "ref") /\ StrategyOf(l) = FirstSet(StratKeys, l, "role")
  BY DEF ByStrategy, StrategyOf
<1> HIDE DEF nine
<1>4. \/ FirstSet(nine, l, "ref") = "ref" /\ \A i \in 1 .. 9 : ~ Has(l, nine[i])
      \/ \E n \in 1 .. 9 : FirstSet(nine, l, "ref") = nine[n] /\ Has(l, nine[n]) /\ \A i \in 1 .. n - 1 : ~ Has(l, nine[i])
  BY <1>2, FirstOf
<1>5. \/ StrategyOf(l) = "role" /\ \A i \in 1 .. 10 : ~ Has(l, StratKeys[i])
      \/ \E n \in 1 .. 10 : StrategyOf(l) = StratKeys[n] /\ Has(l, StratKeys[n]) /\ \A i \in 1 .. n - 1 : ~ Has(l, StratKeys[i])
  <2>1. Len(StratKeys) \in Nat
    BY <1>2
  <2>2. \/ FirstSet(StratKeys, l, "role") = "role" /\ \A i \in 1 .. Len(StratKeys) : ~ Has(l, StratKeys[i])
        \/ \E n \in 1 .. Len(StratKeys) : /\ FirstSet(StratKeys, l, "role") = StratKeys[n] /\ Has(l, StratKeys[n])
                                          /\ \A i \in 1 .. n - 1 : ~ Has(l, StratKeys[i])
    BY <2>1, FirstOf
  <2> QED
    BY <2>2, <1>2, <1>3
<1>6. StratKeys[1] = "role"
  BY DEF StratKeys
<1>7. PICK n \in 1 .. 10 : StrategyOf(l) = StratKeys[n] /\ Has(l, StratKeys[n]) /\ \A i \in 1 .. n - 1 : ~ Has(l, StratKeys[i])
  BY <1>1, <1>5, <1>6 DEF Has
<1>8. CASE \A i \in 1 .. 9 : ~ Has(l, nine[i])
  <2>1. n = 10
    BY <1>2, <1>7, <1>8
  <2>2. FirstSet(nine, l, "ref") = "ref"
    BY <1>4, <1>8
  <2> QED
    BY <2>1, <2>2, <1>1, <1>2, <1>3, <1>7
<1>9. ASSUME NEW m \in 1 .. 9, FirstSet(nine, l, "ref") = nine[m], Has(l, nine[m]), \A i \in 1 .. m - 1 : ~ Has(l, nine[i])
      PROVE  ByStrategy(l) = StrategyOf(l)
  <2>1. ~ n < m
    BY <1>2, <1>7, <1>9
  <2>2. ~ m < n
    BY <1>2, <1>7, <1>9
  <2>3. n = m
    BY <2>1, <2>2
  <2> QED
    BY <2>3, <1>2, <1>3, <1>7, <1>9
<1> QED
  BY <1>1, <1>4, <1>8, <1>9

(* What the browser is asked for is found in one way. *)
LEMMA ResolvedFields ==
    ASSUME NEW l, DOMAIN l \cap Strategies # {}
    PROVE  LET r == ResolveLocator(l)  k == ByStrategy(l) IN
           /\ \A x \in DOMAIN r : x \in DOMAIN l /\ r[x] = l[x]
           /\ DOMAIN r \cap Strategies = {k}
           /\ "nth" \in DOMAIN r <=> "nth" \in DOMAIN l
           /\ "frame" \in DOMAIN r <=> "frame" \in DOMAIN l
           /\ "name" \in DOMAIN r <=> k = "role" /\ "name" \in DOMAIN l
<1> DEFINE k == ByStrategy(l)
           options == CASE k = "role" -> {"name", "exact"}
                        [] k \in {"testId", "css", "xpath", "ref"} -> {}
                        [] OTHER -> {"exact"}
           D == DOMAIN l \cap ({k, "frame", "nth"} \cup options)
<1>1. ResolveLocator(l) = Restrict(l, D)
  BY DEF ResolveLocator
<1>2. k \in Strategies /\ k \in DOMAIN l
  BY StrategiesAgree
<1>3. options \subseteq {"name", "exact"} /\ ("name" \in options <=> k = "role")
  <2>1. CASE k = "role"
    BY <2>1
  <2>2. CASE k \in {"testId", "css", "xpath", "ref"}
    BY <2>2
  <2>3. CASE k # "role" /\ k \notin {"testId", "css", "xpath", "ref"}
    BY <2>3
  <2> QED
    BY <2>1, <2>2, <2>3
<1>4. {"name", "exact", "frame", "nth"} \cap Strategies = {}
  BY DEF Strategies
<1> HIDE DEF options, k
<1>5. DOMAIN Restrict(l, D) = D /\ \A x \in D : Restrict(l, D)[x] = l[x]
  BY Restricted
<1>6. D \cap Strategies = {k}
  BY <1>2, <1>3, <1>4
<1>7. ("nth" \in D <=> "nth" \in DOMAIN l) /\ ("frame" \in D <=> "frame" \in DOMAIN l)
  BY <1>2, <1>4
<1>8. "name" \in D <=> k = "role" /\ "name" \in DOMAIN l
  BY <1>2, <1>3, <1>4
<1> HIDE DEF D
<1> DEFINE r == ResolveLocator(l)
<1>9. DOMAIN r = D /\ \A x \in D : r[x] = l[x]
  BY <1>1, <1>5
<1>10. D \subseteq DOMAIN l
  BY DEF D
<1> HIDE DEF r
<1>11. /\ \A x \in DOMAIN r : x \in DOMAIN l /\ r[x] = l[x]
       /\ DOMAIN r \cap Strategies = {k}
       /\ "nth" \in DOMAIN r <=> "nth" \in DOMAIN l
       /\ "frame" \in DOMAIN r <=> "frame" \in DOMAIN l
       /\ "name" \in DOMAIN r <=> k = "role" /\ "name" \in DOMAIN l
  BY <1>6, <1>7, <1>8, <1>9, <1>10
<1> QED
  BY <1>11 DEF r, k

LEMMA SentenceMeans ==
    ASSUME NEW l, DOMAIN l \cap Strategies # {}, ~ (Has(l, "name") /\ l.name = "")
    PROVE  DescribeLocator(l) = SentenceOf(ResolveLocator(l))
<1> DEFINE k == ByStrategy(l)
           r == ResolveLocator(l)
           says == CASE k = "ref" -> {} [] k = "role" /\ Has(l, "name") /\ l.name # "" -> {"role", "name"}
                     [] OTHER -> {k}
           told == {k} \cup ({"name"} \cap DOMAIN r)
<1>1. /\ \A x \in DOMAIN r : x \in DOMAIN l /\ r[x] = l[x]
      /\ DOMAIN r \cap Strategies = {k}
      /\ "nth" \in DOMAIN r <=> "nth" \in DOMAIN l
      /\ "frame" \in DOMAIN r <=> "frame" \in DOMAIN l
      /\ "name" \in DOMAIN r <=> k = "role" /\ "name" \in DOMAIN l
  BY ResolvedFields
<1>2. DescribeLocator(l) = [says |-> Restrict(l, says), nth |-> IF Has(l, "nth") THEN l.nth + 1 ELSE 0,
                            framed |-> Has(l, "frame")]
  BY DEF DescribeLocator, ByStrategy
<1> HIDE DEF r, k
<1>3. (CHOOSE x \in Strategies : x \in DOMAIN r) = k
  BY <1>1
<1>4. SentenceOf(r) = [says |-> Restrict(r, IF k = "ref" THEN {} ELSE told), nth |-> IF Has(r, "nth") THEN r.nth + 1 ELSE 0,
                       framed |-> Has(r, "frame")]
  BY <1>3 DEF SentenceOf
<1>5. says = IF k = "ref" THEN {} ELSE told
  <2>1. CASE k = "ref"
    BY <2>1
  <2>2. CASE k = "role" /\ Has(l, "name")
    <3>1. "name" \in DOMAIN r
      BY <2>2, <1>1 DEF Has
    <3> QED
      BY <2>2, <3>1
  <2>3. CASE k # "ref" /\ ~ (k = "role" /\ Has(l, "name"))
    <3>1. "name" \notin DOMAIN r
      BY <2>3, <1>1 DEF Has
    <3> QED
      BY <2>3, <3>1
  <2> QED
    BY <2>1, <2>2, <2>3
<1>6. told \subseteq DOMAIN r /\ \A x \in told : l[x] = r[x]
  BY <1>1
<1> HIDE DEF says, told
<1>7. Restrict(l, says) = Restrict(r, IF k = "ref" THEN {} ELSE told)
  BY <1>5, <1>6 DEF Restrict
<1>8. (Has(l, "nth") <=> Has(r, "nth")) /\ (Has(l, "nth") => r.nth = l.nth) /\ (Has(l, "frame") <=> Has(r, "frame"))
  BY <1>1, <1>6, Zenon DEF Has
<1>9. (IF Has(l, "nth") THEN l.nth + 1 ELSE 0) = (IF Has(r, "nth") THEN r.nth + 1 ELSE 0)
  BY <1>8, Zenon
<1>10. Has(l, "frame") = Has(r, "frame")
  <2>1. "frame" \in DOMAIN r <=> "frame" \in DOMAIN l
    BY <1>1
  <2> QED
    BY ONLY <2>1 DEF Has
<1>11. DescribeLocator(l) = SentenceOf(r)
  <2> DEFINE A == Restrict(l, says)
             B == IF Has(l, "nth") THEN l.nth + 1 ELSE 0
             C == Has(l, "frame")
             A2 == Restrict(r, IF k = "ref" THEN {} ELSE told)
             B2 == IF Has(r, "nth") THEN r.nth + 1 ELSE 0
             C2 == Has(r, "frame")
  <2>1. A = A2 /\ B = B2 /\ C = C2
    BY <1>7, <1>9, <1>10
  <2>2. DescribeLocator(l) = [says |-> A, nth |-> B, framed |-> C] /\ SentenceOf(r) = [says |-> A2, nth |-> B2, framed |-> C2]
    BY <1>2, <1>4
  <2> HIDE DEF A, B, C, A2, B2, C2
  <2> QED
    BY <2>1, <2>2
<1> QED
  BY <1>11 DEF r

LEMMA VerbMeans ==
    ASSUME NEW s, IsStep(s), s.type = "click", Has(s, "double") => s.double \in BOOLEAN
    PROVE  LET c == Compile(s) IN
           ClickVerb(s) = CASE For(c, "double", FALSE) -> "Double-click"
                            [] For(c, "button", "left") = "right" -> "Right-click"
                            [] OTHER -> "Click"
<1> DEFINE c == Compile(s)
           gone == Unread(s)
<1>1. DOMAIN c = DOMAIN s \ gone /\ \A x \in {"double", "button"} \cap DOMAIN c : c[x] = s[x]
  BY DEF Compile, LocatorKeys
<1>2. /\ "double" \in gone <=> Has(s, "double") /\ ~ s.double
      /\ "button" \in gone <=> Has(s, "double") /\ s.double
  BY DEF Unread, Has
<1> HIDE DEF c, gone
<1>3. CASE Has(s, "double") /\ s.double
  <2>1. For(c, "double", FALSE) = TRUE
    BY <1>1, <1>2, <1>3 DEF For, Has
  <2>2. For(c, "button", "left") # "right"
    BY <1>1, <1>2, <1>3 DEF For, Has
  <2> QED
    BY <2>1, <2>2, <1>3 DEF ClickVerb, c
<1>4. CASE ~ (Has(s, "double") /\ s.double)
  <2>1. For(c, "double", FALSE) = FALSE
    BY <1>1, <1>2, <1>4 DEF For, Has
  <2>2. For(c, "button", "left") = "right" <=> Has(s, "button") /\ s.button = "right"
    BY <1>1, <1>2, <1>4 DEF For, Has
  <2> QED
    BY <2>1, <2>2, <1>4 DEF ClickVerb, c
<1> QED
  BY <1>3, <1>4

(* What cleaning up leaves of a step: all of it but a blank condition and the empty
   name of its locator. *)
LEMMA NormalFields ==
    ASSUME NEW s
    PROVE  LET n == Normalize(s) IN
           /\ \A k : k \in DOMAIN n <=> k \in DOMAIN s /\ ~ (k = "condition" /\ Blank(s.condition))
           /\ \A k \in DOMAIN n : k # "locator" => n[k] = s[k]
           /\ "locator" \in DOMAIN s =>
                 n.locator = IF Has(s.locator, "name") /\ s.locator.name = "" THEN Without(s.locator, {"name"}) ELSE s.locator
<1> DEFINE n == NormalizeNames(s)
           gone == IF Has(s, "condition") /\ Blank(s.condition) THEN {"condition"} ELSE {}
           new == IF Has(s.locator, "name") /\ s.locator.name = "" THEN Without(s.locator, {"name"}) ELSE s.locator
<1>1. DOMAIN n = DOMAIN s /\ \A k \in DOMAIN s \ {"locator"} : n[k] = s[k]
  BY DEF NormalizeNames
<1>2. "locator" \in DOMAIN s => n.locator = new
  BY DEF NormalizeNames, Has
<1>3. Normalize(s) = Without(n, gone)
  BY DEF Normalize
<1>4. \A k : k \in gone <=> k \in DOMAIN s /\ k = "condition" /\ Blank(s.condition)
  BY DEF Has
<1> HIDE DEF n, gone
<1>5. /\ \A k : k \in DOMAIN Normalize(s) <=> k \in DOMAIN s /\ k \notin gone
      /\ \A k : k \in DOMAIN s /\ k \notin gone => Normalize(s)[k] = n[k]
  BY <1>1, <1>3, Lacking
<1> DEFINE m == Normalize(s)
<1> HIDE DEF m, new
<1>6. /\ \A k : k \in DOMAIN m <=> k \in DOMAIN s /\ ~ (k = "condition" /\ Blank(s.condition))
      /\ \A k \in DOMAIN m : k # "locator" => m[k] = s[k]
      /\ "locator" \in DOMAIN s => m.locator = new
  BY <1>1, <1>2, <1>4, <1>5 DEF m
<1> QED
  BY <1>6 DEF m, new

LEMMA NormalWell ==
    ASSUME NEW s, WellStep(s)
    PROVE  /\ WellStep(Normalize(s))
           /\ "locator" \in DOMAIN Normalize(s) =>
                 ~ (Has(Normalize(s).locator, "name") /\ Normalize(s).locator.name = "")
<1> DEFINE n == Normalize(s)
<1>1. /\ \A k : k \in DOMAIN n <=> k \in DOMAIN s /\ ~ (k = "condition" /\ Blank(s.condition))
      /\ \A k \in DOMAIN n : k # "locator" => n[k] = s[k]
      /\ "locator" \in DOMAIN s =>
            n.locator = IF Has(s.locator, "name") /\ s.locator.name = "" THEN Without(s.locator, {"name"}) ELSE s.locator
  BY NormalFields
<1> HIDE DEF n
<1>2. "name" \notin Strategies
  BY DEF Strategies
<1>3. \A k \in LocatorKeys \cap DOMAIN s : DOMAIN s[k] \cap Strategies # {}
  BY DEF WellStep
<1>4. ASSUME "locator" \in DOMAIN n
      PROVE  /\ DOMAIN n.locator \cap Strategies # {}
             /\ ~ (Has(n.locator, "name") /\ n.locator.name = "")
  <2>1. "locator" \in LocatorKeys \cap DOMAIN s
    BY <1>1, <1>4 DEF LocatorKeys
  <2>2. CASE Has(s.locator, "name") /\ s.locator.name = ""
    <3>1. n.locator = Without(s.locator, {"name"})
      BY <1>1, <2>1, <2>2
    <3>2. \A x : x \in DOMAIN n.locator <=> x \in DOMAIN s.locator /\ x # "name"
      BY <3>1, Lacking
    <3> QED
      BY <3>2, <1>2, <1>3, <2>1 DEF Has
  <2>3. CASE ~ (Has(s.locator, "name") /\ s.locator.name = "")
    <3>1. n.locator = s.locator
      BY <1>1, <2>1, <2>3
    <3> QED
      BY <3>1, <1>3, <2>1, <2>3
  <2> QED
    BY <2>2, <2>3
<1>5. ASSUME NEW k \in LocatorKeys \cap DOMAIN n PROVE DOMAIN n[k] \cap Strategies # {}
  BY <1>1, <1>3, <1>4, <1>5
<1>6. Has(n, "double") => n.double \in BOOLEAN
  BY <1>1 DEF WellStep, Has
<1> QED
  BY <1>4, <1>5, <1>6 DEF WellStep, n

LEMMA SentencesMatch == FormKnown /\ FormWell => SentenceMatchesRun
<1> SUFFICES ASSUME FormKnown, FormWell, NEW i \in DOMAIN form
             PROVE  LET s == Normalize(form[i].step) IN
                    s.type # "actionRef" => \A k \in LocatorKeys \cap DOMAIN s :
                      /\ \/ DescribeLocator(s[k]) = SentenceOf(ResolveLocator(s[k]))
                         \/ k # "locator" /\ Has(s[k], "name") /\ s[k].name = ""
                      /\ StrategyOf(s[k]) \in DOMAIN ResolveLocator(s[k])
                      /\ s.type = "click" => LET c == Compile(s) IN
                            ClickVerb(s) = CASE For(c, "double", FALSE) -> "Double-click"
                                             [] For(c, "button", "left") = "right" -> "Right-click"
                                             [] OTHER -> "Click"
  BY DEF SentenceMatchesRun
<1> DEFINE s == Normalize(form[i].step)
<1>1. IsStep(s)
  BY NormalStep DEF FormKnown, IsEntry
<1>2. WellStep(s) /\ ("locator" \in DOMAIN s => ~ (Has(s.locator, "name") /\ s.locator.name = ""))
  BY NormalWell DEF FormWell
<1> HIDE DEF s
<1>3. ASSUME NEW k \in LocatorKeys \cap DOMAIN s
      PROVE  /\ \/ DescribeLocator(s[k]) = SentenceOf(ResolveLocator(s[k]))
                \/ k # "locator" /\ Has(s[k], "name") /\ s[k].name = ""
             /\ StrategyOf(s[k]) \in DOMAIN ResolveLocator(s[k])
  <2>1. DOMAIN s[k] \cap Strategies # {}
    BY <1>2 DEF WellStep
  <2>2. StrategyOf(s[k]) \in DOMAIN ResolveLocator(s[k])
    BY <2>1, StrategiesAgree, ResolvedFields
  <2>3. CASE ~ (Has(s[k], "name") /\ s[k].name = "")
    BY <2>1, <2>2, <2>3, SentenceMeans
  <2>4. CASE Has(s[k], "name") /\ s[k].name = ""
    BY <1>2, <2>2, <2>4
  <2> QED
    BY <2>3, <2>4
<1>4. s.type = "click" => LET c == Compile(s) IN
          ClickVerb(s) = CASE For(c, "double", FALSE) -> "Double-click"
                           [] For(c, "button", "left") = "right" -> "Right-click"
                           [] OTHER -> "Click"
  BY <1>1, <1>2, VerbMeans DEF WellStep
<1> QED
  BY <1>3, <1>4 DEF s

(* Whatever is made of a step in the form, the sentence over its fields names the
   element and the click that a run of it uses (describe.ts, compile.ts:48-80). *)
THEOREM SentencesTrue == LifeSpec => []SentenceMatchesRun
<1>1. StoredInd /\ FormWell => SentenceMatchesRun
  BY SentencesMatch DEF StoredInd
<1> QED
  BY <1>1, StoredIndAlways, FormWellAlways, PTL

-----------------------------------------------------------------------------
(* SavedAsShown *)

(* A run does not see a condition that is blank. *)
LEMMA BlankUnseen ==
    ASSUME NEW p, NEW q, "type" \in DOMAIN p,
           \A k : k \in DOMAIN p <=> k \in DOMAIN q /\ ~ (k = "condition" /\ Blank(q.condition)),
           \A k \in DOMAIN p : p[k] = q[k]
    PROVE  Compile(p) = Compile(q)
<1> DEFINE Seen(s) == DOMAIN s \ Unread(s)
           Does(s, k) == IF k \in LocatorKeys THEN Targets(s, k) ELSE s[k]
<1>1. p.type = q.type
  OBVIOUS
<1>2. ASSUME NEW k PROVE k \in Seen(p) <=> k \in Seen(q)
  <2>1. k \in Unread(p) <=> \/ k = "condition" /\ Has(p, "condition") /\ Blank(p.condition)
                            \/ k = "name" /\ p.type = "screenshot"
                            \/ p.type = "click" /\ Has(p, "double") /\ k = IF p.double THEN "button" ELSE "double"
    BY DEF Unread
  <2>2. k \in Unread(q) <=> \/ k = "condition" /\ Has(q, "condition") /\ Blank(q.condition)
                            \/ k = "name" /\ q.type = "screenshot"
                            \/ q.type = "click" /\ Has(q, "double") /\ k = IF q.double THEN "button" ELSE "double"
    BY DEF Unread
  <2>3. (Has(p, "double") <=> Has(q, "double")) /\ (Has(p, "double") => p.double = q.double)
    BY DEF Has
  <2> QED
    BY <1>1, <2>1, <2>2, <2>3 DEF Has
<1>3. Seen(p) = Seen(q)
  <2> HIDE DEF Seen
  <2> QED
    BY <1>2
<1>4. ASSUME NEW k \in Seen(p) PROVE Does(p, k) = Does(q, k)
  <2>1. p[k] = q[k]
    BY <1>4
  <2>2. Targets(p, k) = Targets(q, k)
    BY <1>1, <2>1 DEF Targets
  <2> QED
    BY <2>1, <2>2
<1>5. Compile(p) = [k \in Seen(p) |-> Does(p, k)] /\ Compile(q) = [k \in Seen(q) |-> Does(q, k)]
  BY DEF Compile
<1> HIDE DEF Seen, Does
<1> QED
  BY <1>3, <1>4, <1>5

LEMMA CleanedSame ==
    ASSUME NEW s, IsStep(s), ~ (Has(s, "locator") /\ Has(s.locator, "name") /\ s.locator.name = "")
    PROVE  Compile(ParseStep(Normalize(s))) = Compile(ParseStep(s))
<1> DEFINE n == Normalize(s)
           p == ParseStep(n)
           q == ParseStep(s)
           d == For(Defaults, s.type, << >>)
           known == Known(s.type)
<1>1. /\ \A k : k \in DOMAIN n <=> k \in DOMAIN s /\ ~ (k = "condition" /\ Blank(s.condition))
      /\ \A k \in DOMAIN n : n[k] = s[k]
  BY NormalFields DEF Has
<1>2. n.type = s.type /\ "type" \in DOMAIN s
  BY NormalStep DEF IsStep, Has
<1>3. \A k : /\ k \in DOMAIN p <=> k \in DOMAIN n \cap known \/ k \in DOMAIN d
             /\ k \in DOMAIN n \cap known => p[k] = n[k]
             /\ k \in DOMAIN d /\ k \notin DOMAIN n \cap known => p[k] = d[k]
  <2> HIDE DEF n
  <2>1. \A k : /\ k \in DOMAIN p <=> k \in DOMAIN n \cap Known(n.type) \/ k \in DOMAIN For(Defaults, n.type, << >>)
               /\ k \in DOMAIN n \cap Known(n.type) => p[k] = n[k]
               /\ k \in DOMAIN For(Defaults, n.type, << >>) /\ k \notin DOMAIN n \cap Known(n.type)
                     => p[k] = For(Defaults, n.type, << >>)[k]
    BY ParsedFields
  <2> QED
    BY <1>2, <2>1
<1>4. \A k : /\ k \in DOMAIN q <=> k \in DOMAIN s \cap known \/ k \in DOMAIN d
             /\ k \in DOMAIN s \cap known => q[k] = s[k]
             /\ k \in DOMAIN d /\ k \notin DOMAIN s \cap known => q[k] = d[k]
  BY ParsedFields
<1>5. "condition" \notin DOMAIN d /\ "condition" \in known /\ "type" \in known
  BY DefaultFields DEF Common, Known
<1> HIDE DEF n, p, q, d, known
<1>6. \A k : k \in DOMAIN p <=> k \in DOMAIN q /\ ~ (k = "condition" /\ Blank(q.condition))
  <2>1. "condition" \in DOMAIN s => q.condition = s.condition
    BY <1>4, <1>5
  <2> QED
    BY <1>1, <1>3, <1>4, <1>5, <2>1
<1>7. \A k \in DOMAIN p : p[k] = q[k]
  BY <1>1, <1>3, <1>4, <1>5
<1>8. "type" \in DOMAIN p
  BY <1>1, <1>2, <1>3, <1>5
<1> QED
  BY <1>6, <1>7, <1>8, BlankUnseen DEF n, p, q

LEMMA SubmitShows ==
    ASSUME FormKnown, Submit
    PROVE  SavedAsShown'
<1>1. /\ request'.steps = Clean /\ request'.shown = Shown /\ UNCHANGED form
  BY DEF Submit
<1>2. Len(form) \in Nat /\ DOMAIN form = 1 .. Len(form) /\ \A i \in DOMAIN form : IsStep(form[i].step)
  BY ListDomain DEF FormKnown, IsEntry
<1>3. /\ Len(Clean) = Len(form) /\ DOMAIN Clean = DOMAIN form /\ Len(Shown) = Len(form)
  <2> DEFINE c == Clean
             h == Shown
  <2>1. c = [i \in 1 .. Len(form) |-> c[i]] /\ h = [i \in 1 .. Len(form) |-> h[i]]
    BY <1>2 DEF Clean, Shown
  <2> HIDE DEF c, h
  <2>2. Len(c) = Len(form) /\ DOMAIN c = DOMAIN form /\ Len(h) = Len(form)
    BY <1>2, <2>1, FunctionList
  <2> QED
    BY <2>2 DEF c, h
<1>4. \A i \in DOMAIN form : Clean[i] = Normalize(form[i].step) /\ Shown[i] = form[i].step
  BY DEF Clean, Shown
<1>5. \A i \in DOMAIN form :
          \/ Compile(ParseStep(Clean[i])) = Compile(ParseStep(Shown[i]))
          \/ Has(Shown[i], "locator") /\ Has(Shown[i].locator, "name") /\ Shown[i].locator.name = ""
  BY <1>2, <1>4, CleanedSame
<1> QED
  BY <1>1, <1>3, <1>5 DEF SavedAsShown

LEMMA SavedAsShownStep ==
    ASSUME StoredInd, SavedAsShown, [LifeNext]_lifeVars
    PROVE  SavedAsShown'
<1>1. FormKnown /\ SavesChecked
  BY DEF StoredInd
<1>2. CASE Submit
  BY <1>1, <1>2, SubmitShows
<1>3. CASE ServeSubmit
  <2>1. Busy /\ request' = [request EXCEPT !.at = "answered"]
    BY <1>3 DEF ServeSubmit
  <2>2. DOMAIN request = {"at", "id", "steps", "shown"}
    BY <1>1, <2>1 DEF SavesChecked, Busy
  <2>3. request'.steps = request.steps /\ request'.shown = request.shown
    BY <2>1, <2>2
  <2> QED
    BY <2>1, <2>3 DEF SavedAsShown
<1>4. CASE request' \in {request, Idle}
  BY <1>4 DEF SavedAsShown, Busy
<1>5. CASE Editing
  BY <1>4, <1>5 DEF Editing, NameTest, AddStep, InsertActionRef, InsertActionCopy, ClearAll, LoadExample, PatchStep,
                    RemoveStep, MoveStep, EditOnly
<1>6. CASE Saving
  BY <1>2, <1>3, <1>4, <1>6 DEF Saving, SubmitRefused, Saved, SavedInModal, SaveFails, Leave, CloseEditor, Unanswered,
                                SaveAsAction, ServeAside, AsideSaved, AsideFails
<1>7. CASE OthersRevise \/ OthersRemove \/ UNCHANGED vars
  BY <1>4, <1>7 DEF OthersRevise, OthersRemove, vars
<1> QED
  BY <1>5, <1>6, <1>7 DEF LifeNext, Next, RunStored, lifeVars

(* Whatever was typed, moved or half done, what Save sends is, step for step, what
   the form showed when it was clicked, for as long as it is on its way
   (StepBuilder.tsx:186-195, 317-345). *)
THEOREM SavedAsClicked == LifeSpec => []SavedAsShown
<1>1. LifeInit => SavedAsShown
  BY DEF LifeInit, Init, SavedAsShown, Busy
<1>2. StoredInd /\ SavedAsShown /\ [LifeNext]_lifeVars => SavedAsShown'
  BY SavedAsShownStep
<1> QED
  BY <1>1, <1>2, StoredIndAlways, PTL DEF LifeSpec

-----------------------------------------------------------------------------
(* CodeDoesTheSame *)

(* The flags that are not written when they are off are read back as off, or are
   a click's; so is the mode. *)
LEMMA FlagFields ==
    ASSUME NEW type \in DOMAIN Required
    PROVE  LET d == For(Defaults, type, << >>) IN
           /\ "double" \in Known(type) => type = "click"
           /\ "double" \notin DOMAIN d
           /\ "exact" \in Known(type) => "exact" \in DOMAIN d /\ d.exact = FALSE
           /\ "mode" \in Known(type) => "mode" \in DOMAIN d /\ d.mode = "contains"
<1> DEFINE d == For(Defaults, type, << >>)
<1>1. Required[type] \cap {"double", "exact", "mode"} = {}
  BY DEF Required
<1>2. For(Optional, type, {}) \cap {"exact", "mode"} = {} /\ ("double" \in For(Optional, type, {}) => type = "click")
  <2>1. CASE type \in DOMAIN Optional
    <3>1. For(Optional, type, {}) = Optional[type]
      BY <2>1 DEF For
    <3>2. Optional[type] \cap {"exact", "mode"} = {} /\ ("double" \in Optional[type] => type = "click")
      BY <2>1 DEF Optional
    <3> QED
      BY <3>1, <3>2
  <2>2. CASE type \notin DOMAIN Optional
    BY <2>2 DEF For
  <2> QED
    BY <2>1, <2>2
<1>3. /\ "double" \notin DOMAIN d
      /\ "exact" \in DOMAIN d => d.exact = FALSE
      /\ "mode" \in DOMAIN d => d.mode = "contains"
  <2>1. CASE type \notin DOMAIN Defaults
    BY <2>1, EmptyList DEF For
  <2>2. CASE type \in DOMAIN Defaults
    <3>1. type \in {"waitForLoadState", "assertText", "assertNotText", "assertUrl", "exit", "screenshot", "visualCheck"}
      BY <2>2 DEF Defaults
    <3>2. d = Defaults[type]
      BY <2>2 DEF For
    <3> HIDE DEF d
    <3> QED
      BY <3>1, <3>2 DEF Defaults
  <2> QED
    BY <2>1, <2>2
<1>4. Common \cap {"double", "exact", "mode"} = {}
  BY DEF Common
<1> HIDE DEF d
<1>5. Known(type) = Common \cup Required[type] \cup For(Optional, type, {}) \cup DOMAIN d
  BY DEF Known, d
<1>6. /\ "double" \in Known(type) => type = "click"
      /\ "exact" \in Known(type) => "exact" \in DOMAIN d
      /\ "mode" \in Known(type) => "mode" \in DOMAIN d
  BY <1>1, <1>2, <1>3, <1>4, <1>5
<1> QED
  BY <1>3, <1>6 DEF d

(* Written as a script, an element that is in no frame is the same element. *)
LEMMA CodedLocator ==
    ASSUME NEW l, ~ Has(l, "frame")
    PROVE  /\ ResolveLocator(CodeLocator(l)) = ResolveLocator(l)
           /\ Candidates(CodeLocator(l)) = Candidates(l)
<1> DEFINE c == CodeLocator(l)
           D == DOMAIN l \cap (CodeKeys \cup {"fallbacks"})
           nine == << "role", "text", "placeholder", "label", "testId", "altText", "title", "css", "xpath" >>
           options(k) == CASE k = "role" -> {"name", "exact"}
                           [] k \in {"testId", "css", "xpath", "ref"} -> {}
                           [] OTHER -> {"exact"}
           asked(m) == DOMAIN m \cap ({ByStrategy(m), "frame", "nth"} \cup options(ByStrategy(m)))
<1>1. c = Restrict(l, D)
  BY DEF CodeLocator
<1>2. DOMAIN c = D /\ \A x \in D : c[x] = l[x]
  BY <1>1, Restricted
<1>3. Len(nine) = 9 /\ \A i \in 1 .. 9 : nine[i] \in CodeKeys
  BY DEF CodeKeys
<1>4. \A m : ByStrategy(m) = FirstSet(nine, m, "ref")
  BY DEF ByStrategy
<1>5. \A m : ResolveLocator(m) = Restrict(m, asked(m))
  BY DEF ResolveLocator
<1> HIDE DEF c, nine
<1>6. \A i \in 1 .. 9 : Has(c, nine[i]) <=> Has(l, nine[i])
  BY <1>2, <1>3 DEF Has
<1>7. ByStrategy(c) = ByStrategy(l) /\ ByStrategy(l) \in CodeKeys
  <2>1. ASSUME NEW m
        PROVE  \/ FirstSet(nine, m, "ref") = "ref" /\ \A i \in 1 .. 9 : ~ Has(m, nine[i])
               \/ \E n \in 1 .. 9 : FirstSet(nine, m, "ref") = nine[n] /\ Has(m, nine[n]) /\ \A i \in 1 .. n - 1 : ~ Has(m, nine[i])
    BY <1>3, FirstOf
  <2>2. "ref" \in CodeKeys
    BY DEF CodeKeys
  <2>3. CASE \A i \in 1 .. 9 : ~ Has(l, nine[i])
    <3>1. FirstSet(nine, l, "ref") = "ref"
      BY <2>1, <2>3
    <3>2. FirstSet(nine, c, "ref") = "ref"
      BY <2>1, <2>3, <1>6
    <3> QED
      BY <3>1, <3>2, <2>2, <1>4
  <2>4. CASE \E i \in 1 .. 9 : Has(l, nine[i])
    <3>1. PICK n \in 1 .. 9 : FirstSet(nine, l, "ref") = nine[n] /\ Has(l, nine[n]) /\ \A i \in 1 .. n - 1 : ~ Has(l, nine[i])
      BY <2>1, <2>4
    <3>2. PICK o \in 1 .. 9 : FirstSet(nine, c, "ref") = nine[o] /\ Has(c, nine[o]) /\ \A i \in 1 .. o - 1 : ~ Has(c, nine[i])
      BY <2>1, <2>4, <1>6
    <3>3. ~ n < o
      BY <3>1, <3>2, <1>6
    <3>4. ~ o < n
      BY <3>1, <3>2, <1>6
    <3>5. n = o
      BY <3>3, <3>4
    <3> QED
      BY <3>1, <3>2, <3>5, <1>3, <1>4
  <2> QED
    BY <2>3, <2>4
<1>8. asked(c) = asked(l)
  <2> DEFINE k == ByStrategy(l)
  <2>1. options(k) \subseteq {"name", "exact"}
    <3>1. CASE k = "role"
      BY <3>1
    <3>2. CASE k \in {"testId", "css", "xpath", "ref"}
      BY <3>2
    <3>3. CASE k # "role" /\ k \notin {"testId", "css", "xpath", "ref"}
      BY <3>3
    <3> QED
      BY <3>1, <3>2, <3>3
  <2>2. {"name", "exact", "nth"} \subseteq CodeKeys
    BY DEF CodeKeys
  <2>3. "frame" \notin DOMAIN l
    BY DEF Has
  <2> HIDE DEF options, k
  <2>4. asked(l) = DOMAIN l \cap ({k, "frame", "nth"} \cup options(k)) /\ asked(c) = D \cap ({k, "frame", "nth"} \cup options(k))
    BY <1>2, <1>7 DEF k
  <2>5. k \in CodeKeys
    BY <1>7 DEF k
  <2> HIDE DEF asked
  <2> QED
    BY <2>1, <2>2, <2>3, <2>4, <2>5
<1>9. asked(c) \subseteq D
  <2> HIDE DEF options
  <2> QED
    BY <1>2
<1> HIDE DEF asked
<1>10. ResolveLocator(c) = ResolveLocator(l)
  BY <1>2, <1>5, <1>8, <1>9 DEF Restrict
<1>11. (Has(c, "fallbacks") <=> Has(l, "fallbacks")) /\ (Has(l, "fallbacks") => c.fallbacks = l.fallbacks)
  BY <1>2 DEF Has
<1>12. Candidates(c) = Candidates(l)
  <2>1. CASE Has(l, "fallbacks")
    BY <2>1, <1>10, <1>11 DEF Candidates
  <2>2. CASE ~ Has(l, "fallbacks")
    BY <2>2, <1>10, <1>11 DEF Candidates
  <2> QED
    BY <2>1, <2>2
<1> QED
  BY <1>10, <1>12 DEF c

(* What is read back of a parsed step whose condition, if any, is not blank. *)
LEMMA ReadBack ==
    ASSUME NEW n, IsStep(n), NEW s, s = ParseStep(n), ValidStep(s), ~ Unsayable(s), Gates(s)
    PROVE  LET r == FromCode(ToCode(s)) IN
           /\ \A k : k \in DOMAIN r <=> k \in DOMAIN s /\ ~ (k = "double" /\ ~ s.double)
           /\ \A k \in DOMAIN r : r[k] = IF k \in LocatorKeys /\ s.type # "wait" THEN CodeLocator(s[k]) ELSE s[k]
<1> DEFINE r == FromCode(ToCode(s))
           d == For(Defaults, s.type, << >>)
           known == Known(s.type)
           c == StepToLine(s)
           Written(k) == IF k \in LocatorKeys /\ s.type # "wait" THEN CodeLocator(s[k]) ELSE s[k]
           gone == Unwritten(s)
           t == IF Has(s, "condition") THEN c ++ [condition |-> s.condition] ELSE c
<1>1. IsStep(s) /\ s.type = n.type /\ s.type \in DOMAIN Required
  BY ParsedStep DEF IsStep
<1>2. /\ "double" \in known => s.type = "click"
      /\ "double" \notin DOMAIN d
      /\ "exact" \in known => "exact" \in DOMAIN d /\ d.exact = FALSE
      /\ "mode" \in known => "mode" \in DOMAIN d /\ d.mode = "contains"
  BY <1>1, FlagFields
<1>3. DOMAIN s \subseteq known /\ DOMAIN d \subseteq DOMAIN s /\ DOMAIN d \subseteq known /\ Common \subseteq known
  <2>1. \A k : k \in DOMAIN s <=> k \in DOMAIN n \cap Known(n.type) \/ k \in DOMAIN For(Defaults, n.type, << >>)
    BY ParsedFields
  <2>2. DOMAIN d \subseteq known /\ Common \subseteq known
    BY DEF Known
  <2> QED
    BY <1>1, <2>1, <2>2
<1>4. /\ "double" \in DOMAIN s => s.double \in BOOLEAN
      /\ "exact" \in DOMAIN s => s.exact \in BOOLEAN
  BY <1>3 DEF ValidStep
<1>5. ~ Has(s, "retries") /\ ~ Has(s, "retryDelayMs")
  BY DEF Unsayable
<1>6. DOMAIN c = DOMAIN s \ gone /\ \A k \in DOMAIN c : c[k] = Written(k)
  BY DEF StepToLine
<1>7. \A k \in DOMAIN s : k \in gone <=> \/ k = "condition"
                                         \/ k = "double" /\ ~ s.double
                                         \/ k = "exact" /\ ~ s.exact
                                         \/ k = "mode" /\ s.mode = "contains"
  BY <1>5 DEF Unwritten, Common, Has
<1>8. r = ParseStep(t)
  <2>1. ToCode(s) = [only |-> IF Has(s, "condition") THEN {s.condition} ELSE {}, call |-> c]
    BY DEF ToCode, Gates
  <2>2. CASE Has(s, "condition")
    <3>1. ToCode(s).only = {s.condition} /\ ToCode(s).call = c
      BY <2>1, <2>2
    <3>2. (CHOOSE x \in {s.condition} : TRUE) = s.condition
      OBVIOUS
    <3> HIDE DEF c
    <3> QED
      BY <2>2, <3>1, <3>2 DEF FromCode
  <2>3. CASE ~ Has(s, "condition")
    <3>1. ToCode(s).only = {} /\ ToCode(s).call = c
      BY <2>1, <2>3
    <3> HIDE DEF c
    <3> QED
      BY <2>3, <3>1 DEF FromCode
  <2> QED
    BY <2>2, <2>3
<1> HIDE DEF c, gone, r, d, known
<1>9. /\ \A k : k \in DOMAIN t <=> k \in DOMAIN c \/ (k = "condition" /\ k \in DOMAIN s)
      /\ \A k \in DOMAIN t : t[k] = Written(k)
  <2>1. "condition" \notin LocatorKeys
    BY DEF LocatorKeys
  <2>2. CASE Has(s, "condition")
    <3> DEFINE e == [condition |-> s.condition]
    <3>1. DOMAIN e = {"condition"} /\ e.condition = s.condition
      OBVIOUS
    <3> HIDE DEF e, Written
    <3>2. t = c ++ e
      BY <2>2 DEF e
    <3>3. s.condition = Written("condition")
      BY <2>1 DEF Written
    <3> HIDE DEF t
    <3>4. "condition" \in DOMAIN s
      BY <2>2 DEF Has
    <3> QED
      BY <1>6, <3>1, <3>2, <3>3, <3>4, Merged
  <2>3. CASE ~ Has(s, "condition")
    BY <1>6, <2>3 DEF Has
  <2> QED
    BY <2>2, <2>3
<1>10. t.type = s.type
  <2>1. "type" \in DOMAIN s /\ "type" \notin LocatorKeys
    BY <1>1 DEF IsStep, Has, LocatorKeys
  <2>2. "type" \in DOMAIN c
    BY <1>6, <1>7, <2>1
  <2> HIDE DEF t
  <2> QED
    BY <1>9, <2>1, <2>2
<1> HIDE DEF t
<1>11. \A k : /\ k \in DOMAIN r <=> k \in DOMAIN t \cap known \/ k \in DOMAIN d
              /\ k \in DOMAIN t \cap known => r[k] = t[k]
              /\ k \in DOMAIN d /\ k \notin DOMAIN t \cap known => r[k] = d[k]
  <2>1. \A k : /\ k \in DOMAIN r <=> k \in DOMAIN t \cap Known(t.type) \/ k \in DOMAIN For(Defaults, t.type, << >>)
               /\ k \in DOMAIN t \cap Known(t.type) => r[k] = t[k]
               /\ k \in DOMAIN For(Defaults, t.type, << >>) /\ k \notin DOMAIN t \cap Known(t.type)
                     => r[k] = For(Defaults, t.type, << >>)[k]
    BY <1>8, ParsedFields
  <2> QED
    BY <1>10, <2>1 DEF known, d
<1>12. \A k : k \in DOMAIN t <=> k \in DOMAIN s /\ ~ (k = "double" /\ ~ s.double) /\ ~ (k = "exact" /\ ~ s.exact)
                                               /\ ~ (k = "mode" /\ s.mode = "contains")
  BY <1>6, <1>7, <1>9
<1> HIDE DEF Written
<1>13. \A k : k \in DOMAIN r <=> k \in DOMAIN s /\ ~ (k = "double" /\ ~ s.double)
  BY <1>2, <1>3, <1>11, <1>12
<1>14. ASSUME NEW k \in DOMAIN r PROVE r[k] = Written(k)
  <2>1. CASE k \in DOMAIN t
    BY <2>1, <1>3, <1>9, <1>11, <1>12
  <2>2. CASE k \notin DOMAIN t
    <3>1. k \in DOMAIN d /\ r[k] = d[k]
      BY <1>11, <1>14, <2>2
    <3>2. (k = "exact" /\ ~ s.exact) \/ (k = "mode" /\ s.mode = "contains")
      BY <1>12, <1>13, <1>14, <2>2
    <3>3. Written(k) = s[k]
      BY <3>2 DEF Written, LocatorKeys
    <3>4. d[k] = s[k]
      BY <1>2, <1>3, <1>4, <3>1, <3>2
    <3> QED
      BY <3>1, <3>3, <3>4
  <2> QED
    BY <2>1, <2>2
<1> QED
  BY <1>13, <1>14 DEF r, Written

LEMMA CodeSame ==
    ASSUME NEW n, IsStep(n), NEW s, s = ParseStep(n), ValidStep(s), ~ Unsayable(s), Gates(s)
    PROVE  Compile(FromCode(ToCode(s))) = Compile(s)
<1> DEFINE r == FromCode(ToCode(s))
           Seen(x) == DOMAIN x \ Unread(x)
           Does(x, k) == IF k \in LocatorKeys THEN Targets(x, k) ELSE x[k]
<1>1. /\ \A k : k \in DOMAIN r <=> k \in DOMAIN s /\ ~ (k = "double" /\ ~ s.double)
      /\ \A k \in DOMAIN r : r[k] = IF k \in LocatorKeys /\ s.type # "wait" THEN CodeLocator(s[k]) ELSE s[k]
  BY ReadBack
<1>2. IsStep(s) /\ s.type = n.type
  BY ParsedStep
<1>3. Has(s, "double") => s.type = "click"
  <2>1. \A k : k \in DOMAIN s <=> k \in DOMAIN n \cap Known(n.type) \/ k \in DOMAIN For(Defaults, n.type, << >>)
    BY ParsedFields
  <2>2. n.type \in DOMAIN Required
    BY DEF IsStep
  <2> QED
    BY <1>2, <2>1, <2>2, FlagFields DEF Has
<1> HIDE DEF r
<1>4. r.type = s.type /\ "type" \in DOMAIN r
  BY <1>1, <1>2 DEF IsStep, Has, LocatorKeys
<1>5. ~ (Has(s, "condition") /\ Blank(s.condition)) /\ ~ (Has(r, "condition") /\ Blank(r.condition))
  BY <1>1 DEF Gates, Has, LocatorKeys
<1>6. \A k : k \in Seen(r) <=> k \in Seen(s)
  <2>1. \A k : k \in Unread(r) <=> \/ k = "name" /\ s.type = "screenshot"
                                   \/ s.type = "click" /\ Has(r, "double") /\ k = IF r.double THEN "button" ELSE "double"
    BY <1>4, <1>5 DEF Unread
  <2>2. \A k : k \in Unread(s) <=> \/ k = "name" /\ s.type = "screenshot"
                                   \/ s.type = "click" /\ Has(s, "double") /\ k = IF s.double THEN "button" ELSE "double"
    BY <1>5 DEF Unread
  <2>3. Has(r, "double") <=> Has(s, "double") /\ s.double
    BY <1>1 DEF Has
  <2>4. Has(r, "double") => r.double = s.double
    BY <1>1 DEF Has, LocatorKeys
  <2>5. CASE Has(s, "double") /\ s.double
    <3>1. \A k : k \in DOMAIN r <=> k \in DOMAIN s
      BY <1>1, <2>5
    <3> QED
      BY <2>1, <2>2, <2>3, <2>4, <2>5, <3>1
  <2>6. CASE Has(s, "double") /\ ~ s.double
    <3>1. \A k : k \in DOMAIN r <=> k \in DOMAIN s /\ k # "double"
      BY <1>1, <2>6
    <3> QED
      BY <2>1, <2>2, <2>3, <2>6, <3>1, <1>3
  <2>7. CASE ~ Has(s, "double")
    <3>1. \A k : k \in DOMAIN r <=> k \in DOMAIN s
      BY <1>1, <2>7 DEF Has
    <3> QED
      BY <2>1, <2>2, <2>3, <2>7, <3>1
  <2> QED
    BY <2>5, <2>6, <2>7
<1>7. ASSUME NEW k \in Seen(r) PROVE Does(r, k) = Does(s, k)
  <2>1. k \in DOMAIN r /\ k \in DOMAIN s
    BY <1>1, <1>7
  <2>2. CASE k \notin LocatorKeys
    BY <1>1, <2>1, <2>2
  <2>3. CASE k \in LocatorKeys
    <3>1. CASE s.type = "wait"
      <4>1. r[k] = s[k]
        BY <1>1, <2>1, <3>1
      <4> QED
        BY <1>4, <2>3, <4>1 DEF Targets
    <3>2. CASE s.type # "wait"
      <4>1. r[k] = CodeLocator(s[k])
        BY <1>1, <2>1, <2>3, <3>2
      <4>2. ~ Has(s[k], "frame")
        BY <2>1, <2>3, <3>2 DEF Unsayable
      <4>3. ResolveLocator(r[k]) = ResolveLocator(s[k]) /\ Candidates(r[k]) = Candidates(s[k])
        BY <4>1, <4>2, CodedLocator
      <4>4. Targets(r, k) = Targets(s, k)
        BY <1>4, <4>3 DEF Targets
      <4> QED
        BY <2>3, <4>4
    <3> QED
      BY <3>1, <3>2
  <2> QED
    BY <2>2, <2>3
<1>8. Compile(r) = [k \in Seen(r) |-> Does(r, k)] /\ Compile(s) = [k \in Seen(s) |-> Does(s, k)]
  BY DEF Compile
<1> HIDE DEF Seen, Does
<1>9. Seen(r) = Seen(s)
  BY <1>6
<1>10. Compile(r) = Compile(s)
  BY <1>7, <1>8, <1>9
<1> QED
  BY <1>10 DEF r

LEMMA CodeMatches == FormKnown => CodeDoesTheSame
<1> SUFFICES ASSUME FormKnown, NEW i \in DOMAIN form,
                    ValidStep(ParseStep(Normalize(form[i].step))), ~ Unsayable(ParseStep(Normalize(form[i].step)))
             PROVE  LET s == ParseStep(Normalize(form[i].step)) IN Compile(FromCode(ToCode(s))) = Compile(s)
  BY DEF CodeDoesTheSame
<1> DEFINE n == Normalize(form[i].step)
           s == ParseStep(n)
<1>1. IsStep(n) /\ Gates(n)
  BY NormalStep DEF FormKnown, IsEntry
<1>2. Gates(s)
  BY <1>1, ParsedStep DEF Gates, Common
<1> HIDE DEF n
<1>3. ValidStep(s) /\ ~ Unsayable(s)
  BY DEF n
<1> HIDE DEF s
<1>4. s = ParseStep(n)
  BY DEF s
<1>5. Compile(FromCode(ToCode(s))) = Compile(s)
  BY <1>1, <1>2, <1>3, <1>4, CodeSame
<1> QED
  BY <1>5 DEF s, n

(* Of every step the form ever shows, the script does what the step does, as far as
   a script can say it (codegen.ts:42-67, 70-160). *)
THEOREM ScriptsTrue == LifeSpec => []CodeDoesTheSame
<1>1. StoredInd => CodeDoesTheSame
  BY CodeMatches DEF StoredInd
<1> QED
  BY <1>1, StoredIndAlways, PTL

-----------------------------------------------------------------------------
(* ModifiersCarried *)

LEMMA RemovedShorter ==
    ASSUME NEW l, IsList(l), NEW n \in DOMAIN l
    PROVE  DOMAIN RemoveAt(l, n) # DOMAIN l
<1>1. l \in Seq(ToSet(l)) /\ Len(l) \in Nat /\ DOMAIN l = 1 .. Len(l)
  BY ListDomain DEF IsList
<1> DEFINE a == SubSeq(l, 1, n - 1)
           b == SubSeq(l, n + 1, Len(l))
<1>2. a \in Seq(ToSet(l)) /\ b \in Seq(ToSet(l)) /\ Len(a) = n - 1 /\ Len(b) = Len(l) - n
  BY <1>1, SubSeqProperties
<1> HIDE DEF a, b
<1>3. a \o b \in Seq(ToSet(l)) /\ Len(a \o b) = Len(l) - 1
  <2>1. a \o b \in Seq(ToSet(l)) /\ Len(a \o b) = Len(a) + Len(b)
    BY <1>2, ConcatProperties
  <2>2. (n - 1) + (Len(l) - n) = Len(l) - 1
    BY <1>1
  <2> QED
    BY <1>2, <2>1, <2>2
<1>4. DOMAIN (a \o b) = 1 .. Len(l) - 1
  BY <1>3
<1>5. RemoveAt(l, n) = a \o b
  BY DEF RemoveAt, a, b
<1>6. Len(l) \in 1 .. Len(l) /\ Len(l) \notin 1 .. Len(l) - 1
  BY <1>1
<1> QED
  BY <1>1, <1>4, <1>5, <1>6

(* Of a step whose element is edited the modifiers stay; an edit of anything else,
   and of a modifier, leaves the element. *)
LEMMA EditKeeps ==
    ASSUME NEW s, s.type # "wait", NEW t \in Edits(s), Has(s, "locator")
    PROVE  Element(t) = Element(s) \/ Modifiers(t) = Modifiers(s)
<1>1. SUFFICES \/ t.locator = s.locator
               \/ t.locator \in StrategyEdits(s.locator)
               \/ t.locator \in DrawerEdits(s.locator)
  <2>1. CASE t.locator = s.locator
    BY <2>1 DEF Element
  <2>2. CASE t.locator \in StrategyEdits(s.locator)
    <3>1. \A x \in Kept : (x \in DOMAIN t.locator <=> x \in DOMAIN s.locator)
                          /\ (x \in DOMAIN s.locator => t.locator[x] = s.locator[x])
      BY <2>2, StrategyEdited
    <3> QED
      BY <3>1 DEF Modifiers, Restrict, Kept
  <2>3. CASE t.locator \in DrawerEdits(s.locator)
    <3>1. /\ \A x : x \notin Kept => (x \in DOMAIN t.locator <=> x \in DOMAIN s.locator)
          /\ \A x \in DOMAIN s.locator : x \notin Kept => t.locator[x] = s.locator[x]
      BY <2>3, DrawerEdited
    <3>2. DOMAIN t.locator \ Kept = DOMAIN s.locator \ Kept
      BY <3>1
    <3>3. \A m : Element(m) = [x \in DOMAIN m.locator \ Kept |-> m.locator[x]]
      BY DEF Element, Restrict, Kept
    <3> QED
      BY <3>1, <3>2, <3>3
  <2> QED
    BY <1>1, <2>1, <2>2, <2>3
<1>2. "locator" \in DOMAIN s
  BY DEF Has
<1>3. CASE t \in LocatorEdits(s)
  <2> DEFINE Fields == (LocatorKeys \cap DOMAIN s) \ (IF s.type = "press" THEN {"locator"} ELSE {})
             New(k) == {Entry(k, l) ++ s : l \in StrategyEdits(s[k]) \cup DrawerEdits(s[k])}
  <2>0. PICK k \in Fields : t \in New(k)
    <3>1. LocatorEdits(s) = UNION {New(k) : k \in Fields}
      BY DEF LocatorEdits
    <3> HIDE DEF New, Fields
    <3> QED
      BY <3>1, <1>3
  <2>1. PICK l \in StrategyEdits(s[k]) \cup DrawerEdits(s[k]) : t = Entry(k, l) ++ s
    BY <2>0
  <2>2. CASE k = "locator"
    BY <2>1, <2>2, Entered
  <2>3. CASE k # "locator"
    BY <2>1, <2>3, <1>2, Entered
  <2> QED
    BY <2>2, <2>3
<1>4. CASE t \in TextEdits(s)
  <2>1. PICK k \in For(TextInputs, s.type, {}), v \in Texts : t = Entry(k, v) ++ s
    BY <1>4 DEF TextEdits
  <2>2. k # "locator"
    BY TextFieldsPlain DEF LocatorKeys
  <2> QED
    BY <2>1, <2>2, <1>2, Entered
<1>5. CASE t \in ListEdits(s)
  <2> DEFINE table == [select |-> {"values"}, upload |-> {"files"}, visualCheck |-> {"exclude"}]
  <2>1. PICK k \in For(table, s.type, {}) : t \in {Entry(k, << >>) ++ s, Entry(k, << "a" >>) ++ s}
    BY <1>5 DEF ListEdits
  <2>2. k # "locator"
    BY DEF For
  <2> QED
    BY <2>1, <2>2, <1>2, Entered
<1>6. ASSUME NEW f, NEW S, "locator" \notin DOMAIN f, "locator" \notin S
      PROVE  (f ++ Without(s, S)).locator = s.locator /\ (f ++ s).locator = s.locator /\ Without(s, S).locator = s.locator
  <2> DEFINE w == Without(s, S)
  <2>1. "locator" \in DOMAIN w /\ w.locator = s.locator
    BY <1>2, <1>6, Lacking
  <2> HIDE DEF w
  <2>2. (f ++ w).locator = w.locator /\ (f ++ s).locator = s.locator
    BY <2>1, <1>2, <1>6, Merged
  <2> QED
    BY <2>1, <2>2 DEF w
<1>7. CASE t \in ChoiceEdits(s)
  <2>1. CASE s.type = "click"
    <3>1. \/ \E b \in BOOLEAN : t = [double |-> b] ++ Without(s, {"button"})
          \/ t = [double |-> FALSE, button |-> "right"] ++ s
      BY <1>7, <2>1 DEF ChoiceEdits
    <3>2. \A b \in BOOLEAN : ([double |-> b] ++ Without(s, {"button"})).locator = s.locator
      <4> TAKE b \in BOOLEAN
      <4>1. "locator" \notin DOMAIN [double |-> b] /\ "locator" \notin {"button"}
        OBVIOUS
      <4> QED
        BY <4>1, <1>6
    <3>3. "locator" \notin DOMAIN [double |-> FALSE, button |-> "right"] /\ "locator" \notin {}
      OBVIOUS
    <3>4. ([double |-> FALSE, button |-> "right"] ++ s).locator = s.locator
      BY <3>3, <1>6
    <3> QED
      BY <3>1, <3>2, <3>4
  <2>2. CASE s.type = "exit"
    <3>1. PICK p \in BOOLEAN : t = [pass |-> p] ++ s
      BY <1>7, <2>2 DEF ChoiceEdits
    <3>2. "locator" \notin DOMAIN [pass |-> p] /\ "locator" \notin {}
      OBVIOUS
    <3> QED
      BY <3>1, <3>2, <1>6
  <2>3. CASE s.type = "waitForLoadState"
    <3>1. t = [state |-> "load"] ++ s
      BY <1>7, <2>3 DEF ChoiceEdits
    <3>2. "locator" \notin DOMAIN [state |-> "load"] /\ "locator" \notin {}
      OBVIOUS
    <3> QED
      BY <3>1, <3>2, <1>6
  <2>4. CASE s.type = "visualCheck"
    <3>1. \/ \E n \in {0, 91} : t = [tolerancePct |-> n] ++ s
          \/ \E k \in {"tolerancePct", "selector"} : t = Without(s, {k})
          \/ t = [selector |-> "a"] ++ s
      BY <1>7, <2>4 DEF ChoiceEdits
    <3>2. ASSUME NEW n PROVE ([tolerancePct |-> n] ++ s).locator = s.locator
      <4>1. "locator" \notin DOMAIN [tolerancePct |-> n] /\ "locator" \notin {}
        OBVIOUS
      <4> QED
        BY <4>1, <1>6
    <3>3. ASSUME NEW k \in {"tolerancePct", "selector"} PROVE Without(s, {k}).locator = s.locator
      BY <1>2, Lacking
    <3>4. "locator" \notin DOMAIN [selector |-> "a"] /\ "locator" \notin {}
      OBVIOUS
    <3>5. ([selector |-> "a"] ++ s).locator = s.locator
      BY <3>4, <1>6
    <3> QED
      BY <3>1, <3>2, <3>3, <3>5
  <2> QED
    BY <1>7, <2>1, <2>2, <2>3, <2>4 DEF ChoiceEdits
<1>8. t \notin WaitEdits(s)
  BY DEF WaitEdits
<1>9. CASE t \in ConditionEdits(s)
  <2>1. PICK c \in Texts : t = [condition |-> c] ++ s
    BY <1>9 DEF ConditionEdits
  <2>2. "locator" \notin DOMAIN [condition |-> c] /\ "locator" \notin {}
    OBVIOUS
  <2> QED
    BY <2>1, <2>2, <1>6
<1> QED
  BY <1>3, <1>4, <1>5, <1>7, <1>8, <1>9 DEF Edits

LEMMA JoinedStart ==
    ASSUME NEW l, IsList(l), NEW m, IsList(m)
    PROVE  \A j \in DOMAIN l : (l \o m)[j] = l[j]
<1> DEFINE S == ToSet(l) \cup ToSet(m)
<1>1. l \in Seq(S) /\ m \in Seq(S)
  BY DEF IsList
<1> HIDE DEF S
<1>2. Len(l) \in Nat /\ Len(m) \in Nat /\ DOMAIN l = 1 .. Len(l)
  BY ListDomain
<1> QED
  BY <1>1, <1>2, ConcatProperties

LEMMA ModifiersStay ==
    ASSUME FormKnown, [LifeNext]_lifeVars, NEW i \in DOMAIN form,
           DOMAIN form' = DOMAIN form, \A j \in DOMAIN form \ {i} : form'[j] = form[j],
           form[i].step.type = form'[i].step.type, form[i].step.type # "wait", Has(form[i].step, "locator"),
           Element(form'[i].step) # Element(form[i].step)
    PROVE  Modifiers(form'[i].step) = Modifiers(form[i].step)
<1>1. form'[i] # form[i]
  OBVIOUS
<1>2. IsList(form) /\ DOMAIN form = 1 .. Len(form) /\ Len(form) \in Nat
  BY ListDomain DEF FormKnown
<1>3. DOMAIN form' # {} /\ form # << >> /\ form' # << >>
  BY EmptyList
<1>4. ASSUME NEW k \in DOMAIN form, PatchStep(k)
      PROVE  Modifiers(form'[i].step) = Modifiers(form[i].step)
  <2>1. PICK s \in Edits(form[k].step) : form' = [form EXCEPT ![k].step = s]
    BY <1>4 DEF PatchStep
  <2>2. k = i
    BY <1>1, <2>1
  <2>3. "step" \in DOMAIN form[i]
    BY DEF FormKnown, IsEntry
  <2>4. form'[i].step = s /\ s \in Edits(form[i].step)
    BY <2>1, <2>2, <2>3
  <2> QED
    BY <2>4, EditKeeps
<1>5. ASSUME NEW k \in DOMAIN form, RemoveStep(k) PROVE FALSE
  BY <1>2, <1>5, RemovedShorter DEF RemoveStep
<1>6. ASSUME NEW k \in DOMAIN form, MoveStep(k) PROVE FALSE
  <2>1. k < Len(form) /\ form' = [form EXCEPT ![k] = form[k + 1], ![k + 1] = form[k]]
    BY <1>6 DEF MoveStep
  <2>2. k + 1 \in DOMAIN form /\ k + 1 # k
    BY <1>2, <2>1
  <2>3. form'[k] = form[k + 1] /\ form'[k + 1] = form[k] /\ \A j \in DOMAIN form \ {k, k + 1} : form'[j] = form[j]
    BY <2>1, <2>2
  <2>4. i = k \/ i = k + 1
    BY <1>1, <2>3
  <2>5. form[k] = form[k + 1]
    BY <2>2, <2>3, <2>4
  <2> QED
    BY <1>1, <2>3, <2>4, <2>5
<1>7. ASSUME NEW e, form' = Append(form, e) PROVE FALSE
  <2>1. \A j \in 1 .. Len(form) : Append(form, e)[j] = form[j]
    BY <1>2, AppendList
  <2> QED
    BY <1>1, <1>2, <1>7, <2>1
<1>8. ASSUME NEW more, IsList(more), form' = form \o more PROVE FALSE
  BY <1>1, <1>2, <1>8, JoinedStart
<1>9. ~ InsertActionCopy
  <2>1. ASSUME NEW a \in DOMAIN palette PROVE IsList(Fresh(Parsed(palette[a])))
    <3>1. StepList(Parsed(palette[a]))
      BY ParsedList DEF FormKnown
    <3> QED
      BY <3>1, FreshList
  <2> QED
    BY <1>8, <2>1 DEF InsertActionCopy
<1>10. CASE Editing
  BY <1>1, <1>3, <1>4, <1>5, <1>6, <1>7, <1>9, <1>10
     DEF Editing, NameTest, AddStep, InsertActionRef, ClearAll, LoadExample
<1>11. CASE Saving
  BY <1>1, <1>3, <1>11 DEF Saving, Submit, SubmitRefused, ServeSubmit, Saved, SavedInModal, SaveFails, Leave, CloseEditor, Unmounted,
                           Unanswered, SaveAsAction, ServeAside, AsideSaved, AsideFails
<1>12. CASE OthersRevise \/ OthersRemove \/ UNCHANGED vars
  BY <1>1, <1>12 DEF OthersRevise, OthersRemove, vars
<1> QED
  BY <1>10, <1>11, <1>12 DEF LifeNext, Next, RunStored, lifeVars

(* Whatever is done in the builder, an element that is retargeted keeps its
   exactness, position and backups (StepBuilder.tsx:61-69). *)
THEOREM RetargetKeeps == LifeSpec => ModifiersCarried
<1> DEFINE Stay == \A i \in DOMAIN form :
                      LET s == form[i].step  t == form'[i].step IN
                      /\ DOMAIN form' = DOMAIN form /\ \A j \in DOMAIN form \ {i} : form'[j] = form[j]
                      /\ s.type = t.type /\ s.type # "wait" /\ Has(s, "locator") /\ Element(t) # Element(s)
                      => Modifiers(t) = Modifiers(s)
<1>1. StoredInd /\ [LifeNext]_lifeVars => Stay
  BY ModifiersStay DEF StoredInd
<1>2. ModifiersCarried <=> [][Stay]_lifeVars
  BY DEF ModifiersCarried
<1> HIDE DEF Stay
<1> QED
  BY <1>1, <1>2, StoredIndAlways, PTL DEF LifeSpec
=============================================================================
