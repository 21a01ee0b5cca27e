---------------------------- MODULE StepLanguage ----------------------------
(***************************************************************************)
(* The test language (packages/dsl): what a valid step is (schema.ts), what *)
(* a run does with it (compile.ts), the script shown for it (codegen.ts),  *)
(* the sentence shown for it (describe.ts) and the expansion of references *)
(* to saved actions (expand.ts).                                           *)
(*                                                                         *)
(* A step is a record: an optional field that is not set is not in its     *)
(* domain.  Texts are strings that only matter by being empty, blank, a    *)
(* {{token}} or something else.                                            *)
(***************************************************************************)
EXTENDS Integers, SequencesExt, Records

CONSTANTS MaxDepth,  \* MAX_DEPTH of expandActions (10 in the code)
          TokenOf    \* the texts that are a {{token}}, and the variable each names

Has(r, k)        == k \in DOMAIN r
Without(r, keys) == Restrict(r, DOMAIN r \ keys)
Blank(text)      == text \in {"", " "}
IsList(l)        == l \in Seq(ToSet(l))

-----------------------------------------------------------------------------
(* schema.ts *)

Strategies == {"role", "text", "placeholder", "label", "testId", "altText",
               "title", "css", "xpath", "ref"}

HasStrategy(l) == \E k \in Strategies : Has(l, k) /\ l[k] # ""

Common      == {"type", "condition", "retries", "retryDelayMs"}
LocatorKeys == {"locator", "from", "to"}

Required ==
    [ goto |-> {"url"}, click |-> {"locator"}, fill |-> {"locator", "value"},
      press |-> {"key"}, hover |-> {"locator"}, select |-> {"locator", "values"},
      wait |-> {}, waitForUrl |-> {"url"}, waitForLoadState |-> {},
      assertText |-> {"locator", "text"}, assertVisible |-> {"locator"},
      assertNotVisible |-> {"locator"}, assertPresent |-> {"locator"},
      assertNotPresent |-> {"locator"}, assertNotText |-> {"locator", "text"},
      assertUrl |-> {"url"}, dragAndDrop |-> {"from", "to"}, scroll |-> {},
      back |-> {}, refresh |-> {}, upload |-> {"locator", "files"},
      extract |-> {"name", "locator"}, extractJs |-> {"name", "code"},
      exit |-> {}, actionRef |-> {"actionId"}, screenshot |-> {},
      visualCheck |-> {"name"}, aiStep |-> {"instruction"},
      totp |-> {"locator", "secret"}, setVar |-> {"name", "value"},
      execJs |-> {"code"}, assertJs |-> {"code"} ]

Optional ==
    [ click |-> {"button", "double"}, press |-> {"locator"},
      wait |-> {"locator", "state", "timeoutMs"}, waitForUrl |-> {"timeoutMs"},
      scroll |-> {"locator"}, actionRef |-> {"name"}, screenshot |-> {"name"},
      visualCheck |-> {"ignoreRegions", "tolerancePct", "exclude", "selector"} ]

Defaults ==
    [ waitForLoadState |-> [state |-> "networkidle"],
      assertText |-> [mode |-> "contains"], assertNotText |-> [mode |-> "contains"],
      assertUrl |-> [exact |-> FALSE], exit |-> [pass |-> TRUE],
      screenshot |-> [fullPage |-> FALSE], visualCheck |-> [fullPage |-> FALSE] ]

For(table, type, none) == IF type \in DOMAIN table THEN table[type] ELSE none

Known(type) ==
    Common \cup Required[type] \cup For(Optional, type, {})
           \cup DOMAIN For(Defaults, type, <<>>)

(* A backup selector need not find anything; the locator itself must. *)
ValidStep(s) ==
    /\ Required[s.type] \subseteq DOMAIN s
    /\ \A k \in DOMAIN s \cap Known(s.type) :
        /\ k \in LocatorKeys => HasStrategy(s[k])
        /\ k \in {"values", "files"} => s[k] # <<>>
        /\ k = "name" /\ s.type \in {"extract", "extractJs", "setVar"} => s[k] # ""
        /\ k = "timeoutMs" => s[k] > 0
        /\ k = "tolerancePct" => s[k] \in 0 .. 90
        /\ k \in {"retries", "retryDelayMs"} => s[k] >= 0
        /\ k \in {"double", "exact", "pass", "fullPage"} => s[k] \in BOOLEAN

(* A step with a type the schema has, and a list of them. *)
IsStep(s)   == Has(s, "type") /\ s.type \in DOMAIN Required
StepList(l) == IsList(l) /\ \A i \in DOMAIN l : IsStep(l[i])

(* None of them waits for a condition that is blank. *)
Gates(s)   == Has(s, "condition") => ~ Blank(s.condition)
Cleaned(l) == StepList(l) /\ \A i \in DOMAIN l : Gates(l[i])

(* A parsed step: fields the variant does not know are stripped, defaults set. *)
ParseStep(s) == Restrict(s, DOMAIN s \cap Known(s.type)) ++ For(Defaults, s.type, <<>>)

-----------------------------------------------------------------------------
(* compile.ts *)

FirstSet(order, l, none) ==
    LET n == SelectInSeq(order, LAMBDA k : Has(l, k)) IN IF n = 0 THEN none ELSE order[n]

(* CSS is asked for before the strategies that read like the page. *)
ByStrategyCssFirst(l) ==
    FirstSet(<< "role", "css", "text", "placeholder", "label", "testId", "altText", "title", "xpath" >>, l, "ref")

(* byStrategy: the first field that is set, empty or not. *)
ByStrategy(l) ==
    FirstSet(<< "role", "text", "placeholder", "label", "testId", "altText", "title", "css", "xpath" >>, l, "ref")

(* resolveLocator: what the browser is asked for. *)
ResolveLocator(l) ==
    LET k == ByStrategy(l)
        options == CASE k = "role" -> {"name", "exact"}
                     [] k \in {"testId", "css", "xpath", "ref"} -> {}
                     [] OTHER -> {"exact"}
    IN  Restrict(l, DOMAIN l \cap ({k, "frame", "nth"} \cup options))

Candidates(l) ==
    << ResolveLocator(l) >> \o
    IF Has(l, "fallbacks") THEN [i \in DOMAIN l.fallbacks |-> ResolveLocator(l.fallbacks[i])]
                           ELSE << >>

(* healLocator: the first candidate that is on the page now, else the primary,
   which goes on waiting. *)
Heal(list, page) ==
    LET hit == SelectInSeq(list, LAMBDA c : c \in page)
    IN  list[IF hit = 0 THEN 1 ELSE hit]

Heals == {"click", "fill", "hover", "select", "dragAndDrop", "upload", "extract", "totp"}
Targets(s, k) == IF s.type \in Heals THEN Candidates(s[k]) ELSE << ResolveLocator(s[k]) >>

(* What a runner never looks at. *)
Unread(s) ==
    (IF Has(s, "condition") /\ Blank(s.condition) THEN {"condition"} ELSE {})
    \cup (IF s.type = "screenshot" THEN {"name"} ELSE {})
    \cup (IF s.type = "click" /\ Has(s, "double")
          THEN {IF s.double THEN "button" ELSE "double"} ELSE {})

(* compile: what a run does with a step, when and how often. *)
Compile(s) ==
    [k \in DOMAIN s \ Unread(s) |-> IF k \in LocatorKeys THEN Targets(s, k) ELSE s[k]]

(* Only these fields of a locator take {{tokens}}: not role, ref and frame. *)
TextFields == {"name", "text", "placeholder", "label", "testId", "altText", "title", "css", "xpath"}

Interpolate(text, vars) ==
    IF text \in DOMAIN TokenOf /\ TokenOf[text] \in DOMAIN vars
    THEN vars[TokenOf[text]] ELSE text

-----------------------------------------------------------------------------
(* codegen.ts: a line is a call with its arguments, inside only(...) if the
   step has a condition. *)

CodeKeys == {"role", "name", "text", "placeholder", "label", "testId", "altText",
             "title", "css", "xpath", "ref", "exact", "nth"}

(* The position among several matches is left out. *)
CodeLocatorWithoutNth(l) ==
    Restrict(l, DOMAIN l \cap ((CodeKeys \ {"nth"}) \cup {"fallbacks"}))

(* `frame` is not among the keys. *)
CodeLocator(l) == Restrict(l, DOMAIN l \cap (CodeKeys \cup {"fallbacks"}))

(* Flags that are off and the default mode are not written; `wait` writes its
   whole locator as JSON. *)
Unwritten(s) ==
    (Common \ {"type"}) \cup {k \in DOMAIN s \cap {"double", "exact"} : ~ s[k]}
                        \cup {k \in DOMAIN s \cap {"mode"} : s[k] = "contains"}

StepToLine(s) ==
    [k \in DOMAIN s \ Unwritten(s) |->
        IF k \in LocatorKeys /\ s.type # "wait" THEN CodeLocator(s[k]) ELSE s[k]]

ToCode(s) ==
    [ only |-> IF Has(s, "condition") /\ ~ Blank(s.condition) THEN {s.condition} ELSE {},
      call |-> StepToLine(s) ]

FromCode(line) ==
    ParseStep(IF line.only = {} THEN line.call
              ELSE line.call ++ [condition |-> CHOOSE c \in line.only : TRUE])

-----------------------------------------------------------------------------
(* describe.ts: what a sentence says of an element.  A name that is empty and
   `exact` are not said; a `ref` is just "the element". *)
DescribeLocator(l) ==
    LET k == FirstSet(<< "role", "text", "placeholder", "label", "testId", "altText", "title", "css", "xpath" >>, l, "ref")
        says == CASE k = "ref" -> {} [] k = "role" /\ Has(l, "name") /\ l.name # "" -> {"role", "name"}
                  [] OTHER -> {k}
    IN  [says |-> Restrict(l, says),
         nth |-> IF Has(l, "nth") THEN l.nth + 1 ELSE 0,
         framed |-> Has(l, "frame")]

(* describeSegments, of a click. *)
ClickVerb(s) ==
    IF Has(s, "double") /\ s.double THEN "Double-click"
    ELSE IF Has(s, "button") /\ s.button = "right" THEN "Right-click" ELSE "Click"

-----------------------------------------------------------------------------
(* expand.ts *)

ASSUME DepthAssumption == MaxDepth \in Nat

TooDeep == [type |-> "tooDeep"]  \* expandActions throws

(* The condition of a reference gates the steps it is replaced by, those that
   have a condition of their own excepted. *)
Carried(ref, s) ==
    IF Has(ref, "condition") /\ ~ Has(s, "condition")
    THEN s ++ [condition |-> ref.condition] ELSE s

(* The reference's condition is forgotten. *)
InlineBare(s, expansions) ==
    IF s.type # "actionRef" THEN << s >>
    ELSE IF s.actionId \notin DOMAIN expansions THEN << >> ELSE expansions[s.actionId]

(* A step, or the steps of the action it refers to; an action that is gone
   leaves nothing. *)
Inline(s, expansions) ==
    IF s.type # "actionRef" THEN << s >>
    ELSE IF s.actionId \notin DOMAIN expansions THEN << >>
    ELSE [i \in DOMAIN expansions[s.actionId] |-> Carried(s, expansions[s.actionId][i])]

ExpandActions(steps, actions) ==
    LET sub[depth \in 1 .. MaxDepth + 1] ==  \* every action, expanded at that depth
            IF depth > MaxDepth THEN [a \in DOMAIN actions |-> << TooDeep >>]
            ELSE [a \in DOMAIN actions |->
                    FlattenSeq([i \in DOMAIN actions[a] |-> Inline(actions[a][i], sub[depth + 1])])]
    IN  FlattenSeq([i \in DOMAIN steps |-> Inline(steps[i], sub[1])])

Expandable(plan) == \A i \in DOMAIN plan : plan[i].type # "tooDeep"
=============================================================================
