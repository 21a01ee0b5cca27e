--------------------------- MODULE TestLifecycle ---------------------------
(***************************************************************************)
(* From the form to the browser: what StepBuilder saves, expanded against  *)
(* the actions of the moment (run.ts:129) and run by StepRun.  Between the *)
(* save and the run an action may be edited or removed by someone else.    *)
(*                                                                         *)
(* Bound of the model: the run begins when the page has been left and its  *)
(* requests are settled.                                                   *)
(***************************************************************************)
EXTENDS StepBuilder, StepRun

CONSTANT Revisions \* what other users may turn an action into

(* Other users save what the editor saves. *)
ASSUME RevisionsAssumption == \A l \in Revisions : Storable(l)

runVars  == << plan, at, store, draws, status, error, log >>
lifeVars == << vars, runVars >>

LifeInit == Init /\ RunInit

(* actions.update and actions.remove by another user. *)
OthersRevise ==
    /\ ops < mode.ops /\ ops' = ops + 1
    /\ \E a \in DOMAIN actions, steps \in Revisions : actions' = [actions EXCEPT ![a] = steps]
    /\ UNCHANGED << mode, form, named, example, palette, request, asides, page, err, stored, lost, saves >>

OthersRemove ==
    /\ ops < mode.ops /\ ops' = ops + 1
    /\ \E a \in DOMAIN actions : actions' = Without(actions, {a})
    /\ UNCHANGED << mode, form, named, example, palette, request, asides, page, err, stored, lost, saves >>

Latest == Parsed(stored[Len(stored)])
Plan   == ExpandActions(Latest, [a \in DOMAIN actions |-> Parsed(actions[a])])

RunStored ==
    /\ page = "gone" /\ ~ Busy /\ asides = {} /\ stored # << >>
    /\ IF Expandable(Plan) THEN Start(Plan) ELSE StartFails
    /\ UNCHANGED vars

LifeNext ==
    \/ status = "ready" /\ (Next \/ OthersRevise \/ OthersRemove) /\ UNCHANGED runVars
    \/ RunStored
    \/ RunNext /\ UNCHANGED vars

LifeSpec == LifeInit /\ [][LifeNext]_lifeVars

-----------------------------------------------------------------------------
AllStored == ToSet(stored) \cup Range(actions)
StepsOf(lists) == UNION {ToSet(l) : l \in lists}

TypeOK ==
    /\ page \in {"open", "leaving", "gone"} /\ ops \in 0 .. mode.ops /\ saves \in 0 .. mode.saves
    /\ \A i \in DOMAIN form : form[i].of \in 0 .. Len(Example) /\ form[i].step.type \in DOMAIN Required
    /\ request.at \in {"idle", "sent", "answered"}
    /\ status \in {"ready", "running", "passed", "failed"} /\ at \in 1 .. Len(plan) + 1

(* Whatever is typed, moved, copied or half done when Save is clicked, what
   the server holds can be parsed and run: every step is valid, and none waits
   for a condition that is blank. *)
StoredCanRun ==
    \A s \in StepsOf(AllStored) :
        /\ ValidStep(s)
        /\ Has(s, "condition") => ~ Blank(s.condition)

(* The server is given what the form showed when Save was clicked, to the
   step: cleaning up changes nothing a run would do. *)
SavedAsShown ==
    Busy => /\ Len(request.steps) = Len(request.shown)
            /\ \A i \in DOMAIN request.steps :
                  \/ Compile(ParseStep(request.steps[i])) = Compile(ParseStep(request.shown[i]))
                  \/ Has(request.shown[i], "locator") /\ Has(request.shown[i].locator, "name")
                     /\ request.shown[i].locator.name = ""

(* The sentence over a step's fields, the fields and the run mean one element:
   the same strategy and text, the same position, the same frame; and one kind
   of click.  An empty name is not said; only a drag that was imported has one. *)
SentenceOf(target) ==
    LET k == CHOOSE k \in Strategies : k \in DOMAIN target
        told == {k} \cup ({"name"} \cap DOMAIN target)
    IN  [says |-> Restrict(target, IF k = "ref" THEN {} ELSE told),
         nth |-> IF Has(target, "nth") THEN target.nth + 1 ELSE 0,
         framed |-> Has(target, "frame")]

SentenceMatchesRun ==
    \A i \in DOMAIN form : LET s == Normalize(form[i].step) IN
        s.type # "actionRef" => \A k \in LocatorKeys \cap DOMAIN s :
            /\ \/ DescribeLocator(s[k]) = SentenceOf(ResolveLocator(s[k]))
               \/ k # "locator" /\ Has(s[k], "name") /\ s[k].name = ""
            /\ StrategyOf(s[k]) \in DOMAIN ResolveLocator(s[k])
            /\ s.type = "click" => LET c == Compile(s) IN
                  ClickVerb(s) = CASE For(c, "double", FALSE) -> "Double-click"
                                   [] For(c, "button", "left") = "right" -> "Right-click"
                                   [] OTHER -> "Click"

(* Documented, and not true: "fromCode(toCode(t)) === t" (codegen.ts:63; "the
   inverse", 54 and 157).  The script says nothing of the frame an element is in
   and of the retries a step has of its own. *)
ScriptInverse ==
    \A i \in DOMAIN form : LET s == ParseStep(Normalize(form[i].step)) IN
        ValidStep(s) => Compile(FromCode(ToCode(s))) = Compile(s)

(* What is true of it: of every other step the script, read back, does what the
   step does. *)
Unsayable(s) ==
    \/ Has(s, "retries") \/ Has(s, "retryDelayMs")
    \/ s.type # "wait" /\ \E k \in LocatorKeys \cap DOMAIN s : Has(s[k], "frame")

CodeDoesTheSame ==
    \A i \in DOMAIN form : LET s == ParseStep(Normalize(form[i].step)) IN
        ValidStep(s) /\ ~ Unsayable(s) => Compile(FromCode(ToCode(s))) = Compile(s)

(* Every step that replaces a gated reference is gated, by the condition of the
   reference or by one of its own, at every level: no step of an action runs
   unasked. *)
GateCarried ==
    \A ref \in StepsOf(AllStored) :
        ref.type = "actionRef" /\ Has(ref, "condition") =>
            \A s \in ToSet(ExpandActions(<< ref >>, actions)) :
                s.type # "tooDeep" => Has(s, "condition") /\ ~ Blank(s.condition)

(* A run never meets a reference: it is replaced, dropped with its action, or
   the run fails before its first step. *)
NothingUnexpanded == \A i \in DOMAIN plan : plan[i].type # "actionRef"

(* Documented, and not true: "locator needs a way to find the element (role, text,
   css, ...)" (schema.ts:43), which is asked of a locator and not of its backups
   (schema.ts:40-42).  A backup that was added, changed to a text and left empty
   matches whatever is on the page, and a step acts on that instead of waiting for
   its primary. *)
TargetsNamed == \A i \in DOMAIN log : \A k \in DOMAIN log[i].on : HasStrategy(log[i].on[k])

(* Each click of Save makes one row, whatever is clicked while it is on its
   way: there are no more than the answers that were lost, and one. *)
OneRowPerSave == Len(stored) <= lost + 1

(* Documented, and not true: "nested edits through the store can never mutate a
   caller's array" (StepBuilder.tsx:221-222).  The seed is copied; the example is
   loaded as it is (384), and an edit of a step loaded from it is an edit of what
   every builder of the page offers next. *)
ExampleUntouched == example = Example

(* "Carrying over the text value + modifiers" (StepBuilder.tsx:61): an edit that
   retargets a step's element leaves its exactness, its position and its backups
   as they were - of what withStrategy carries over; a frame goes. *)
Element(s)   == Restrict(s.locator, DOMAIN s.locator \ {"exact", "nth", "fallbacks"})
Modifiers(s) == Restrict(s.locator, DOMAIN s.locator \cap {"exact", "nth", "fallbacks"})

ModifiersCarried ==
    [][ \A i \in DOMAIN form :
          LET s == form[i].step  t == form'[i].step IN
          /\ DOMAIN form' = DOMAIN form /\ \A j \in DOMAIN form \ {i} : form'[j] = form[j]
          /\ s.type = t.type /\ s.type # "wait" /\ Has(s, "locator") /\ Element(t) # Element(s)
          => Modifiers(t) = Modifiers(s) ]_lifeVars

(* What the server holds is well formed and is there once: every stored step can
   run, whatever was typed, moved or half done when Save was clicked, and no click
   makes two rows (StepBuilder.tsx:186-195, 317-360). *)
StoredInv == TypeOK /\ StoredCanRun /\ OneRowPerSave

(* What replaces the references of a plan is what they stand for: nothing of a
   gated action runs unasked and no reference reaches a run (expand.ts:18-40). *)
ExpansionSound == GateCarried /\ NothingUnexpanded

(* A run's variables mean one thing throughout: a built-in is drawn once, a secret
   is not hidden by a column of its name, and no secret reaches a stored error,
   however it was copied (variables.ts:73-82, run.ts:273-298). *)
VariablesSound == BuiltinsStable /\ SecretsWin /\ ErrorsRedacted

-----------------------------------------------------------------------------
(* Why StoredInv holds.  What the form shows are steps of the language, each its
   own or one of the example's. *)
IsEntry(e) == DOMAIN e = {"of", "step"} /\ e.of \in 0 .. Len(Example) /\ IsStep(e.step)

FormKnown ==
    /\ IsList(form) /\ \A i \in DOMAIN form : IsEntry(form[i])
    /\ StepList(example) /\ DOMAIN example = 1 .. Len(Example)
    /\ \A a \in DOMAIN palette : StepList(palette[a])

(* What is on its way to a row was validated by the page, or is validated by the
   server before it gets there. *)
SavesChecked ==
    /\ IsList(stored) /\ \A l \in AllStored : Storable(l)
    /\ request # Idle => /\ DOMAIN request = {"at", "id", "steps", "shown"}
                         /\ request.at \in {"sent", "answered"} /\ Storable(request.steps)
    /\ \A r \in asides : /\ DOMAIN r = {"at", "id", "steps"}
                         /\ Cleaned(r.steps) /\ (r.at = "sent" \/ Storable(r.steps))

(* A row for each save that failed, and one more once a request is answered. *)
RowsCounted ==
    /\ lost \in Nat /\ Len(stored) <= lost + 1
    /\ page = "leaving" => request # Idle
    /\ request # Idle /\ page = "leaving" => request.at = "answered"
    /\ page = "open" /\ request = Idle => Len(stored) <= lost
    /\ request # Idle /\ request.at = "sent" => Len(stored) <= lost

BuilderTypes ==
    /\ mode \in Opened
    /\ page \in {"open", "leaving", "gone"} /\ ops \in 0 .. mode.ops /\ saves \in 0 .. mode.saves

PlanTypes ==
    /\ status \in {"ready", "running", "passed", "failed"}
    /\ DOMAIN plan = 1 .. Len(plan) /\ Len(plan) \in Nat /\ at \in 1 .. Len(plan) + 1

StoredInd == FormKnown /\ SavesChecked /\ RowsCounted /\ BuilderTypes /\ PlanTypes

-----------------------------------------------------------------------------
(* Why VariablesSound holds: what the store has of a name is what was read of it
   before, or a step in between assigned it. *)
Assigned(k, first, last) == \E n \in first .. last : plan[n].type \in Writes /\ plan[n].name = k

LogBehind == IsList(log) /\ \A i \in DOMAIN log : log[i].at \in 1 .. at - 1

BuiltinsKept ==
    \A i \in DOMAIN log : \A k \in DOMAIN log[i].read \cap Builtins :
        k \in DOMAIN store /\ (store[k] = log[i].read[k] \/ Assigned(k, log[i].at, at - 1))

SecretsKept ==
    status = "running" =>
        \A k \in DOMAIN Secrets :
            k \in DOMAIN store /\ (store[k] = Secrets[k] \/ Assigned(k, 1, at - 1))

ReadyEmpty == status = "ready" => log = << >>

VariablesInv ==
    LogBehind /\ BuiltinsKept /\ SecretsKept /\ ReadyEmpty /\ VariablesSound
=============================================================================
