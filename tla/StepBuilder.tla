---------------------------- MODULE StepBuilder ----------------------------
(***************************************************************************)
(* The no-code editor of tests, actions and login flows                    *)
(* (components/StepBuilder.tsx) with the modals it is opened in and the    *)
(* server it saves to.  The form stays live while a save is on its way,    *)
(* answers can be lost, the modal can be closed at any moment, and the     *)
(* example steps are objects of the module that every builder shares.      *)
(*                                                                         *)
(* A step in the form is its value and `of`, the example entry it is the   *)
(* same object as (0: none).                                               *)
(***************************************************************************)
EXTENDS StepLanguage, FiniteSets

CONSTANTS Menu,     \* step types offered by Add step (all of them in the code)
          Texts,    \* what can be typed into a field
          Library,  \* the actions that exist when the page is loaded
          Opened,   \* how a builder may be opened: [kind, editing, seed, ops, saves], the kind
                    \* being "test", "action" or "login", the seed the steps of an existing row,
                    \* ops and saves bounds of the model on edits and requests
          MaxSteps  \* bound of the model on the length of the form

VARIABLES mode,     \* props.mode, whether an existing row is edited, and initialSteps
          form,     \* the steps shown
          named,    \* whether the name is filled in
          example,  \* the module's EXAMPLE
          palette,  \* the saved actions as the page last loaded them
          request,  \* the request of Save, if one is on its way
          asides,   \* requests of "Save these steps as an action"
          page,     \* "open", "leaving" (navigation has begun) or "gone"
          err,      \* the message shown, "" if none
          stored,   \* the server: every version or flow that Save wrote
          actions,  \* the server: the saved actions, by id
          lost,     \* saves that the form was told had failed
          ops, saves

vars == << mode, form, named, example, palette, request, asides, page, err, stored, actions, lost, ops, saves >>

-----------------------------------------------------------------------------
(* stepActions.ts: the step each entry of the menu makes. *)
Made == LET loc(kind) == [role |-> kind] IN
    [ goto |-> [url |-> "https://"], back |-> <<>>, refresh |-> <<>>, scroll |-> <<>>,
      click |-> [locator |-> loc("button")],
      fill |-> [locator |-> loc("textbox"), value |-> ""],
      select |-> [locator |-> loc("combobox"), values |-> << "" >>],
      hover |-> [locator |-> loc("button")], press |-> [key |-> "Enter"],
      dragAndDrop |-> [from |-> loc("button"), to |-> loc("button")],
      upload |-> [locator |-> loc("button"), files |-> << "" >>],
      totp |-> [locator |-> loc("textbox"), secret |-> ""],
      assertVisible |-> [locator |-> loc("heading")],
      assertText |-> [locator |-> loc("heading"), text |-> "", mode |-> "contains"],
      assertUrl |-> [url |-> "/", exact |-> FALSE],
      assertNotVisible |-> [locator |-> loc("heading")],
      assertPresent |-> [locator |-> loc("button")],
      assertNotPresent |-> [locator |-> loc("button")],
      assertNotText |-> [locator |-> loc("heading"), text |-> "", mode |-> "contains"],
      visualCheck |-> [name |-> "", fullPage |-> FALSE],
      wait |-> [timeoutMs |-> 1000], waitForUrl |-> [url |-> ""],
      waitForLoadState |-> [state |-> "networkidle"], screenshot |-> [fullPage |-> FALSE],
      extract |-> [name |-> "", locator |-> loc("heading")],
      setVar |-> [name |-> "", value |-> ""], aiStep |-> [instruction |-> ""],
      extractJs |-> [name |-> "", code |-> "return"], execJs |-> [code |-> ""],
      assertJs |-> [code |-> "return"], exit |-> [pass |-> TRUE] ]

Make(type) == [type |-> type] ++ Made[type]

Example == << [type |-> "goto", url |-> "https://"],
              [type |-> "assertVisible", locator |-> [role |-> "heading", name |-> "a"]],
              [type |-> "click", locator |-> [role |-> "link", name |-> "a"]] >>

-----------------------------------------------------------------------------
(* The element picker. *)

StratKeys == << "role", "text", "placeholder", "label", "testId", "altText",
                "title", "css", "xpath", "ref" >>
StrategyOf(l) == FirstSet(StratKeys, l, "role")
PrimaryValue(l) ==
    LET k == IF StrategyOf(l) = "role" THEN "name" ELSE StrategyOf(l)
    IN  For(l, k, "")

(* A retargeted element is matched loosely again. *)
WithStrategyInexact(l, strategy, value) ==
    Restrict(l, DOMAIN l \cap {"nth", "fallbacks"}) ++
    IF strategy # "role" THEN Entry(strategy, value)
    ELSE [role |-> For(l, "role", "button")] ++ (IF value = "" THEN <<>> ELSE [name |-> value])

(* withStrategy: the text and three modifiers are carried over; `frame` is not
   one of them. *)
WithStrategy(l, strategy, value) ==
    Restrict(l, DOMAIN l \cap {"exact", "nth", "fallbacks"}) ++
    IF strategy # "role" THEN Entry(strategy, value)
    ELSE [role |-> For(l, "role", "button")] ++ (IF value = "" THEN <<>> ELSE [name |-> value])

Offered == {"role", "text", "css"}  \* of the nine strategies, three that differ in how they are treated

StrategyEdits(l) ==
    {WithStrategy(l, k, PrimaryValue(l)) : k \in Offered}
    \cup {WithStrategy(l, StrategyOf(l), v) : v \in Texts}
    \cup (IF StrategyOf(l) = "role" THEN {[role |-> "link"] ++ l} ELSE {})

(* Backup selectors are added, changed and removed. *)
BackupEdits(backups) ==
    {Append(backups, [css |-> ""])}
    \cup UNION {{ReplaceAt(backups, i, f) : f \in StrategyEdits(backups[i])} : i \in DOMAIN backups}
    \cup {RemoveAt(backups, i) : i \in DOMAIN backups}

WithBackups(l, fs) ==
    IF fs = << >> THEN Without(l, {"fallbacks"}) ELSE [fallbacks |-> fs] ++ l

(* The drawer: exact match, "use #n" shown from 1, and backup selectors. *)
DrawerEdits(l) ==
    {[exact |-> TRUE] ++ l, Without(l, {"exact"}), Without(l, {"nth"})}
    \cup {[nth |-> n - 1] ++ l : n \in {0, 2}}
    \cup {WithBackups(l, fs) : fs \in BackupEdits(For(l, "fallbacks", << >>))}

LocatorEdits(s) ==
    UNION {{Entry(k, l) ++ s : l \in StrategyEdits(s[k]) \cup DrawerEdits(s[k])} :
           k \in (LocatorKeys \cap DOMAIN s) \ (IF s.type = "press" THEN {"locator"} ELSE {})}

-----------------------------------------------------------------------------
(* stepFields: what the other fields of a step can do to it. *)
TextInputs ==
    [ goto |-> {"url"}, assertNotText |-> {"text"}, extract |-> {"name"},
      extractJs |-> {"name", "code"}, fill |-> {"value"}, assertText |-> {"text"},
      assertUrl |-> {"url"}, aiStep |-> {"instruction"}, visualCheck |-> {"name"},
      waitForUrl |-> {"url"}, press |-> {"key"}, totp |-> {"secret"},
      setVar |-> {"name", "value"}, execJs |-> {"code"}, assertJs |-> {"code"} ]

TextEdits(s) ==
    UNION {{Entry(k, v) ++ s : v \in Texts} : k \in For(TextInputs, s.type, {})}

ListEdits(s) ==  \* a comma-separated field that is emptied has no entries
    UNION {{Entry(k, << >>) ++ s, Entry(k, << "a" >>) ++ s} :
           k \in For([select |-> {"values"}, upload |-> {"files"}, visualCheck |-> {"exclude"}], s.type, {})}

ChoiceEdits(s) ==
    CASE s.type = "click" ->
            {[double |-> FALSE] ++ Without(s, {"button"}), [double |-> TRUE] ++ Without(s, {"button"}),
             [double |-> FALSE, button |-> "right"] ++ s}
      [] s.type = "exit" -> {[pass |-> p] ++ s : p \in BOOLEAN}
      [] s.type = "waitForLoadState" -> {[state |-> "load"] ++ s}
      [] s.type = "visualCheck" ->
            {[tolerancePct |-> t] ++ s : t \in {0, 91}}
            \cup {Without(s, {"tolerancePct"}), [selector |-> "a"] ++ s, Without(s, {"selector"})}
      [] OTHER -> {}

WaitEdits(s) ==  \* a time in seconds, or an element and a state
    IF s.type # "wait" THEN {}
    ELSE {[locator |-> [role |-> "heading"], state |-> "visible"] ++ Without(s, {"timeoutMs"}),
          [timeoutMs |-> 1000] ++ Without(s, {"locator", "state"})}
         \cup (IF Has(s, "locator") THEN {[state |-> "hidden"] ++ s}
               ELSE {[timeoutMs |-> ms] ++ s : ms \in {0, 500}})

ConditionEdits(s) == {[condition |-> c] ++ s : c \in Texts}  \* removing one sets it to ''

Edits(s) ==
    LocatorEdits(s) \cup TextEdits(s) \cup ListEdits(s) \cup ChoiceEdits(s) \cup WaitEdits(s) \cup ConditionEdits(s)

(* Conditions are kept as they were typed. *)
NormalizeNames(s) ==
    IF Has(s, "locator") /\ Has(s.locator, "name") /\ s.locator.name = ""
    THEN [s EXCEPT !.locator = Without(s.locator, {"name"})] ELSE s

(* Every condition goes. *)
NormalizeUngated(s) == Without(NormalizeNames(s), {"condition"})

(* normalize: empty names (of `locator` only) and blank conditions go. *)
Normalize(s) ==
    Without(NormalizeNames(s),
            IF Has(s, "condition") /\ Blank(s.condition) THEN {"condition"} ELSE {})

Shown   == [i \in DOMAIN form |-> form[i].step]
Clean   == [i \in DOMAIN form |-> Normalize(form[i].step)]
Fresh(steps) == [i \in DOMAIN steps |-> [of |-> 0, step |-> steps[i]]]
AllValid(steps) == \A i \in DOMAIN steps : ValidStep(steps[i])
Parsed(steps)   == [i \in DOMAIN steps |-> ParseStep(steps[i])]

(* What a save may leave in a row. *)
Storable(l) == Cleaned(l) /\ AllValid(l)

(* An editor is opened on steps that parse (on none, where they do not); the
   actions that are there were saved by it. *)
ASSUME BuilderAssumption ==
    /\ Menu \subseteq DOMAIN Made
    /\ IsList(Library) /\ \A a \in DOMAIN Library : Storable(Library[a])
    /\ \A m \in Opened : /\ m.editing \in BOOLEAN /\ m.ops \in Nat /\ m.saves \in Nat
                         /\ StepList(m.seed) /\ AllValid(m.seed)

-----------------------------------------------------------------------------
Idle == [at |-> "idle"]
Busy == request # Idle

Init ==
    /\ mode \in Opened
    /\ form = Fresh(Parsed(mode.seed))
    /\ named = mode.editing
    /\ example = Example
    /\ palette = IF mode.kind = "test" THEN Library ELSE << >>
    /\ request = Idle /\ asides = {} /\ page = "open" /\ err = ""
    /\ stored = << >> /\ actions = Library
    /\ lost = 0 /\ ops = 0 /\ saves = 0

Server == << stored, actions, lost >>
Op     == page # "gone" /\ ops < mode.ops /\ ops' = ops + 1
EditOnly == UNCHANGED << mode, named, palette, request, asides, page, Server, saves >>

NameTest ==
    /\ ~ named /\ named' = TRUE /\ page # "gone"
    /\ UNCHANGED << mode, form, example, palette, request, asides, page, err, Server, ops, saves >>

(* patchStep: the store writes through to the object it was given. *)
PatchStep(i) ==
    /\ Op
    /\ \E s \in Edits(form[i].step) :
        /\ form' = [form EXCEPT ![i].step = s]
        /\ example' = IF form[i].of = 0 THEN example ELSE [example EXCEPT ![form[i].of] = s]
    /\ UNCHANGED err /\ EditOnly

AddStep ==
    /\ Op /\ Len(form) < MaxSteps
    /\ \E type \in Menu : form' = Append(form, [of |-> 0, step |-> Make(type)])
    /\ err' = "" /\ UNCHANGED example /\ EditOnly

InsertActionRef ==
    /\ Op /\ Len(form) < MaxSteps
    /\ \E a \in DOMAIN palette :
        form' = Append(form, [of |-> 0, step |-> [type |-> "actionRef", actionId |-> a, name |-> "a"]])
    /\ err' = "" /\ UNCHANGED example /\ EditOnly

(* A copy of the action as the page last loaded it. *)
InsertActionCopy ==
    /\ Op
    /\ \E a \in DOMAIN palette :
        /\ Len(form) + Len(palette[a]) <= MaxSteps
        /\ form' = form \o Fresh(Parsed(palette[a]))
    /\ err' = "" /\ UNCHANGED example /\ EditOnly

RemoveStep(i) ==
    /\ Op /\ form' = RemoveAt(form, i)
    /\ UNCHANGED << example, err >> /\ EditOnly

MoveStep(i) ==  \* up or down, the same exchange
    /\ Op /\ i < Len(form)
    /\ form' = [form EXCEPT ![i] = form[i + 1], ![i + 1] = form[i]]
    /\ UNCHANGED << example, err >> /\ EditOnly

ClearAll ==
    /\ Op /\ form # << >> /\ form' = << >>
    /\ UNCHANGED << example, err >> /\ EditOnly

(* The list is new, its entries are the module's own objects; not counted among
   the edits, it is possible only where the form is empty. *)
LoadExample ==
    /\ page # "gone" /\ form = << >>
    /\ form' = [i \in DOMAIN example |-> [of |-> i, step |-> example[i]]]
    /\ UNCHANGED << example, err, ops >> /\ EditOnly

-----------------------------------------------------------------------------
(* submit *)

NewId == Len(Library) + 1 + saves

(* What the form holds is sent, not what validation makes of it: parseTest is
   only asked whether it is valid; the server stores the text it is sent. *)
Submit ==
    /\ page = "open" /\ ~ Busy /\ saves < mode.saves
    /\ named /\ form # << >> /\ AllValid(Clean)
    /\ request' = [at |-> "sent", id |-> NewId, steps |-> Clean, shown |-> Shown] /\ err' = ""
    /\ saves' = saves + 1
    /\ UNCHANGED << mode, form, named, example, palette, asides, page, Server, ops >>

SubmitRefused ==
    /\ page = "open" /\ ~ Busy
    /\ err' = IF ~ named THEN "name" ELSE IF form = << >> THEN "empty" ELSE "invalid"
    /\ ~ (named /\ form # << >> /\ AllValid(Clean))
    /\ UNCHANGED << mode, form, named, example, palette, request, asides, page, Server, ops, saves >>

(* actions.update and create, or tests.update and create and those of the login
   flows: the action with id 1 is the one an action editor edits; an update of
   a row that is gone changes nothing. *)
ServeSubmit ==
    /\ Busy /\ request.at = "sent"
    /\ request' = [request EXCEPT !.at = "answered"]
    /\ IF mode.kind = "action"
       THEN /\ LET id == IF mode.editing THEN 1 ELSE request.id IN
                actions' = IF mode.editing /\ 1 \notin DOMAIN actions THEN actions
                           ELSE Entry(id, request.steps) ++ actions
            /\ UNCHANGED stored
       ELSE stored' = Append(stored, request.steps) /\ UNCHANGED actions
    /\ UNCHANGED << mode, form, named, example, palette, asides, page, err, lost, ops, saves >>

(* The component is gone, and with a page the module's example. *)
Unmounted(fresh) ==
    /\ page' = "gone" /\ form' = << >> /\ palette' = << >> /\ named' = FALSE /\ err' = ""
    /\ example' = IF fresh THEN Example ELSE example

(* A page of its own navigates: it stays busy, and editable, until it is gone. *)
Saved ==
    /\ Busy /\ request.at = "answered" /\ page = "open" /\ ~ mode.editing
    /\ page' = "leaving"
    /\ UNCHANGED << mode, form, named, example, palette, request, asides, err, Server, ops, saves >>

(* The parent of a modal closes it, and loads its page or its list again. *)
SavedInModal ==
    /\ Busy /\ request.at = "answered" /\ page = "open" /\ mode.editing
    /\ Unmounted(mode.kind # "login") /\ request' = Idle
    /\ UNCHANGED << mode, asides, Server, ops, saves >>

(* The request or its answer is lost, or the server fails: the user may try again. *)
SaveFails ==
    /\ Busy /\ page = "open"
    /\ request' = Idle /\ err' = "failed" /\ lost' = lost + 1
    /\ UNCHANGED << mode, form, named, example, palette, asides, page, stored, actions, ops, saves >>

Leave ==
    /\ page = "leaving" /\ Unmounted(TRUE) /\ request' = Idle
    /\ UNCHANGED << mode, asides, Server, ops, saves >>

(* Escape, the backdrop or the close button of the modal, or the tab: what is
   on its way goes on. *)
CloseEditor ==
    /\ page = "open" /\ Unmounted(~ mode.editing)
    /\ UNCHANGED << mode, request, asides, Server, ops, saves >>

(* Nobody waits for the answers any more. *)
Unanswered ==
    /\ page = "gone" /\ (Busy \/ asides # {})
    /\ request' = Idle /\ asides' = {}
    /\ UNCHANGED << mode, form, named, example, palette, page, err, Server, ops, saves >>

(* saveAsAction: nothing keeps it from being sent twice, and the steps are not
   validated by the page. *)
SaveAsAction ==
    /\ page = "open" /\ mode.kind = "test" /\ form # << >> /\ saves < mode.saves
    /\ asides' = asides \cup {[at |-> "sent", id |-> NewId, steps |-> Clean]}
    /\ saves' = saves + 1
    /\ UNCHANGED << mode, form, named, example, palette, request, page, err, Server, ops >>

ServeAside(r) ==
    /\ r.at = "sent" /\ AllValid(r.steps)
    /\ actions' = Entry(r.id, r.steps) ++ actions
    /\ asides' = (asides \ {r}) \cup {[r EXCEPT !.at = "answered"]}
    /\ UNCHANGED << mode, form, named, example, palette, request, page, err, stored, lost, ops, saves >>

AsideSaved(r) ==  \* the palette is loaded again
    /\ r.at = "answered" /\ page # "gone"
    /\ palette' = actions /\ asides' = asides \ {r}
    /\ UNCHANGED << mode, form, named, example, request, page, err, Server, ops, saves >>

AsideFails(r) ==  \* invalid for the server, or a request or answer lost
    /\ page # "gone" /\ err' = "failed" /\ asides' = asides \ {r}
    /\ UNCHANGED << mode, form, named, example, palette, request, page, Server, ops, saves >>

-----------------------------------------------------------------------------
Editing ==
    \/ NameTest \/ AddStep \/ InsertActionRef \/ InsertActionCopy \/ ClearAll \/ LoadExample
    \/ \E i \in DOMAIN form : PatchStep(i) \/ RemoveStep(i) \/ MoveStep(i)

Saving ==
    \/ Submit \/ SubmitRefused \/ ServeSubmit \/ Saved \/ SavedInModal \/ SaveFails \/ Leave
    \/ CloseEditor \/ Unanswered
    \/ SaveAsAction \/ \E r \in asides : ServeAside(r) \/ AsideSaved(r) \/ AsideFails(r)

Next == Editing \/ Saving
Spec == Init /\ [][Next]_vars
=============================================================================
