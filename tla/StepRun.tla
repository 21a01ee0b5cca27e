------------------------------ MODULE StepRun ------------------------------
(***************************************************************************)
(* One attempt at a compiled test as the page and the variables see it:    *)
(* makeVarStore (variables.ts), its seeding and the redaction of errors    *)
(* (run.ts:270-304), the step loop (306-363) and what the runners of       *)
(* compile.ts do.  RunExec has the rows, the browser and the retries of a  *)
(* run; here a repeated attempt is another run of this module.             *)
(***************************************************************************)
EXTENDS StepLanguage

CONSTANTS Row,       \* the variables of the job's data row
          Secrets,   \* the password secrets of the organisation, by variable name
          Short,     \* the values shorter than four characters
          Builtins,  \* the names generateBuiltin knows
          Generated  \* the values it draws, in order

VARIABLES plan,   \* the expanded steps
          at,     \* the step that is next
          store,  \* vars: a partial function from names to values
          draws,  \* values generated so far
          status, \* "ready", "running", "passed" or "failed"
          error,  \* the message that is persisted, "" if none
          log     \* what the page was asked to do, step by step

Texts3 == {"url", "value", "text", "code", "instruction", "condition"}
Lists  == {"values", "files"}

(* The texts of a compiled step that are interpolated, on a page where only
   `present` can be found. *)
Chosen(c, present) ==
    [k \in LocatorKeys \cap DOMAIN c |-> Heal(c[k], present)]

(* A role, a CSS or XPath selector or a ref that is empty finds nothing (its probe
   throws); an empty text, label or placeholder is part of every one and matches. *)
Findable(t) == ByStrategy(t) \in {"role", "css", "xpath", "ref"} => t[ByStrategy(t)] # ""

TokensOf(c) ==
    LET texts == {c[k] : k \in Texts3 \cap DOMAIN c}
                 \cup UNION {ToSet(c[k]) : k \in Lists \cap DOMAIN c}
                 \cup UNION {UNION {Range(Restrict(t, DOMAIN t \cap TextFields)) : t \in ToSet(c[k])} :
                             k \in LocatorKeys \cap DOMAIN c}
    IN  {TokenOf[x] : x \in texts \cap DOMAIN TokenOf}

(* resolveVar: what is in the store, else a built-in that is kept from now on. *)
Resolve(names) ==
    store ++ [k \in (names \cap Builtins) \ DOMAIN store |-> Generated[draws + 1]]

(* Object.assign of the row, then of the secrets. *)
Seeded == Secrets ++ Row

-----------------------------------------------------------------------------
RunInit ==
    /\ plan = << >> /\ at = 1 /\ store = << >> /\ draws = 0
    /\ status = "ready" /\ error = "" /\ log = << >>

(* An attempt begins with a store of its own. *)
Start(steps) ==
    /\ status = "ready"
    /\ plan' = [i \in DOMAIN steps |-> Compile(steps[i])]
    /\ at' = 1 /\ store' = Seeded /\ draws' = 0
    /\ status' = "running" /\ error' = "" /\ log' = << >>

(* The nesting of actions is too deep: the run ends before its first step. *)
StartFails ==
    /\ status = "ready" /\ status' = "failed" /\ error' = "tooDeep"
    /\ UNCHANGED << plan, at, store, draws, log >>

Step == plan[at]
Running == status = "running" /\ at <= Len(plan)
Drawn(new) == draws' = IF new # store THEN draws + 1 ELSE draws

(* The condition is falsy, or throws. *)
Skip ==
    /\ Running /\ Has(Step, "condition")
    /\ LET resolved == Resolve(TokensOf([condition |-> Step.condition])) IN
        store' = resolved /\ Drawn(resolved)
    /\ at' = at + 1
    /\ UNCHANGED << plan, status, error, log >>

Writes == {"extract", "extractJs", "setVar"}

(* What a step that runs asks of the page, and the variables it read. *)
Asked(c, chosen, values) ==
    [at |-> at, on |-> chosen, read |-> Restrict(values, TokensOf(c) \cap DOMAIN values)]

(* The step passes; a variable step assigns its name a text of the page, the
   result of its code or its value. *)
Pass ==
    /\ Running /\ Step.type \notin {"exit", "actionRef"}
    /\ \E present \in SUBSET {t \in UNION {ToSet(Step[k]) : k \in LocatorKeys \cap DOMAIN Step} : Findable(t)},
          pageText \in {"", "a"} :
        LET values == Resolve(TokensOf(Step))
            value  == IF Step.type = "setVar" THEN Interpolate(Step.value, values) ELSE pageText
            new    == IF Step.type \in Writes THEN Entry(Step.name, value) ++ values ELSE values
        IN  /\ store' = new /\ Drawn(values)
            /\ log' = Append(log, Asked(Step, Chosen(Step, present), values))
    /\ at' = at + 1
    /\ UNCHANGED << plan, status, error >>

(* exit ends the run there, with the verdict it names. *)
Exit ==
    /\ Running /\ Step.type = "exit"
    /\ status' = IF Step.pass THEN "passed" ELSE "failed"
    /\ error' = IF Step.pass THEN "" ELSE "exited"
    /\ UNCHANGED << plan, at, store, draws, log >>

(* Of the messages that the program words itself, none is a secret of four
   characters or more. *)
ASSUME WordsAssumption == {"", "***", "exited", "tooDeep"} \cap Range(Secrets) \subseteq Short

(* Errors are persisted as they come. *)
RedactNothing(text) == text

(* The secrets known when the run began, if they are long enough, are struck out. *)
Redact(text) ==
    IF text \in {Seeded[k] : k \in DOMAIN Seeded \cap DOMAIN Secrets} \ Short THEN "***" ELSE text

(* The step throws: a page error, an assertion, a reference nobody expanded.
   The message may quote any text of the step. *)
Fail ==
    /\ Running /\ Step.type # "exit"
    /\ LET values == Resolve(TokensOf(Step)) IN
        /\ \E quoted \in {"timeout"} \cup {Interpolate(Step[k], values) : k \in (Texts3 \cap DOMAIN Step) \ {"condition"}} :
            error' = Redact(quoted)
        /\ store' = values /\ Drawn(values)
    /\ status' = "failed"
    /\ UNCHANGED << plan, at, log >>

Complete ==
    /\ status = "running" /\ at > Len(plan) /\ status' = "passed"
    /\ UNCHANGED << plan, at, store, draws, error, log >>

RunNext == Skip \/ Pass \/ Exit \/ Fail \/ Complete

-----------------------------------------------------------------------------
(* A built-in keeps its value for the whole run: two steps that read one
   variable see one value unless a step in between assigns it
   (variables.ts:68-71). *)
BuiltinsStable ==
    \A i, j \in DOMAIN log : i < j =>
        \A k \in DOMAIN log[i].read \cap DOMAIN log[j].read \cap Builtins :
            \/ log[i].read[k] = log[j].read[k]
            \/ \E n \in log[i].at .. log[j].at - 1 :
                   plan[n].type \in Writes /\ plan[n].name = k

(* "A CSV column can never shadow a real secret.* value" (run.ts:271-272):
   every read of a secret gives the secret, up to a step that assigns it. *)
SecretsWin ==
    \A i \in DOMAIN log : \A k \in DOMAIN log[i].read \cap DOMAIN Secrets :
        \/ log[i].read[k] = Secrets[k]
        \/ \E n \in 1 .. log[i].at - 1 : plan[n].type \in Writes /\ plan[n].name = k

(* No error that is persisted shows a password secret of four characters or
   more (run.ts:286-291), even after setVar has copied it to another variable. *)
ErrorsRedacted == error \in Range(Secrets) => error \in Short
=============================================================================
