-------------------------- MODULE MCTestLifecycle --------------------------
(* An instance of TestLifecycle: a new test, an existing one (with a framed,
   positioned, backed-up element; with variables; with a gated reference) and
   an existing action, two of whose kind refer to each other. *)
EXTENDS TestLifecycle

Tokens == ("{{b}}" :> "b") @@ ("{{p}}" :> "secret.p") @@ ("{{q}}" :> "secret.q") @@ ("{{x}}" :> "x")

MCTexts == {"", "{{b}}"}
MCMenu  == {"select", "wait", "extract", "exit", "visualCheck"}

Framed == [type |-> "click", condition |-> "a", double |-> TRUE,
           locator |-> [css |-> "#a", nth |-> 1, frame |-> "iframe",
                        fallbacks |-> << [css |-> ""], [role |-> "button", name |-> "a"] >>]]
Saved1 == << [type |-> "setVar", name |-> "x", value |-> "{{p}}"],
             [type |-> "fill", locator |-> [label |-> "{{b}}"], value |-> "{{x}}"],
             [type |-> "assertText", locator |-> [ref |-> "a"], text |-> "{{q}}"],
             [type |-> "hover", locator |-> [text |-> "{{b}}", css |-> "#a", exact |-> TRUE]] >>
Gated  == << [type |-> "actionRef", actionId |-> 1, condition |-> "a"] >>
MCOpened ==
    { [kind |-> "test", editing |-> FALSE, seed |-> << >>, ops |-> 2, saves |-> 1],
      [kind |-> "test", editing |-> FALSE, seed |-> << >>, ops |-> 1, saves |-> 2],
      [kind |-> "test", editing |-> TRUE, seed |-> << Framed >>, ops |-> 2, saves |-> 1],
      [kind |-> "test", editing |-> TRUE, seed |-> Saved1, ops |-> 1, saves |-> 2],
      [kind |-> "test", editing |-> TRUE, seed |-> Saved1, ops |-> 2, saves |-> 1],
      [kind |-> "test", editing |-> TRUE, seed |-> Gated, ops |-> 2, saves |-> 2],
      [kind |-> "action", editing |-> TRUE, seed |-> Gated, ops |-> 2, saves |-> 2],
      [kind |-> "login", editing |-> TRUE, seed |-> << [type |-> "press", key |-> "a"] >>, ops |-> 2, saves |-> 2] }

MCLibrary == << << [type |-> "actionRef", actionId |-> 2], [type |-> "back"] >>,
                << [type |-> "click", locator |-> [role |-> "button"], condition |-> "a"],
                   [type |-> "exit", pass |-> FALSE] >> >>
MCRevisions == { << [type |-> "actionRef", actionId |-> 1] >>,
                 << [type |-> "fill", locator |-> [text |-> "a"], value |-> "{{b}}"] >> }

MCRow       == ("secret.p" :> "row") @@ ("x" :> "row")
MCSecrets   == ("secret.p" :> "word") @@ ("secret.q" :> "pin")
MCGenerated == << "g1", "g2", "g3", "g4" >>
=============================================================================
