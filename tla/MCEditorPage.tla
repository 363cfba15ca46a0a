---------------------------- MODULE MCEditorPage ----------------------------
(* Definitions to open and to type: a new and a stored one of either kind. *)
EXTENDS EditorPage

CondOn(f, k) == [f EXCEPT !.showIf = [field |-> k, op |-> "is"]]
MCForm ==
    [slug |-> "a", title |-> "fine", fields |-> <<FormField(1, "choice", "some"),
                                CondOn([FormField(2, "text", "none") EXCEPT !.limits = {"length"}], 1),
                                CondOn(FormField(3, "checkbox", "none"), 2)>>]
MCWorkflow ==
    [slug |-> "a", title |-> "fine", initial |-> 1, states |-> <<State(1, FALSE), State(2, FALSE), State(3, TRUE)>>,
     transitions |-> <<[Transition(1, {1}, 2) EXCEPT !.needs = {1}], Transition(2, {1, 2}, 3)>>,
     fields |-> <<WorkflowField(1, "choice", "some")>>, onSubmit |-> << >>]

MCOpenings == [form |-> {newFormDefinition, MCForm}, workflow |-> {newWorkflowDefinition, MCWorkflow}]

(* Texts: another slug, a reference to nothing, fewer entries, options of *)
(* a text, a pattern and a condition that only one side takes, two states *)
(* with one key of which the second is terminal, a blank role.            *)
MCTexts ==
    [form |-> {[MCForm EXCEPT !.slug = "b"],
               [MCForm EXCEPT !.fields = <<CondOn(MCForm.fields[1], 3)>>],
               [MCForm EXCEPT !.fields[2].pattern = "js", !.fields[3].showIf.op = "nullAnd"]},
     workflow |-> {[MCWorkflow EXCEPT !.slug = "b", !.fields = << >>],
                   [MCWorkflow EXCEPT !.fields[1].type = "text", !.transitions[1].roles = "blank"],
                   [MCWorkflow EXCEPT !.states[3].key = 2, !.transitions[2].to = 1],
                   [newWorkflowDefinition EXCEPT !.slug = "a", !.initial = 0, !.states = <<State(2, TRUE)>>]}]

=============================================================================
