------------------------------ MODULE EditorPage ----------------------------
(* The page of an editor (FormEditorPage.tsx, WorkflowEditorPage.tsx): its *)
(* panels and its YAML pane, the save (useDefinitionSave.ts), the guard    *)
(* for unsaved changes, and what other editors put on the server.          *)
(* An effect that follows a change of the definition is part of the edit;  *)
(* the tab is changed at any time, and keeps nothing.  When the page is    *)
(* left its editor is gone, but for the definition it showed.              *)
EXTENDS WorkflowEditor

CONSTANTS
    Openings,     \* kind -> definitions the page may open
    Texts,        \* kind -> definitions that may be typed in the YAML pane
    NewKeys,      \* keys a user types
    NewLabels,    \* titles and labels a user types
    Nothing,      \* no definition
    MaxEdits, MaxSaves,
    MaxActs,      \* edits and saves together
    MaxListed     \* states, transitions, fields or actions in a list

(* The page opens a new definition or one that the server has accepted.    *)
ASSUME EditorAssumption ==
    /\ NewKeys \subseteq Nat /\ NewLabels \subseteq Labels
    /\ \A d \in Openings["form"] : IsForm(d) /\ (d = newFormDefinition \/ parse_form(d) = {})
    /\ \A d \in Openings["workflow"] : IsWorkflow(d) /\ (d = newWorkflowDefinition \/ parse_workflow(d) = {})
    /\ \A d \in Texts["form"] : IsForm(d)
    /\ \A d \in Texts["workflow"] : IsWorkflow(d)

VARIABLES
    kind,            \* "form" or "workflow"
    isNew,           \* no slug in the address
    opened,          \* the definition the page opened with
    editor,          \* the reducer's state
    serverProblems,
    save,            \* the mutation: its phase, its definition
    meanwhile,       \* edited since the last save was started
    raced,           \* another editor took the slug after it was found free
    edits, saves, pasted,
    taken,           \* slugs the server has a definition for
    mine,            \* what this page has stored last
    left             \* "no", or how the page was left

pageVars == <<kind, isNew, opened, editor, serverProblems, save, meanwhile, raced,
              edits, saves, pasted, taken, mine, left>>

def == editor.def
sel == editor.sel

Problems == IF kind = "form" THEN validateForm(def) ELSE validateWorkflow(def)
Refusals(d) == IF kind = "form" THEN parse_form(d) ELSE parse_workflow(d)

Init ==
    /\ kind \in {"form", "workflow"}
    /\ opened \in Openings[kind]
    /\ isNew = (opened.slug = "")
    /\ editor = [def |-> opened, sel |-> Settings, dirty |-> FALSE]
    /\ serverProblems = {}
    /\ save = [phase |-> "idle", def |-> Nothing]
    /\ meanwhile = FALSE /\ raced = FALSE /\ pasted = FALSE
    /\ edits = 0 /\ saves = 0
    /\ taken \in {S \in SUBSET GoodSlugs : isNew \/ opened.slug \in S}
    /\ mine = Nothing
    /\ left = "no"

-----------------------------------------------------------------------------
(* Editing.  Whatever changes the definition also drops the problems of    *)
(* the last save.                                                          *)

(* Mutant: they stay. *)
DroppedNever == serverProblems

Dropped == {}

Edit(e) ==
    /\ left = "no"
    /\ edits < MaxEdits /\ edits + saves < MaxActs
    /\ editor' = e
    /\ edits' = edits + 1
    /\ serverProblems' = Dropped
    /\ meanwhile' = (meanwhile \/ save.phase # "idle")
    /\ UNCHANGED <<kind, isNew, opened, save, raced, saves, taken, mine, left>>

Visual(k) == kind = k /\ pasted' = pasted
Room(list) == Len(list) < MaxListed
Selected(where) == sel.at = where /\ sel.i \in DOMAIN ListAt(def, where)

(* FormMetaPanel and WorkflowMetaPanel *)
EditMeta ==
    /\ Visual(kind)
    /\ sel = Settings
    /\ \/ \E s \in GoodSlugs \cup {""} :
            isNew /\ Edit(IF kind = "form" THEN formSetSlug(editor, s) ELSE setSlug(editor, s))
       \/ \E title \in NewLabels :
            Edit(IF kind = "form" THEN formSetTitle(editor, title) ELSE setTitle(editor, title))

(* FieldList *)
ListFields ==
    /\ Visual("form")
    /\ LET fields == def.fields IN
       \/ \E type \in FieldTypes : Room(fields) /\ Edit(formAddField(editor, type))
       \/ \E i \in DOMAIN fields : Edit(formRemoveField(editor, i))
       \/ \E i \in DOMAIN fields : Room(fields) /\ Edit(duplicateField(editor, i))
       \/ \E i, j \in DOMAIN fields : (j = i + 1 \/ i = j + 1) /\ Edit(moveField(editor, i, j))

(* FieldInspector *)
InspectField ==
    /\ Visual("form")
    /\ sel.at = "fields" /\ sel.i \in DOMAIN def.fields
    /\ \/ \E k \in NewKeys : Edit(formRenameField(editor, sel.i, k))
       \/ \E type \in FieldTypes : Edit(setFieldType(editor, sel.i, type))
       \/ \E f \in FieldPatches(def.fields, sel.i, NewLabels) : Edit(formUpdateField(editor, sel.i, f))

(* WorkflowOutline *)
Outline ==
    /\ Visual("workflow")
    /\ \/ Room(def.states) /\ Edit(addState(editor))
       \/ def.states # << >> /\ Room(def.transitions) /\ Edit(addTransition(editor))
       \/ Room(def.fields) /\ Edit(addField(editor))

InspectState ==
    /\ Visual("workflow")
    /\ Selected("states")
    /\ \/ \E k \in NewKeys : Edit(renameState(editor, sel.i, k))
       \/ \E s \in StatePatches(def.states[sel.i], NewLabels) : Edit(updateState(editor, sel.i, s))
       \/ Edit(setInitial(editor, def.states[sel.i].key))
       \/ Edit(removeState(editor, sel.i))

InspectTransition ==
    /\ Visual("workflow")
    /\ Selected("transitions")
    /\ \/ \E t \in TransitionPatches(def, sel.i, NewLabels, NewKeys) : Edit(updateTransition(editor, sel.i, t))
       \/ Edit(removeTransition(editor, sel.i))

InspectWorkflowField ==
    /\ Visual("workflow")
    /\ Selected("fields")
    /\ \/ \E k \in NewKeys : Edit(renameField(editor, sel.i, k))
       \/ \E f \in WorkflowFieldPatches(def.fields[sel.i], NewLabels) : Edit(updateField(editor, sel.i, f))
       \/ Edit(removeField(editor, sel.i))

(* ActionsEditor, in the panel of a transition or of the workflow *)
EditActions ==
    /\ Visual("workflow")
    /\ sel = Settings \/ Selected("transitions")
    /\ \/ \E type \in ActionTypes : Room(getActions(editor)) /\ Edit(addAction(editor, type))
       \/ \E j \in DOMAIN getActions(editor), sides \in SUBSET Sides : Edit(updateAction(editor, j, sides))
       \/ \E j \in DOMAIN getActions(editor) : Edit(removeAction(editor, j))

(* YamlPane applies a text whenever it parses. *)
TypeText ==
    /\ \E d \in Texts[kind] :
        Edit(IF kind = "form" THEN formReplace(editor, d) ELSE workflowReplace(editor, d))
    /\ pasted' = TRUE

Select(place) == IF kind = "form" THEN formSelect(editor, place) ELSE workflowSelect(editor, place)
Lists == IF kind = "form" THEN {"fields"} ELSE {"states", "transitions", "fields"}
Entries ==
    {Settings} \cup UNION {{Place(where, i) : i \in DOMAIN ListAt(def, where)} :
        where \in Lists}

SelectEntry ==
    /\ left = "no"
    /\ \E place \in Entries : editor' = Select(place)
    /\ UNCHANGED <<kind, isNew, opened, serverProblems, save, meanwhile, raced, edits, saves,
                   pasted, taken, mine, left>>

(* A problem in the list shows what it is about. *)
SelectProblem ==
    /\ left = "no"
    /\ \E p \in Problems \cup serverProblems : editor' = Select(p)
    /\ UNCHANGED <<kind, isNew, opened, serverProblems, save, meanwhile, raced, edits, saves,
                   pasted, taken, mine, left>>

-----------------------------------------------------------------------------
(* Saving *)

EditingSame == UNCHANGED <<kind, isNew, opened, edits, pasted>>
Ended == [save EXCEPT !.phase = "idle"]

Close(how) ==
    /\ left' = how
    /\ editor' = [def |-> def, sel |-> Settings, dirty |-> FALSE]
    /\ serverProblems' = {}
    /\ save' = Ended
    /\ EditingSame
    /\ UNCHANGED <<meanwhile, raced>>

FirstPhase == IF isNew THEN "asking" ELSE "putting"

onSave ==
    /\ left = "no"
    /\ save.phase = "idle"
    /\ saves < MaxSaves /\ edits + saves < MaxActs
    /\ Problems = {}
    /\ save' = [phase |-> FirstPhase, def |-> def]
    /\ saves' = saves + 1
    /\ serverProblems' = {}
    /\ meanwhile' = FALSE /\ raced' = FALSE
    /\ EditingSame
    /\ UNCHANGED <<editor, taken, mine, left>>

(* Mutant: any slug is free. *)
ExistsNever(slug) == FALSE

definitionExists(slug) == slug \in taken

Asked ==
    /\ save.phase = "asking"
    /\ IF definitionExists(save.def.slug)
       THEN save' = Ended /\ serverProblems' = {Settings}
       ELSE save' = [save EXCEPT !.phase = "putting"] /\ UNCHANGED serverProblems
    /\ EditingSame
    /\ UNCHANGED <<editor, meanwhile, raced, saves, taken, mine, left>>

(* The server stores what it accepts; its answer may get lost. *)
Put ==
    /\ save.phase = "putting"
    /\ Refusals(save.def) = {}
    /\ taken' = taken \cup {save.def.slug}
    /\ mine' = save.def
    /\ \/ save' = [save EXCEPT !.phase = "refreshing"]
       \/ save' = Ended
    /\ EditingSame
    /\ UNCHANGED <<editor, serverProblems, meanwhile, raced, saves, left>>

Refused ==
    /\ save.phase = "putting"
    /\ Refusals(save.def) # {}
    /\ save' = Ended
    /\ serverProblems' = Refusals(save.def)
    /\ EditingSame
    /\ UNCHANGED <<editor, meanwhile, raced, saves, taken, mine, left>>

(* A request that does not reach the server *)
Fails ==
    /\ save.phase \in {"asking", "putting"}
    /\ save' = Ended
    /\ EditingSame
    /\ UNCHANGED <<editor, serverProblems, meanwhile, raced, saves, taken, mine, left>>

(* The lists and the definition were fetched again: the page moves on. *)
Saved ==
    /\ save.phase = "refreshing"
    /\ left = "no"
    /\ Close("saved")
    /\ UNCHANGED <<saves, taken, mine>>

-----------------------------------------------------------------------------
(* Following a link: the guard asks when something is unsaved.  A failed   *)
(* fetch in the background shows its error instead of the editor.          *)
Leave ==
    /\ left = "no"
    /\ \/ Close(IF editor.dirty THEN "asked" ELSE "quiet")
       \/ ~isNew /\ Close("failed")
    /\ UNCHANGED <<saves, taken, mine>>

OthersCreate ==
    /\ \E s \in GoodSlugs \ taken :
        /\ taken' = taken \cup {s}
        /\ raced' = (raced \/ (isNew /\ save.phase = "putting" /\ s = save.def.slug))
    /\ EditingSame
    /\ UNCHANGED <<editor, serverProblems, save, meanwhile, saves, mine, left>>

Next ==
    \/ EditMeta
    \/ ListFields
    \/ InspectField
    \/ Outline
    \/ InspectState
    \/ InspectTransition
    \/ InspectWorkflowField
    \/ EditActions
    \/ TypeText
    \/ SelectEntry
    \/ SelectProblem
    \/ onSave
    \/ Asked
    \/ Put
    \/ Refused
    \/ Fails
    \/ Saved
    \/ Leave
    \/ OthersCreate

Spec == Init /\ [][Next]_pageVars

-----------------------------------------------------------------------------
(* The variables keep their shape; only a new definition's slug is looked  *)
(* up, and a page that stored something has had a save.                    *)
PageTypeOK ==
    /\ editor.dirty \in BOOLEAN
    /\ IF kind = "form" THEN IsForm(def) ELSE IsWorkflow(def)
    /\ sel = Settings \/ sel \in [at : Lists, i : Nat \ {0}]
    /\ save.phase \in {"idle", "asking", "putting", "refreshing"}
    /\ save.phase = "asking" => isNew
    /\ taken \subseteq GoodSlugs
    /\ (mine # Nothing) => (saves > 0)
    /\ left \in {"no", "asked", "quiet", "saved", "failed"}

NoneDangling ==
    IF kind = "form"
    THEN \A i \in DOMAIN def.fields :
            def.fields[i].showIf.op # "no" => def.fields[i].showIf.field \in KeysOf(def.fields)
    ELSE /\ def.states # << >> => def.initial \in KeysOf(def.states)
         /\ \A i \in DOMAIN def.transitions :
                LET t == def.transitions[i]
                IN  /\ t.from \cup {t.to} \subseteq KeysOf(def.states)
                    /\ t.needs \subseteq KeysOf(def.fields)

(* The one edit that leaves a condition behind: a field that has one on    *)
(* itself, which deleting one of two fields with the same key can make, is *)
(* renamed (formReducer.ts:133).                                           *)
RenamedOnItself ==
    /\ kind = "form" /\ <<sel.i, sel.i>> \in Controllers(def.fields)
    /\ \E k \in NewKeys : editor' = formRenameField(editor, sel.i, k)

(* Whatever is edited in the panels, every condition, source, target,      *)
(* required field and the initial state goes on naming something that is   *)
(* there: renaming, deleting and duplicating leave no dangling reference   *)
(* behind (formReducer.ts, workflowReducer.ts), but for RenamedOnItself.   *)
(* A text typed in the YAML pane may refer to anything.                    *)
KnownRefs == [][(~pasted' /\ NoneDangling /\ ~RenamedOnItself) => NoneDangling']_pageVars

(* What only the server refuses: a title, label or role that is blank      *)
(* (validate_form.py:19, 37; validate_workflow.py:18, 33, 54, 70, 84); an  *)
(* option with a space at the end of its value or a blank label            *)
(* (common.py:90, 95); a pattern that only JavaScript compiles             *)
(* (validate_form.py:86); a condition whose list of values is empty or     *)
(* whose only value is null (validate_form.py:95, 99); two equal options   *)
(* of a workflow's choice, and options of anything else (common.py:80, 92);*)
(* and of an action an assignee who is not an address, an address to post  *)
(* to that only looks like one, or a property of another type of action    *)
(* (validate_workflow.py:97-121).                                          *)
ServerOnly(p) ==
    IF kind = "form"
    THEN \/ p = Settings /\ def.title = "blank"
         \/ p.at = "fields" /\ LET f == def.fields[p.i] IN
                \/ f.label = "blank" \/ f.options = "padded" \/ f.pattern = "js"
                \/ f.showIf.op \in {"inNothing", "null"}
    ELSE \/ p = Settings /\ (def.title = "blank" \/ \E j \in DOMAIN def.onSubmit : def.onSubmit[j].refusedBy = {"server"})
         \/ p.at = "states" /\ def.states[p.i].label = "blank"
         \/ p.at = "fields" /\ LET f == def.fields[p.i] IN
                \/ f.label = "blank" \/ f.options \in {"double", "padded"}
                \/ f.options = "some" /\ f.type # "choice"
         \/ p.at = "transitions" /\ LET t == def.transitions[p.i] IN
                \/ t.label = "blank" \/ t.roles = "blank"
                \/ \E j \in DOMAIN t.actions : t.actions[j].refusedBy = {"server"}

(* What only the editor complains about: a pattern that only RE2 compiles  *)
(* (validation.ts:129); an operator that is null next to a proper one      *)
(* (validation.ts:139); a text of an action that JavaScript trims and      *)
(* Python does not (validation.ts:203); and leaving a state that shares    *)
(* its key with one that is terminal (validation.ts:161).                  *)
EditorOnly(p) ==
    IF kind = "form"
    THEN p.at = "fields" /\ (def.fields[p.i].pattern = "re2" \/ def.fields[p.i].showIf.op = "nullAnd")
    ELSE \/ p = Settings /\ \E j \in DOMAIN def.onSubmit : def.onSubmit[j].refusedBy = {"editor"}
         \/ p.at = "transitions" /\ LET t == def.transitions[p.i] IN
                \/ \E j \in DOMAIN t.actions : t.actions[j].refusedBy = {"editor"}
                \/ \E k \in t.from \cap Terminal(def) : Count(def.states, k) > 1

SchemaProblems == IF kind = "form" THEN formSchemaProblems(def) ELSE workflowSchemaProblems(def)

(* Place by place, the editor lists what the server would refuse and the   *)
(* server refuses what the editor lists, but for the rules that only one   *)
(* of them has, and the server's silence about its own rules as long as    *)
(* the schema is not satisfied (parse.py, validation.ts:70).               *)
RulesAgree ==
    /\ \A p \in Refusals(def) \ Problems : ServerOnly(p)
    /\ \A p \in Problems \ Refusals(def) : EditorOnly(p) \/ SchemaProblems # {}

(* The server's problems that are shown are those of the definition that   *)
(* is shown, unless it was edited while it was being saved.                *)
ProblemsOfThis ==
    (serverProblems # {} /\ ~meanwhile) => (save.def = def /\ serverProblems \subseteq Refusals(def) \cup {Settings})

(* A page that is left without a question loses nothing: what it showed is *)
(* what it opened or what the server has stored, unless it was edited      *)
(* while the save was under way.                                           *)
LeavesKept == (left \in {"quiet", "saved"} /\ ~meanwhile) => def \in {opened, mine}

(* A new definition replaces one that exists only if that one was created  *)
(* after its slug had been found free (useDefinitionSave.ts:18).           *)
NewNeverReplaces ==
    [][(isNew /\ mine' # mine /\ save.def.slug \in taken) => raced]_pageVars

(* The hint of the panels: "The slug can't be changed after the form is    *)
(* created."                                                               *)
SlugStays == (~isNew /\ mine # Nothing) => mine.slug = opened.slug

-----------------------------------------------------------------------------
(* What every edit that could be made now would mean, if what is shown     *)
(* refers to nothing that is not there                                     *)

Mentioned ==
    KeysOf(def.fields) \cup
    IF kind = "form" THEN {def.fields[i].showIf.field : i \in DOMAIN def.fields} ELSE KeysOf(def.states)
Free(k) == k # 0 /\ k \notin Mentioned
Without(S, i) == S \ {i}
Shift(S, i) == {IF j > i THEN j - 1 ELSE j : j \in Without(S, i)}

(* Renaming a key to one that nothing uses leaves every condition and every *)
(* transition with the fields and states it had; if another one shares the *)
(* old key, references stay with that one.  A condition on the renamed     *)
(* field itself is the exception.                                          *)
RenameKeepsMeaning ==
    (left = "no" /\ NoneDangling) => \A k \in {n \in NewKeys : Free(n)} :
        IF kind = "form"
        THEN \A i \in DOMAIN def.fields :
                Controllers(formRenameField(editor, i, k).def.fields)
                = {c \in Controllers(def.fields) :
                        c[2] = i => c[1] # i /\ Count(def.fields, def.fields[i].key) = 1}
        ELSE /\ \A i \in DOMAIN def.states :
                LET new == renameState(editor, i, k).def
                    Left(S) == IF Count(def.states, def.states[i].key) = 1 THEN S ELSE Without(S, i)
                IN  /\ Edges(new) = {[e EXCEPT !.from = Left(@), !.to = Left(@)] : e \in Edges(def)}
                    /\ Positions(new.states, new.initial) = Left(Positions(def.states, def.initial))
             /\ \A i \in DOMAIN def.fields :
                LET Left(S) == IF Count(def.fields, def.fields[i].key) = 1 THEN S ELSE Without(S, i)
                IN  Edges(renameField(editor, i, k).def) = {[e EXCEPT !.needs = Left(@)] : e \in Edges(def)}

(* Deleting a field takes the references to it along and no others.        *)
(* Deleting a state takes along, if no other has its key, the transitions  *)
(* into it, those it alone led to, and, whichever state it is, those that  *)
(* had no source (workflowReducer.ts:211), which the hint of the panel     *)
(* (StateInspector.tsx:57) does not say; the others keep their ends.       *)
RemovalKeepsRest ==
    (left = "no" /\ NoneDangling) =>
        IF kind = "form"
        THEN \A i \in DOMAIN def.fields :
                LET Moved(j) == IF j > i THEN j - 1 ELSE j
                IN  Controllers(formRemoveField(editor, i).def.fields)
                    = {<<Moved(c[1]), Moved(c[2])>> : c \in {d \in Controllers(def.fields) : i \notin {d[1], d[2]}}}
        ELSE /\ \A i \in DOMAIN def.states :
                LET Stays(e) == \/ Count(def.states, def.states[i].key) > 1
                                \/ Without(e.from, i) # {} /\ Without(e.to, i) # {}
                IN  Edges(removeState(editor, i).def)
                    = {[e EXCEPT !.from = Shift(@, i), !.to = Shift(@, i)] : e \in {d \in Edges(def) : Stays(d)}}
             /\ \A i \in DOMAIN def.fields :
                Edges(removeField(editor, i).def) = {[e EXCEPT !.needs = Shift(@, i)] : e \in Edges(def)}

(* Moving a field moves its conditions and those on it along, also where   *)
(* it comes to stand behind one that looks at it; a copy looks at what the *)
(* original looks at, and nothing looks at the copy.                       *)
ReorderKeepsMeaning ==
    (kind = "form" /\ left = "no" /\ NoneDangling) => \A i \in DOMAIN def.fields :
        LET now == Controllers(def.fields)
            Moved(j) == IF j > i THEN j + 1 ELSE j
            Trade(j, a, b) == IF j = a THEN b ELSE IF j = b THEN a ELSE j
        IN  /\ Controllers(duplicateField(editor, i).def.fields)
               = {<<Moved(c[1]), Moved(c[2])>> : c \in now} \cup {<<i + 1, Moved(c[2])>> : c \in {d \in now : d[1] = i}}
            /\ \A j \in DOMAIN def.fields :
                Controllers(moveField(editor, i, j).def.fields)
                = {<<Trade(c[1], i, j), Trade(c[2], i, j)>> : c \in now}

InRange == sel = Settings \/ sel.i \in DOMAIN ListAt(def, sel.at)

(* Moving or deleting other fields keeps the selected one selected, with   *)
(* the conditions it had its inspector open for.                           *)
SelectionFollows ==
    (kind = "form" /\ left = "no" /\ sel # Settings /\ InRange) =>
        LET Key(e) == IF e.sel.i \in DOMAIN e.def.fields THEN e.def.fields[e.sel.i].key ELSE 0
        IN  \A i \in DOMAIN def.fields :
                /\ i # sel.i => Key(formRemoveField(editor, i)) = Key(editor)
                /\ \A j \in DOMAIN def.fields : Key(moveField(editor, i, j)) = Key(editor)

(* What is selected exists, and goes on existing whatever is edited, typed *)
(* or deleted, unless a problem is followed that the server had with an    *)
(* earlier definition.                                                     *)
SelectionStays ==
    [][(InRange /\ ~(meanwhile /\ serverProblems # {})) => InRange']_pageVars

(* Editing one entry keeps what the others mean: what refers to it follows *)
(* or goes, and the selection stays with its entry.                        *)
EditsKeepMeaning ==
    PageTypeOK /\ RenameKeepsMeaning /\ RemovalKeepsRest /\ ReorderKeepsMeaning /\ SelectionFollows

(* References and the selection never come to name what is not there. *)
NothingDangles == KnownRefs /\ SelectionStays

(* What a save leaves behind is about the definition that is shown. *)
SaveMatchesPage == ProblemsOfThis /\ LeavesKept
=============================================================================
