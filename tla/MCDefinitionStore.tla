------------------------- MODULE MCDefinitionStore -------------------------
(* Instances of DefinitionStore for TLC: workflow 11 and forms 1 and 2. *)
EXTENDS DefinitionStore, TLC

WF(body)      == [slug |-> 11, workflow |-> 0, body |-> body]
Form(f, w, b) == [slug |-> f, workflow |-> w, body |-> b]
Only(ws, fs)  == [docs |-> ws \o fs, flows |-> Len(ws)]

MCDocs ==
    {d \in {WF(b) : b \in 1..3} \cup {Form(f, w, b) : f \in {1, 2}, w \in {0, 11}, b \in 1..2} :
        d.slug \in Workflows \cup Forms /\ d.workflow \in Workflows \cup {NoWorkflow}}

(* One document at a time, as the editors do; bundles of a workflow and    *)
(* its forms, with form 1 dependent and locked after form 2; and bundles   *)
(* that lock form 1 first and give and take its workflow.                  *)
StoreBundles ==
    {Only(<<WF(b)>>, << >>) : b \in 1..2}
        \cup {Only(<< >>, <<Form(1, 11, b)>>) : b \in 1..2}
        \cup {Only(<< >>, <<Form(2, 0, 1)>>),
              Only(<<WF(1)>>, <<Form(1, 11, 1), Form(2, 11, 1)>>)}
        \cup {Only(<<WF(b)>>, <<Form(2, 11, 1)>>) : b \in 1..2}
        \cup {Only(<< >>, <<Form(1, w, 1), Form(2, 0, 1)>>) : w \in {0, 11}}

PinBundles ==
    {Only(<<WF(b)>>, << >>) : b \in 1..2} \cup {Only(<< >>, <<Form(1, 11, b)>>) : b \in 1..2}

OneForm  == {1}
TwoForms == {1, 2}
OneFlow  == {11}
=============================================================================
