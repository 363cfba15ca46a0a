----------------------------- MODULE MCEmbedPage ----------------------------
EXTENDS EmbedPage
MCText == [s \in {"", "a", "b"} |-> [length |-> 1, formats |-> {}, patterns |-> {}]]
MCDefinition ==
    [job     |-> [fields |-> <<[key |-> "role", type |-> "select", options |-> <<"a", "b">>, required |-> TRUE],
                               [key |-> "why", type |-> "text", required |-> TRUE,
                                showIf |-> [field |-> "role", equals |-> Str("a")]]>>],
     contact |-> [fields |-> <<[key |-> "why", type |-> "text", required |-> TRUE]>>]]
MCSlugs  == {"job", "contact"}
MCInputs == [role |-> {Str("a"), Str("b")}, why |-> {Str("a"), None}]
=============================================================================
