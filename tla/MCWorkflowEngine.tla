-------------------------- MODULE MCWorkflowEngine -------------------------
(* Instances of WorkflowEngine for TLC: a hiring workflow in two versions. *)
(* In the second, closing needs a reason too and nothing is queued when a  *)
(* submission is created.                                                  *)
EXTENDS WorkflowEngine, TLC

Step(from, to, roles, required, actions) ==
    [from |-> from, to |-> to, roles |-> roles, requireFields |-> required, actions |-> actions]

Hiring(v) ==
    [initial     |-> "new",
     fields      |-> {"reason", "fit"},
     onSubmit    |-> IF v = 1 THEN {"email"} ELSE {},
     transitions |->
        [screen |-> Step({"new"}, "screening", {"reviewer"}, {}, {}),
         back   |-> Step({"screening"}, "new", {}, {}, {}),
         hire   |-> Step({"screening"}, "hired", {"manager"}, {"fit"}, {"webhook", "assign"}),
         reject |-> Step({"new", "screening"}, "closed", {"reviewer"},
                         IF v = 1 THEN {"reason"} ELSE {"reason", "fit"}, {"email"})]]

MCVersions == {1, 2}
MCWorkflow == [v \in MCVersions |-> Hiring(v)]
MCValues   == {"text", "no"}
MCEmpty    == {"no"}

MCPatches ==
    {[reason |-> "text", fit |-> "text"],
     [reason |-> "unset"],
     [reason |-> "text", fit |-> "no"],
     [reason |-> "invalid"],
     [ghost |-> "text"]}

MCRemarkTypes  == {"comment"}
MCPrincipals   == {{"reviewer"}, {"admin"}}
MCExpectations == {"", "new"}

ClientSymmetry == Permutations(Clients)
=============================================================================
