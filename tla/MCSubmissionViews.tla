-------------------------- MODULE MCSubmissionViews -------------------------
EXTENDS SubmissionViews
MCWorkflow ==
    [states |-> <<"new", "review", "done">>,
     initial |-> "new",
     fields |-> {"score"},
     transitions |->
        [screen  |-> [from |-> {"new"}, to |-> "review", roles |-> {}, requireFields |-> {}, actions |-> << >>],
         back    |-> [from |-> {"review"}, to |-> "new", roles |-> {"reviewer"}, requireFields |-> {}, actions |-> << >>],
         approve |-> [from |-> {"new", "review"}, to |-> "done", roles |-> {"manager"},
                      requireFields |-> {"score"}, actions |-> << >>]]]
MCPersonas == [rita |-> {"reviewer"}, mona |-> {"manager"}]
MCLinks == {[id |-> "s1", right |-> TRUE], [id |-> "s2", right |-> TRUE], [id |-> "s1", right |-> FALSE]}
=============================================================================
