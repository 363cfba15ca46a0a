---------------------------- MODULE JobContract ----------------------------
(***************************************************************************)
(* What the job queue promises to the code that enqueues a job, without    *)
(* workers, locks, clocks or attempts: a job accepted by a committed       *)
(* transaction stays open until it is either completed, which happens only *)
(* after its handler has returned normally at least once, or given up.  A  *)
(* completed job is completed for good; a given-up job is reopened only by *)
(* an administrator's retry.                                               *)
(***************************************************************************)
CONSTANT Jobs          \* the job ids

VARIABLES
    state,             \* [Jobs -> {"absent", "open", "done", "failed"}]
    delivered          \* the jobs whose handler has returned normally

cvars == <<state, delivered>>

Init ==
    /\ state = [j \in Jobs |-> "absent"]
    /\ delivered = {}

(* The enqueueing transaction commits. *)
Accept(j) ==
    /\ state[j] = "absent"
    /\ state' = [state EXCEPT ![j] = "open"]
    /\ UNCHANGED delivered

(* A run of the handler returns normally.  Delivery is at least once, so   *)
(* this may happen again for a job that is delivered already.              *)
Deliver(j) ==
    /\ state[j] = "open"
    /\ delivered' = delivered \cup {j}
    /\ UNCHANGED state

Complete(j) ==
    /\ state[j] = "open"
    /\ j \in delivered
    /\ state' = [state EXCEPT ![j] = "done"]
    /\ UNCHANGED delivered

GiveUp(j) ==
    /\ state[j] = "open"
    /\ state' = [state EXCEPT ![j] = "failed"]
    /\ UNCHANGED delivered

Reopen(j) ==
    /\ state[j] = "failed"
    /\ state' = [state EXCEPT ![j] = "open"]
    /\ UNCHANGED delivered

Next ==
    \E j \in Jobs : Accept(j) \/ Deliver(j) \/ Complete(j) \/ GiveUp(j) \/ Reopen(j)

Spec == Init /\ [][Next]_cvars

(* No accepted job stays open for ever. *)
AlwaysSettles == \A j \in Jobs : (state[j] = "open") ~> (state[j] # "open")
=============================================================================
