----------------------------- MODULE JobQueue ------------------------------
(***************************************************************************)
(* The Postgres-backed job queue (server/services/jobs.py): rows of the    *)
(* jobs table, and the workers of any number of server processes that      *)
(* claim them, run their handler and record the outcome.                   *)
(*                                                                         *)
(* Time.  run_at and locked_until are kept relative to the clock: dueIn[j] *)
(* is run_at - now and lockIn[j] is locked_until - now.  Tick decrements   *)
(* both.  A lock is not followed below -1 (expired), a due time not below  *)
(* -Horizon; two jobs overdue by Horizon or more may be claimed in either  *)
(* order, which covers the order the code takes.                           *)
(*                                                                         *)
(* What a claim, a finish and a retry do is one transaction each.  Between *)
(* them the worker holds a Job object: the id and the attempts it claimed. *)
(***************************************************************************)
EXTENDS Integers, FiniteSets

CONSTANTS
    Jobs,                \* ids of the jobs that may be enqueued (numbers: a serial column)
    Registered,          \* the jobs whose kind has a handler
    Workers,             \* the worker coroutines of all server processes
    MaxAttempts,         \* jobs.max_attempts
    BaseBackoff,         \* BASE_BACKOFF, in ticks
    MaxBackoff,          \* MAX_BACKOFF, in ticks
    LockDuration,        \* LOCK_DURATION, in ticks
    HandlersMayOverrun,  \* may a worker still hold a claim when its lock expires?
    Horizon,             \* bound: how far overdue times are told apart
    MaxFaults,           \* bound: stops, failed transactions and failed hooks
    MaxRetries           \* bound: administrator retries

ASSUME QueueAssumption ==
    /\ Jobs \subseteq Nat \ {0}
    /\ Registered \subseteq Jobs
    /\ MaxAttempts \in Nat \ {0}
    /\ BaseBackoff \in Nat \ {0}
    /\ MaxBackoff \in Nat
    /\ BaseBackoff <= MaxBackoff
    /\ LockDuration \in Nat \ {0}
    /\ HandlersMayOverrun \in BOOLEAN
    /\ Horizon \in Nat
    /\ MaxFaults \in Nat
    /\ MaxRetries \in Nat

VARIABLES
    status,       \* jobs.status, "absent" before the enqueueing transaction commits
    attempts,     \* jobs.attempts
    dueIn,        \* jobs.run_at - now
    lockIn,       \* jobs.locked_until - now; 0 while the column is NULL
    phase,        \* where each worker is in run_once
    held,         \* the id of the Job a worker claimed, NoJob when it has none
    seen,         \* the attempts of that Job, as the claim returned them
    outcome,      \* what the handler returned
    delivered,    \* history: jobs whose handler has returned normally
    reported,     \* history: failed jobs whose failed hook has completed
    unreported,   \* history: failed jobs whose failed hook raised or was cut off
    lost,         \* history: claims of each job that never recorded an outcome
    faults,       \* history: faults so far
    retries       \* history: administrator retries so far

rows    == <<status, attempts, dueIn, lockIn>>
workers == <<phase, held, seen, outcome>>
history == <<delivered, reported, unreported, lost, faults, retries>>
vars    == <<rows, workers, history>>

Statuses == {"absent", "pending", "running", "done", "failed"}
Phases   == {"stopped", "polling", "executing", "finishing", "reporting"}
Outcomes == {"none", "ok", "error", "permanent"}

NULL  == 0     \* locked_until = NULL
NoJob == 0

Holding(w)  == phase[w] \in {"executing", "finishing"}

TypeOK ==
    /\ status \in [Jobs -> Statuses]
    /\ attempts \in [Jobs -> Nat]
    /\ dueIn \in [Jobs -> (-Horizon)..MaxBackoff]
    /\ lockIn \in [Jobs -> (-1)..LockDuration]
    /\ phase \in [Workers -> Phases]
    /\ held \in [Workers -> Jobs \cup {NoJob}]
    /\ seen \in [Workers -> Nat]
    /\ outcome \in [Workers -> Outcomes]
    /\ delivered \subseteq Jobs
    /\ reported \subseteq Jobs
    /\ unreported \subseteq Jobs
    /\ lost \in [Jobs -> Nat]
    /\ faults \in 0..MaxFaults
    /\ retries \in 0..MaxRetries

-----------------------------------------------------------------------------

(* Base doubled once per earlier attempt for as long as that stays within  *)
(* the cap, then the cap.                                                  *)
backoff(n) ==
    LET doubled == BaseBackoff * 2^(n - 1)
    IN  IF n <= 1 THEN BaseBackoff
        ELSE IF doubled \in 0..MaxBackoff THEN doubled ELSE MaxBackoff

(* Mutants: the lock is not looked at; running rows are never reclaimed. *)
ClaimableLocked(j) == (status[j] = "pending" /\ dueIn[j] <= 0) \/ status[j] = "running"
ClaimablePendingOnly(j) == status[j] = "pending" /\ dueIn[j] <= 0

(* The WHERE of the claim: due, or left running past its lock. *)
Claimable(j) ==
    \/ status[j] = "pending" /\ dueIn[j] <= 0
    \/ status[j] = "running" /\ lockIn[j] < 0

(* The ORDER BY of the claim: run_at, then id. *)
Precedes(k, j) ==
    \/ dueIn[k] < dueIn[j]
    \/ dueIn[k] = dueIn[j] /\ dueIn[j] > -Horizon /\ k < j

Init ==
    /\ status = [j \in Jobs |-> "absent"]
    /\ attempts = [j \in Jobs |-> 0]
    /\ dueIn = [j \in Jobs |-> 0]
    /\ lockIn = [j \in Jobs |-> NULL]
    /\ phase = [w \in Workers |-> "polling"]
    /\ held = [w \in Workers |-> NoJob]
    /\ seen = [w \in Workers |-> 0]
    /\ outcome = [w \in Workers |-> "none"]
    /\ delivered = {}
    /\ reported = {}
    /\ unreported = {}
    /\ lost = [j \in Jobs |-> 0]
    /\ faults = 0
    /\ retries = 0

-----------------------------------------------------------------------------
(* The callers of the queue. *)

(* A transaction that called enqueue commits. *)
Enqueue(j) ==
    /\ status[j] = "absent"
    /\ status' = [status EXCEPT ![j] = "pending"]
    /\ dueIn' = [dueIn EXCEPT ![j] = 0]
    /\ UNCHANGED <<attempts, lockIn, workers, history>>

(* Mutant: the retry does not look at the status. *)
RetryableAny(j) == status[j] # "absent"

(* The WHERE of retry. *)
Retryable(j) == status[j] = "failed"

(* An administrator resets a failed job. *)
Retry(j) ==
    /\ retries < MaxRetries
    /\ Retryable(j)
    /\ status' = [status EXCEPT ![j] = "pending"]
    /\ attempts' = [attempts EXCEPT ![j] = 0]
    /\ dueIn' = [dueIn EXCEPT ![j] = 0]
    /\ lockIn' = [lockIn EXCEPT ![j] = NULL]
    /\ retries' = retries + 1
    /\ reported' = reported \ {j}
    /\ unreported' = unreported \ {j}
    /\ lost' = [lost EXCEPT ![j] = 0]
    /\ UNCHANGED <<workers, delivered, faults>>

-----------------------------------------------------------------------------
(* run_once: claim, execute, finish, and the failed hook. *)

Release(w) ==
    /\ phase' = [phase EXCEPT ![w] = "polling"]
    /\ held' = [held EXCEPT ![w] = NoJob]
    /\ seen' = [seen EXCEPT ![w] = 0]
    /\ outcome' = [outcome EXCEPT ![w] = "none"]

(* Mutant: the claim does not count. *)
SameAttempt(j) == attempts[j]

NextAttempt(j) == attempts[j] + 1

Claim(w) ==
    /\ phase[w] = "polling"
    /\ \E j \in Jobs :
        /\ Claimable(j)
        /\ \A k \in Jobs : Claimable(k) => ~Precedes(k, j)
        /\ status' = [status EXCEPT ![j] = "running"]
        /\ attempts' = [attempts EXCEPT ![j] = NextAttempt(j)]
        /\ lockIn' = [lockIn EXCEPT ![j] = LockDuration]
        /\ held' = [held EXCEPT ![w] = j]
        /\ seen' = [seen EXCEPT ![w] = NextAttempt(j)]
    /\ phase' = [phase EXCEPT ![w] = "executing"]
    /\ UNCHANGED <<dueIn, outcome, history>>

(* The handler returns or raises; a kind without a handler is a permanent  *)
(* error.                                                                  *)
Execute(w) ==
    /\ phase[w] = "executing"
    /\ \E o \in IF held[w] \in Registered THEN Outcomes \ {"none"} ELSE {"permanent"} :
        /\ outcome' = [outcome EXCEPT ![w] = o]
        /\ delivered' = IF o = "ok" THEN delivered \cup {held[w]} ELSE delivered
    /\ phase' = [phase EXCEPT ![w] = "finishing"]
    /\ UNCHANGED <<rows, held, seen, reported, unreported, lost, faults, retries>>

(* Mutant: an error that is not permanent counts as success. *)
SucceededUnlessPermanent(w) == outcome[w] # "permanent"

(* err is None *)
Succeeded(w) == outcome[w] = "ok"

(* Mutant: attempts > max_attempts instead of >=. *)
FinalFailureOffByOne(w) == outcome[w] = "permanent" \/ seen[w] > MaxAttempts

FinalFailure(w) == outcome[w] = "permanent" \/ seen[w] >= MaxAttempts

(* The three outcomes of _finish.  Each updates the row by its id alone,   *)
(* whatever the row has become since the claim.                            *)
FinishDone(w) ==
    /\ phase[w] = "finishing"
    /\ Succeeded(w)
    /\ status' = [status EXCEPT ![held[w]] = "done"]
    /\ lockIn' = [lockIn EXCEPT ![held[w]] = NULL]
    /\ Release(w)
    /\ UNCHANGED <<attempts, dueIn, history>>

FinishFailed(w) ==
    /\ phase[w] = "finishing"
    /\ ~Succeeded(w)
    /\ FinalFailure(w)
    /\ status' = [status EXCEPT ![held[w]] = "failed"]
    /\ lockIn' = [lockIn EXCEPT ![held[w]] = NULL]
    /\ phase' = [phase EXCEPT ![w] = "reporting"]
    /\ UNCHANGED <<attempts, dueIn, held, seen, outcome, history>>

FinishRetry(w) ==
    /\ phase[w] = "finishing"
    /\ ~Succeeded(w)
    /\ ~FinalFailure(w)
    /\ status' = [status EXCEPT ![held[w]] = "pending"]
    /\ lockIn' = [lockIn EXCEPT ![held[w]] = NULL]
    /\ dueIn' = [dueIn EXCEPT ![held[w]] = backoff(seen[w])]
    /\ Release(w)
    /\ UNCHANGED <<attempts, history>>

(* Mutant: _finish returns before it calls the hook. *)
FailedHookSkipped(w) ==
    /\ phase[w] = "reporting"
    /\ Release(w)
    /\ UNCHANGED <<rows, history>>

(* The failed hook, after the failure is committed; the worker logs what   *)
(* the hook raises and goes on.                                            *)
FailedHook(w) ==
    /\ phase[w] = "reporting"
    /\ \/ /\ reported' = reported \cup {held[w]}
          /\ UNCHANGED <<unreported, faults>>
       \/ /\ faults < MaxFaults
          /\ faults' = faults + 1
          /\ unreported' = unreported \cup {held[w]}
          /\ UNCHANGED reported
    /\ Release(w)
    /\ UNCHANGED <<rows, delivered, lost, retries>>

-----------------------------------------------------------------------------
(* What goes wrong. *)

Abandoned(w) ==
    /\ lost' = IF Holding(w) THEN [lost EXCEPT ![held[w]] = @ + 1] ELSE lost
    /\ unreported' = IF phase[w] = "reporting" THEN unreported \cup {held[w]} ELSE unreported
    /\ faults < MaxFaults
    /\ faults' = faults + 1

(* The transaction of _finish raises: worker() logs it and polls again,    *)
(* the row stays running.                                                  *)
FinishFails(w) ==
    /\ phase[w] = "finishing"
    /\ Abandoned(w)
    /\ Release(w)
    /\ UNCHANGED <<rows, delivered, reported, retries>>

(* The process stops, dies, or cancels a worker that has not finished      *)
(* within the shutdown timeout.                                            *)
Stop(w) ==
    /\ phase[w] # "stopped"
    /\ Abandoned(w)
    /\ phase' = [phase EXCEPT ![w] = "stopped"]
    /\ held' = [held EXCEPT ![w] = NoJob]
    /\ seen' = [seen EXCEPT ![w] = 0]
    /\ outcome' = [outcome EXCEPT ![w] = "none"]
    /\ UNCHANGED <<rows, delivered, reported, retries>>

(* start_worker, in a new process. *)
Start(w) ==
    /\ phase[w] = "stopped"
    /\ phase' = [phase EXCEPT ![w] = "polling"]
    /\ UNCHANGED <<rows, held, seen, outcome, history>>

Live(j) == status[j] \in {"pending", "running"}

(* Time passes.  A settled row's run_at is not read again before it is     *)
(* overwritten.  Without overruns every handler is over, and its outcome   *)
(* recorded, by the end of its lock.                                       *)
Tick ==
    /\ \A w \in Workers : Holding(w) => HandlersMayOverrun \/ lockIn[held[w]] > 0
    /\ dueIn' = [j \in Jobs |-> IF Live(j) /\ dueIn[j] > -Horizon
                                THEN dueIn[j] - 1 ELSE dueIn[j]]
    /\ lockIn' = [j \in Jobs |-> IF status[j] = "running" /\ lockIn[j] > -1
                                 THEN lockIn[j] - 1 ELSE lockIn[j]]
    /\ UNCHANGED <<status, attempts, workers, history>>

Work(w) ==
    Execute(w) \/ FinishDone(w) \/ FinishFailed(w) \/ FinishRetry(w) \/ FailedHook(w)

Next ==
    \/ \E j \in Jobs : Enqueue(j) \/ Retry(j)
    \/ \E w \in Workers : Claim(w) \/ Work(w)
    \/ \E w \in Workers : FinishFails(w) \/ Stop(w) \/ Start(w)
    \/ Tick

(* Every worker polls (worker() loops), every handler returns (webhook and *)
(* SMTP calls have timeouts), a stopped server is started again and the    *)
(* clock runs.                                                             *)
Fairness ==
    /\ \A w \in Workers : WF_vars(Claim(w)) /\ WF_vars(Work(w)) /\ WF_vars(Start(w))
    /\ WF_vars(Tick)

Spec == Init /\ [][Next]_vars

FairSpec == Spec /\ Fairness
-----------------------------------------------------------------------------
(* Safety. *)

(* Two workers never run the same job at once, and the row a worker is     *)
(* about to update by id is still the row it claimed: running, under its   *)
(* lock, with the attempts it saw.  This is what makes the unconditional   *)
(* updates of _finish (jobs.py:167) right; it needs every handler to be    *)
(* over within its lock.                                                   *)
ClaimExclusive ==
    \A w \in Workers : Holding(w) =>
        /\ status[held[w]] = "running"
        /\ lockIn[held[w]] >= 0
        /\ attempts[held[w]] = seen[w]
        /\ \A v \in Workers \ {w} : Holding(v) => held[v] # held[w]

(* A running row has an owner or has lost one since it was enqueued or     *)
(* retried: no path of run_once leaves a row running behind its back.      *)
RunningHasOwner ==
    \A j \in Jobs : status[j] = "running" =>
        lost[j] > 0 \/ \E w \in Workers : Holding(w) /\ held[w] = j

(* max_attempts bounds the attempts, save for the claims that ended        *)
(* without recording an outcome: the reclaim of an expired lock does not   *)
(* look at max_attempts (jobs.py:140).                                     *)
AttemptsBounded ==
    \A j \in Jobs : attempts[j] <= MaxAttempts + lost[j]

(* The table of jobs is sound: its columns have their types and delays are *)
(* within the cap, a running row is somebody's, and attempts are bounded.  *)
TableSound == TypeOK /\ RunningHasOwner /\ AttemptsBounded

(* A job is marked done only after its handler returned normally, whatever *)
(* workers overlap: delivery is at least once (README.md:90).              *)
DoneMeansDelivered ==
    \A j \in Jobs : status[j] = "done" => j \in delivered

(* The failed hook of a failed job is done or under way, unless a crash or *)
(* an exception of the hook itself cut it off after the commit of _finish. *)
FailureReported ==
    \A j \in Jobs : status[j] = "failed" =>
        \/ j \in reported \cup unreported
        \/ \E w \in Workers : phase[w] = "reporting" /\ held[w] = j

-----------------------------------------------------------------------------
(* What the queue promises (JobContract). *)

OpenState ==
    [j \in Jobs |-> IF Live(j) THEN "open" ELSE status[j]]

Contract == INSTANCE JobContract WITH state <- OpenState

(* The queue implements JobContract: completed jobs stay completed and     *)
(* are delivered, given-up jobs are reopened only by a retry.              *)
ImplementsContract == Contract!Spec

(* No enqueued job stays pending or running for ever: a due job is         *)
(* claimed, a claim of a crashed worker is reclaimed, and retries end at   *)
(* max_attempts.                                                           *)
JobsSettle == Contract!AlwaysSettles

(* Even when handlers outlive their locks, so that several workers run one *)
(* job and each overwrites the outcome of the other, the queue comes to    *)
(* rest with every job done or failed.                                     *)
QueueDrains == <>[](\A j \in Jobs : ~Live(j))

-----------------------------------------------------------------------------
(* What the documentation says and the code does not do. *)

(* docs/workflows.md:182: "When an action finally fails, an action_failed  *)
(* event with the error is added".                                         *)
EveryFailureReported ==
    \A j \in Jobs : (status[j] = "failed") ~> (j \in reported \/ status[j] # "failed")
=============================================================================
