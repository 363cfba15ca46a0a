--------------------------- MODULE JobQueueProofs --------------------------
(* Theorems about JobQueue, for any jobs, workers, limits and durations.   *)
EXTENDS JobQueue, TLAPS

(* A worker past its claim holds a job. *)
HoldsJob ==
    \A w \in Workers :
        phase[w] \in {"executing", "finishing", "reporting"} => held[w] \in Jobs

TypeInv == TypeOK /\ HoldsJob

(* A delay is never longer than the cap. *)
LEMMA BackoffBounded ==
    ASSUME NEW n \in Nat
    PROVE  backoff(n) \in 0..MaxBackoff
<1>1. BaseBackoff \in 0..MaxBackoff /\ MaxBackoff \in 0..MaxBackoff
    BY QueueAssumption
<1>. QED
    BY <1>1 DEF backoff

LEMMA TypeInit == Init => TypeInv
BY QueueAssumption DEF Init, TypeInv, TypeOK, HoldsJob, NULL, NoJob, Statuses, Phases, Outcomes

(* What a fault does to the history variables is typed. *)
LEMMA AbandonedType ==
    ASSUME TypeInv, NEW w \in Workers, Abandoned(w)
    PROVE  /\ lost' \in [Jobs -> Nat]
           /\ unreported' \subseteq Jobs
           /\ faults' \in 0..MaxFaults
<1>1. lost' \in [Jobs -> Nat]
    <2>1. CASE Holding(w)
        BY <2>1 DEF Abandoned, Holding, TypeInv, TypeOK, HoldsJob
    <2>2. CASE ~Holding(w)
        BY <2>2 DEF Abandoned, TypeInv, TypeOK
    <2>. QED
        BY <2>1, <2>2
<1>2. unreported' \subseteq Jobs
    BY DEF Abandoned, TypeInv, TypeOK, HoldsJob
<1>3. faults' \in 0..MaxFaults
    BY QueueAssumption DEF Abandoned, TypeInv, TypeOK
<1>. QED
    BY <1>1, <1>2, <1>3

LEMMA TypeStep == TypeInv /\ [Next]_vars => TypeInv'
<1>. SUFFICES ASSUME TypeInv, [Next]_vars
              PROVE  TypeInv'
    OBVIOUS
<1>. USE QueueAssumption DEF TypeInv, TypeOK, HoldsJob, NULL, NoJob, Statuses, Phases, Outcomes
<1>1. ASSUME NEW j \in Jobs, Enqueue(j)
      PROVE  TypeInv'
    BY <1>1 DEF Enqueue, workers, history
<1>2. ASSUME NEW j \in Jobs, Retry(j)
      PROVE  TypeInv'
    BY <1>2 DEF Retry, workers
<1>3. ASSUME NEW w \in Workers, Claim(w)
      PROVE  TypeInv'
    BY <1>3 DEF Claim, NextAttempt, history
<1>4. ASSUME NEW w \in Workers, Execute(w)
      PROVE  TypeInv'
    <2>1. PICK o \in Outcomes \ {"none"} :
              /\ outcome' = [outcome EXCEPT ![w] = o]
              /\ delivered' = IF o = "ok" THEN delivered \cup {held[w]} ELSE delivered
        BY <1>4 DEF Execute
    <2>2. held[w] \in Jobs
        BY <1>4 DEF Execute
    <2>3. phase' = [phase EXCEPT ![w] = "finishing"]
        BY <1>4 DEF Execute
    <2>4. UNCHANGED <<rows, held, seen, reported, unreported, lost, faults, retries>>
        BY <1>4 DEF Execute
    <2>. QED
        BY <2>1, <2>2, <2>3, <2>4 DEF rows
<1>5. ASSUME NEW w \in Workers, FinishDone(w)
      PROVE  TypeInv'
    BY <1>5 DEF FinishDone, Release, history
<1>6. ASSUME NEW w \in Workers, FinishFailed(w)
      PROVE  TypeInv'
    BY <1>6 DEF FinishFailed, history
<1>7. ASSUME NEW w \in Workers, FinishRetry(w)
      PROVE  TypeInv'
    <2>1. backoff(seen[w]) \in (-Horizon)..MaxBackoff
        BY BackoffBounded
    <2>. QED
        BY <1>7, <2>1 DEF FinishRetry, Release, history
<1>8. ASSUME NEW w \in Workers, FailedHook(w)
      PROVE  TypeInv'
    <2>1. reported' \subseteq Jobs /\ unreported' \subseteq Jobs
        BY <1>8 DEF FailedHook
    <2>2. faults' \in 0..MaxFaults
        BY <1>8 DEF FailedHook
    <2>3. phase' \in [Workers -> Phases] /\ held' \in [Workers -> Jobs \cup {NoJob}]
        BY <1>8 DEF FailedHook, Release
    <2>4. seen' \in [Workers -> Nat] /\ outcome' \in [Workers -> Outcomes]
        BY <1>8 DEF FailedHook, Release
    <2>5. HoldsJob'
        BY <1>8 DEF FailedHook, Release
    <2>6. UNCHANGED <<rows, delivered, lost, retries>>
        BY <1>8 DEF FailedHook
    <2>. QED
        BY <2>1, <2>2, <2>3, <2>4, <2>5, <2>6 DEF rows
<1>9. ASSUME NEW w \in Workers, FinishFails(w)
      PROVE  TypeInv'
    <2>1. /\ lost' \in [Jobs -> Nat]
          /\ unreported' \subseteq Jobs
          /\ faults' \in 0..MaxFaults
        BY <1>9, AbandonedType DEF FinishFails
    <2>. QED
        BY <1>9, <2>1 DEF FinishFails, Release, rows
<1>10. ASSUME NEW w \in Workers, Stop(w)
       PROVE  TypeInv'
    <2>1. /\ lost' \in [Jobs -> Nat]
          /\ unreported' \subseteq Jobs
          /\ faults' \in 0..MaxFaults
        BY <1>10, AbandonedType DEF Stop
    <2>. QED
        BY <1>10, <2>1 DEF Stop, rows
<1>11. ASSUME NEW w \in Workers, Start(w)
       PROVE  TypeInv'
    BY <1>11 DEF Start, rows, history
<1>12. CASE Tick
    BY <1>12 DEF Tick, workers, history
<1>13. CASE UNCHANGED vars
    BY <1>13 DEF vars, rows, workers, history
<1>. QED
    BY <1>1, <1>2, <1>3, <1>4, <1>5, <1>6, <1>7, <1>8, <1>9, <1>10, <1>11, <1>12, <1>13
    DEF Next, Work
(* Every state of the queue is well typed, whether or not handlers overrun. *)
THEOREM TypeCorrect == Spec => []TypeOK
<1>1. TypeInv => TypeOK
    BY DEF TypeInv
<1>. QED
    BY <1>1, TypeInit, TypeStep, PTL DEF Spec

-----------------------------------------------------------------------------
(* Exclusive claims, when handlers are over within their lock. *)

LEMMA ExclusiveInit == Init => ClaimExclusive
BY DEF Init, ClaimExclusive, Holding

LEMMA ExclusiveStep ==
    ASSUME ~HandlersMayOverrun
    PROVE  TypeInv /\ ClaimExclusive /\ [Next]_vars => ClaimExclusive'
<1>. SUFFICES ASSUME TypeInv, ClaimExclusive, [Next]_vars
              PROVE  ClaimExclusive'
    OBVIOUS
<1>. USE QueueAssumption DEF TypeInv, TypeOK, HoldsJob, ClaimExclusive, Holding, NULL, NoJob
<1>1. ASSUME NEW j \in Jobs, Enqueue(j)
      PROVE  ClaimExclusive'
    BY <1>1 DEF Enqueue, workers, history
<1>2. ASSUME NEW j \in Jobs, Retry(j)
      PROVE  ClaimExclusive'
    BY <1>2 DEF Retry, Retryable, workers
<1>3. ASSUME NEW w \in Workers, Claim(w)
      PROVE  ClaimExclusive'
    <2>1. PICK j \in Jobs :
              /\ Claimable(j)
              /\ status' = [status EXCEPT ![j] = "running"]
              /\ attempts' = [attempts EXCEPT ![j] = NextAttempt(j)]
              /\ lockIn' = [lockIn EXCEPT ![j] = LockDuration]
              /\ held' = [held EXCEPT ![w] = j]
              /\ seen' = [seen EXCEPT ![w] = NextAttempt(j)]
        BY <1>3 DEF Claim
    <2>2. phase' = [phase EXCEPT ![w] = "executing"]
        BY <1>3 DEF Claim
    <2>3. ASSUME NEW v \in Workers, Holding(v)
          PROVE  held[v] # j
        BY <2>1, <2>3 DEF Claimable
    <2>. QED
        BY <2>1, <2>2, <2>3 DEF NextAttempt
<1>4. ASSUME NEW w \in Workers, Execute(w)
      PROVE  ClaimExclusive'
    BY <1>4 DEF Execute, rows
<1>5. ASSUME NEW w \in Workers, FinishDone(w)
      PROVE  ClaimExclusive'
    BY <1>5 DEF FinishDone, Release
<1>6. ASSUME NEW w \in Workers, FinishFailed(w)
      PROVE  ClaimExclusive'
    BY <1>6 DEF FinishFailed
<1>7. ASSUME NEW w \in Workers, FinishRetry(w)
      PROVE  ClaimExclusive'
    BY <1>7 DEF FinishRetry, Release
<1>8. ASSUME NEW w \in Workers, FailedHook(w)
      PROVE  ClaimExclusive'
    BY <1>8 DEF FailedHook, Release, rows
<1>9. ASSUME NEW w \in Workers, FinishFails(w)
      PROVE  ClaimExclusive'
    BY <1>9 DEF FinishFails, Release, rows
<1>10. ASSUME NEW w \in Workers, Stop(w)
       PROVE  ClaimExclusive'
    BY <1>10 DEF Stop, rows
<1>11. ASSUME NEW w \in Workers, Start(w)
       PROVE  ClaimExclusive'
    BY <1>11 DEF Start, rows
<1>12. CASE Tick
    <2>1. UNCHANGED <<status, attempts, phase, held, seen>>
        BY <1>12 DEF Tick, workers
    <2>2. ASSUME NEW w \in Workers, Holding(w)
          PROVE  lockIn'[held[w]] >= 0
        <3>1. held[w] \in Jobs /\ status[held[w]] = "running"
            BY <2>2
        <3>2. \A v \in Workers : Holding(v) => HandlersMayOverrun \/ lockIn[held[v]] > 0
            BY <1>12 DEF Tick
        <3>3. lockIn[held[w]] > 0
            BY <2>2, <3>2, Zenon
        <3>4. lockIn' = [j \in Jobs |-> IF status[j] = "running" /\ lockIn[j] > -1
                                        THEN lockIn[j] - 1 ELSE lockIn[j]]
            BY <1>12 DEF Tick
        <3>5. lockIn \in [Jobs -> (-1)..LockDuration] /\ LockDuration \in Nat
            OBVIOUS
        <3>. HIDE DEF TypeInv, TypeOK, HoldsJob, ClaimExclusive
        <3>6. lockIn[held[w]] \in Int
            <4>1. lockIn[held[w]] \in (-1)..LockDuration
                BY <3>1, <3>5, Zenon
            <4>. QED
                BY <4>1, <3>5
        <3>7. lockIn'[held[w]] = lockIn[held[w]] - 1
            BY <3>1, <3>3, <3>4, <3>6
        <3>. QED
            BY <3>3, <3>6, <3>7
    <2>. QED
        BY <2>1, <2>2
<1>13. CASE UNCHANGED vars
    BY <1>13 DEF vars, rows, workers
<1>. QED
    BY <1>1, <1>2, <1>3, <1>4, <1>5, <1>6, <1>7, <1>8, <1>9, <1>10, <1>11, <1>12, <1>13
    DEF Next, Work

(* If every handler is over within its lock, a job never has two owners    *)
(* and _finish updates the row its worker claimed.                         *)
THEOREM ClaimsAreExclusive ==
    ASSUME ~HandlersMayOverrun
    PROVE  Spec => []ClaimExclusive
<1>1. TypeInv /\ ClaimExclusive /\ [Next]_vars => (TypeInv /\ ClaimExclusive)'
    BY TypeStep, ExclusiveStep
<1>2. Init => TypeInv /\ ClaimExclusive
    BY TypeInit, ExclusiveInit
<1>. QED
    BY <1>1, <1>2, PTL DEF Spec
-----------------------------------------------------------------------------
(* Done means delivered, with overlapping workers too. *)

OkDelivered ==
    \A w \in Workers : phase[w] = "finishing" /\ outcome[w] = "ok" => held[w] \in delivered

DeliveryInv == DoneMeansDelivered /\ OkDelivered

LEMMA DeliveryStep == TypeInv /\ DeliveryInv /\ [Next]_vars => DeliveryInv'
<1>. SUFFICES ASSUME TypeInv, DeliveryInv, [Next]_vars
              PROVE  DeliveryInv'
    OBVIOUS
<1>. USE DEF TypeInv, TypeOK, HoldsJob, DeliveryInv, DoneMeansDelivered, OkDelivered
<1>1. ASSUME NEW j \in Jobs, Enqueue(j) \/ Retry(j)
      PROVE  DeliveryInv'
    BY <1>1 DEF Enqueue, Retry, workers, history
<1>2. ASSUME NEW w \in Workers, Claim(w)
      PROVE  DeliveryInv'
    BY <1>2 DEF Claim, history
<1>3. ASSUME NEW w \in Workers, Execute(w)
      PROVE  DeliveryInv'
    <2>1. PICK o \in Outcomes :
              /\ outcome' = [outcome EXCEPT ![w] = o]
              /\ delivered' = IF o = "ok" THEN delivered \cup {held[w]} ELSE delivered
        BY <1>3 DEF Execute, Outcomes
    <2>2. /\ phase' = [phase EXCEPT ![w] = "finishing"]
          /\ status' = status /\ held' = held
        BY <1>3 DEF Execute, rows
    <2>. QED
        BY <2>1, <2>2
<1>4. ASSUME NEW w \in Workers, FinishDone(w)
      PROVE  DeliveryInv'
    BY <1>4 DEF FinishDone, Succeeded, Release, history
<1>5. ASSUME NEW w \in Workers, FinishFailed(w)
      PROVE  DeliveryInv'
    BY <1>5 DEF FinishFailed, history
<1>6. ASSUME NEW w \in Workers, FinishRetry(w)
      PROVE  DeliveryInv'
    BY <1>6 DEF FinishRetry, Release, history
<1>7. ASSUME NEW w \in Workers, FailedHook(w)
      PROVE  DeliveryInv'
    BY <1>7 DEF FailedHook, Release, rows
<1>8. ASSUME NEW w \in Workers, FinishFails(w) \/ Stop(w) \/ Start(w)
      PROVE  DeliveryInv'
    BY <1>8 DEF FinishFails, Stop, Start, Release, rows, history
<1>9. CASE Tick
    BY <1>9 DEF Tick, workers, history
<1>10. CASE UNCHANGED vars
    BY <1>10 DEF vars, rows, workers, history
<1>. QED
    BY <1>1, <1>2, <1>3, <1>4, <1>5, <1>6, <1>7, <1>8, <1>9, <1>10 DEF Next, Work

(* A job is done only if its handler returned normally, however workers    *)
(* overlap.                                                                *)
THEOREM DoneIsDelivered == Spec => []DoneMeansDelivered
<1>1. Init => DeliveryInv
    BY DEF Init, DeliveryInv, DoneMeansDelivered, OkDelivered
<1>2. DeliveryInv => DoneMeansDelivered
    BY DEF DeliveryInv
<1>. QED
    BY <1>1, <1>2, TypeInit, TypeStep, DeliveryStep, PTL DEF Spec

-----------------------------------------------------------------------------
(* Every final failure is reported, being reported, or was cut off. *)

LEMMA ReportedStep == TypeInv /\ FailureReported /\ [Next]_vars => FailureReported'
<1>. SUFFICES ASSUME TypeInv, FailureReported, [Next]_vars
              PROVE  FailureReported'
    OBVIOUS
<1>. USE DEF TypeInv, TypeOK, HoldsJob, FailureReported
<1>1. ASSUME NEW j \in Jobs, Enqueue(j) \/ Retry(j)
      PROVE  FailureReported'
    BY <1>1 DEF Enqueue, Retry, workers, history
<1>2. ASSUME NEW w \in Workers, Claim(w)
      PROVE  FailureReported'
    BY <1>2 DEF Claim, history
<1>3. ASSUME NEW w \in Workers, Execute(w)
      PROVE  FailureReported'
    BY <1>3 DEF Execute, rows
<1>4. ASSUME NEW w \in Workers, FinishDone(w)
      PROVE  FailureReported'
    BY <1>4 DEF FinishDone, Release, history
<1>5. ASSUME NEW w \in Workers, FinishFailed(w)
      PROVE  FailureReported'
    BY <1>5 DEF FinishFailed, history
<1>6. ASSUME NEW w \in Workers, FinishRetry(w)
      PROVE  FailureReported'
    BY <1>6 DEF FinishRetry, Release, history
<1>7. ASSUME NEW w \in Workers, FailedHook(w)
      PROVE  FailureReported'
    BY <1>7 DEF FailedHook, Release, rows
<1>8. ASSUME NEW w \in Workers, FinishFails(w) \/ Stop(w) \/ Start(w)
      PROVE  FailureReported'
    BY <1>8 DEF FinishFails, Stop, Start, Abandoned, Release, rows, history
<1>9. CASE Tick
    BY <1>9 DEF Tick, workers, history
<1>10. CASE UNCHANGED vars
    BY <1>10 DEF vars, rows, workers, history
<1>. QED
    BY <1>1, <1>2, <1>3, <1>4, <1>5, <1>6, <1>7, <1>8, <1>9, <1>10 DEF Next, Work

(* A failed job's hook has completed or is running, or a fault cut it off: *)
(* no interleaving of workers and administrators loses it otherwise.       *)
THEOREM FailuresAreReported == Spec => []FailureReported
<1>1. Init => FailureReported
    BY DEF Init, FailureReported
<1>. QED
    BY <1>1, TypeInit, TypeStep, ReportedStep, PTL DEF Spec
-----------------------------------------------------------------------------
(* A running row has an owner or has lost one. *)

LEMMA OwnerStep == TypeInv /\ RunningHasOwner /\ [Next]_vars => RunningHasOwner'
<1>. SUFFICES ASSUME TypeInv, RunningHasOwner, [Next]_vars
              PROVE  RunningHasOwner'
    OBVIOUS
<1>. USE DEF TypeInv, TypeOK, HoldsJob, RunningHasOwner, Holding
<1>1. ASSUME NEW j \in Jobs, Enqueue(j) \/ Retry(j)
      PROVE  RunningHasOwner'
    BY <1>1 DEF Enqueue, Retry, workers, history
<1>2. ASSUME NEW w \in Workers, Claim(w)
      PROVE  RunningHasOwner'
    BY <1>2 DEF Claim, history
<1>3. ASSUME NEW w \in Workers, Execute(w)
      PROVE  RunningHasOwner'
    BY <1>3 DEF Execute, rows
<1>4. ASSUME NEW w \in Workers, FinishDone(w) \/ FinishRetry(w)
      PROVE  RunningHasOwner'
    BY <1>4 DEF FinishDone, FinishRetry, Release, history
<1>5. ASSUME NEW w \in Workers, FinishFailed(w)
      PROVE  RunningHasOwner'
    BY <1>5 DEF FinishFailed, history
<1>6. ASSUME NEW w \in Workers, FailedHook(w)
      PROVE  RunningHasOwner'
    BY <1>6 DEF FailedHook, Release, rows
<1>7. ASSUME NEW w \in Workers, FinishFails(w) \/ Stop(w)
      PROVE  RunningHasOwner'
    BY <1>7 DEF FinishFails, Stop, Abandoned, Release, rows
<1>8. ASSUME NEW w \in Workers, Start(w)
      PROVE  RunningHasOwner'
    BY <1>8 DEF Start, rows, history
<1>9. CASE Tick
    BY <1>9 DEF Tick, workers, history
<1>10. CASE UNCHANGED vars
    BY <1>10 DEF vars, rows, workers, history
<1>. QED
    BY <1>1, <1>2, <1>3, <1>4, <1>5, <1>6, <1>7, <1>8, <1>9, <1>10 DEF Next, Work

(* No path of run_once leaves a row running behind its back: only a fault  *)
(* makes a running row ownerless, and the reclaim then finds it.           *)
THEOREM RunningIsOwned == Spec => []RunningHasOwner
<1>1. Init => RunningHasOwner
    BY DEF Init, RunningHasOwner
<1>. QED
    BY <1>1, TypeInit, TypeStep, OwnerStep, PTL DEF Spec
-----------------------------------------------------------------------------
(* The attempt budget, when handlers are over within their lock.  A row    *)
(* that may be claimed has attempts left, one more for each claim that was *)
(* lost since it was enqueued or retried.                                  *)

Owned(j) == \E w \in Workers : Holding(w) /\ held[w] = j

BudgetLeft ==
    \A j \in Jobs :
        /\ status[j] = "absent" => attempts[j] = 0
        /\ (status[j] = "pending" \/ (status[j] = "running" /\ ~Owned(j)))
              => attempts[j] < MaxAttempts + lost[j]

BudgetInv == AttemptsBounded /\ BudgetLeft

LEMMA BudgetStep ==
    ASSUME TypeInv, ClaimExclusive, BudgetInv, [Next]_vars
    PROVE  BudgetInv'
<1>. USE QueueAssumption
     DEF TypeInv, TypeOK, HoldsJob, ClaimExclusive, BudgetInv, AttemptsBounded, BudgetLeft,
         Owned, Holding
<1>1. ASSUME NEW j \in Jobs, Enqueue(j)
      PROVE  BudgetInv'
    BY <1>1 DEF Enqueue, workers, history
<1>2. ASSUME NEW j \in Jobs, Retry(j)
      PROVE  BudgetInv'
    BY <1>2 DEF Retry, workers
<1>3. ASSUME NEW w \in Workers, Claim(w)
      PROVE  BudgetInv'
    <2>1. PICK j \in Jobs :
              /\ Claimable(j)
              /\ status' = [status EXCEPT ![j] = "running"]
              /\ attempts' = [attempts EXCEPT ![j] = NextAttempt(j)]
              /\ held' = [held EXCEPT ![w] = j]
        BY <1>3 DEF Claim
    <2>2. /\ phase' = [phase EXCEPT ![w] = "executing"]
          /\ phase[w] = "polling"
          /\ lost' = lost
        BY <1>3 DEF Claim, history
    <2>3. ~Owned(j) /\ attempts[j] < MaxAttempts + lost[j]
        BY <2>1 DEF Claimable
    <2>4. attempts'[j] <= MaxAttempts + lost'[j]
        BY <2>1, <2>2, <2>3 DEF NextAttempt
    <2>5. Owned(j)' /\ status'[j] = "running"
        BY <2>1, <2>2
    <2>6. ASSUME NEW k \in Jobs \ {j}
          PROVE  /\ attempts'[k] = attempts[k]
                 /\ status'[k] = status[k]
                 /\ Owned(k) => Owned(k)'
        BY <2>1, <2>2, <2>6
    <2>. QED
        BY <2>2, <2>4, <2>5, <2>6
<1>4. ASSUME NEW w \in Workers, Execute(w)
      PROVE  BudgetInv'
    BY <1>4 DEF Execute, rows
<1>5. ASSUME NEW w \in Workers, FinishDone(w)
      PROVE  BudgetInv'
    BY <1>5 DEF FinishDone, Release, history
<1>6. ASSUME NEW w \in Workers, FinishFailed(w)
      PROVE  BudgetInv'
    BY <1>6 DEF FinishFailed, history
<1>7. ASSUME NEW w \in Workers, FinishRetry(w)
      PROVE  BudgetInv'
    <2>1. attempts[held[w]] < MaxAttempts + lost[held[w]]
        <3>1. held[w] \in Jobs /\ attempts[held[w]] = seen[w] /\ ~(seen[w] >= MaxAttempts)
            BY <1>7 DEF FinishRetry, FinalFailure
        <3>2. attempts[held[w]] \in Nat /\ lost[held[w]] \in Nat
            BY <3>1
        <3>. QED
            BY <3>1, <3>2
    <2>. QED
        BY <1>7, <2>1 DEF FinishRetry, Release, history
<1>8. ASSUME NEW w \in Workers, FailedHook(w)
      PROVE  BudgetInv'
    BY <1>8 DEF FailedHook, Release, rows
<1>9. ASSUME NEW w \in Workers, FinishFails(w) \/ Stop(w)
      PROVE  BudgetInv'
    <2>1. /\ status' = status /\ attempts' = attempts
          /\ lost' = IF Holding(w) THEN [lost EXCEPT ![held[w]] = @ + 1] ELSE lost
        BY <1>9 DEF FinishFails, Stop, Abandoned, rows
    <2>2. \A v \in Workers \ {w} : phase'[v] = phase[v] /\ held'[v] = held[v]
        BY <1>9 DEF FinishFails, Stop, Release
    <2>3. ASSUME NEW k \in Jobs
          PROVE  /\ lost'[k] >= lost[k]
                 /\ (Owned(k) /\ ~Owned(k)') => lost'[k] > lost[k]
        <3>1. lost[k] \in Nat
            BY <2>3
        <3>2. CASE Holding(w) /\ held[w] = k
            BY <2>1, <3>1, <3>2
        <3>3. CASE ~(Holding(w) /\ held[w] = k)
            <4>1. lost'[k] = lost[k]
                BY <2>1, <3>3
            <4>2. Owned(k) => Owned(k)'
                BY <2>2, <3>3
            <4>. QED
                BY <3>1, <4>1, <4>2
        <3>. QED
            BY <3>2, <3>3
    <2>. HIDE DEF Owned, Holding
    <2>4. ASSUME NEW k \in Jobs
          PROVE  /\ attempts'[k] <= MaxAttempts + lost'[k]
                 /\ status'[k] = "absent" => attempts'[k] = 0
                 /\ (status'[k] = "pending" \/ (status'[k] = "running" /\ ~Owned(k)'))
                       => attempts'[k] < MaxAttempts + lost'[k]
        <3>1. /\ status'[k] = status[k] /\ attempts'[k] = attempts[k]
              /\ attempts[k] \in Nat /\ lost[k] \in Nat /\ lost'[k] \in Nat
            <4>1. lost' \in [Jobs -> Nat]
                BY <1>9, AbandonedType DEF FinishFails, Stop
            <4>. QED
                BY <2>1, <4>1
        <3>2. /\ attempts[k] <= MaxAttempts + lost[k]
              /\ status[k] = "absent" => attempts[k] = 0
              /\ (status[k] = "pending" \/ (status[k] = "running" /\ ~Owned(k)))
                    => attempts[k] < MaxAttempts + lost[k]
            OBVIOUS
        <3>. QED
            BY <2>3, <3>1, <3>2
    <2>. QED
        BY <2>4
<1>10. ASSUME NEW w \in Workers, Start(w)
       PROVE  BudgetInv'
    BY <1>10 DEF Start, rows, history
<1>11. CASE Tick
    BY <1>11 DEF Tick, workers, history
<1>12. CASE UNCHANGED vars
    BY <1>12 DEF vars, rows, workers, history
<1>. QED
    BY <1>1, <1>2, <1>3, <1>4, <1>5, <1>6, <1>7, <1>8, <1>9, <1>10, <1>11, <1>12 DEF Next, Work

(* If every handler is over within its lock, only claims that were lost to *)
(* a fault take a job past max_attempts.                                   *)
THEOREM AttemptsAreBounded ==
    ASSUME ~HandlersMayOverrun
    PROVE  Spec => []AttemptsBounded
<1>. DEFINE Inv == TypeInv /\ ClaimExclusive /\ BudgetInv
<1>1. Init => Inv
    <2>1. Init => BudgetInv
        BY QueueAssumption DEF Init, BudgetInv, AttemptsBounded, BudgetLeft
    <2>. QED
        BY <2>1, TypeInit, ExclusiveInit
<1>2. Inv /\ [Next]_vars => Inv'
    BY TypeStep, ExclusiveStep, BudgetStep
<1>3. Inv => AttemptsBounded
    BY DEF BudgetInv
<1>. QED
    BY <1>1, <1>2, <1>3, PTL DEF Spec

(* The types, the owners and the attempts of the rows, in every state of a *)
(* queue whose handlers stay within their lock.                            *)
THEOREM TableIsSound ==
    ASSUME ~HandlersMayOverrun
    PROVE  Spec => []TableSound
BY TypeCorrect, RunningIsOwned, AttemptsAreBounded, PTL DEF TableSound

-----------------------------------------------------------------------------
(* The queue implements JobContract, when handlers are over within their   *)
(* lock.                                                                   *)

LEMMA ContractStep ==
    ASSUME TypeInv, ClaimExclusive, DeliveryInv, [Next]_vars
    PROVE  [Contract!Next]_(Contract!cvars)
<1>. USE DEF TypeInv, TypeOK, HoldsJob, ClaimExclusive, Holding, OpenState, Live, Statuses
<1>1. ASSUME NEW j \in Jobs, Enqueue(j)
      PROVE  Contract!Accept(j)
    BY <1>1 DEF Enqueue, history, Contract!Accept
<1>2. ASSUME NEW j \in Jobs, Retry(j)
      PROVE  Contract!Reopen(j)
    BY <1>2 DEF Retry, Retryable, Contract!Reopen
<1>3. ASSUME NEW w \in Workers, Claim(w)
      PROVE  UNCHANGED Contract!cvars
    <2>1. PICK j \in Jobs :
              /\ Claimable(j)
              /\ status' = [status EXCEPT ![j] = "running"]
        BY <1>3 DEF Claim
    <2>2. Live(j)
        BY <2>1 DEF Claimable
    <2>3. OpenState' = OpenState
        BY <2>1, <2>2
    <2>4. delivered' = delivered
        BY <1>3 DEF Claim, history
    <2>. QED
        BY <2>3, <2>4 DEF Contract!cvars
<1>4. ASSUME NEW w \in Workers, Execute(w)
      PROVE  \/ UNCHANGED Contract!cvars
             \/ Contract!Deliver(held[w])
    <2>1. \/ delivered' = delivered
          \/ delivered' = delivered \cup {held[w]}
        BY <1>4 DEF Execute
    <2>2. OpenState' = OpenState
        BY <1>4 DEF Execute, rows
    <2>3. held[w] \in Jobs /\ OpenState[held[w]] = "open"
        BY <1>4 DEF Execute
    <2>. QED
        BY <2>1, <2>2, <2>3 DEF Contract!cvars, Contract!Deliver
<1>5. ASSUME NEW w \in Workers, FinishDone(w)
      PROVE  Contract!Complete(held[w])
    <2>1. /\ held[w] \in Jobs
          /\ status[held[w]] = "running"
          /\ held[w] \in delivered
          /\ status' = [status EXCEPT ![held[w]] = "done"]
          /\ delivered' = delivered
        BY <1>5 DEF FinishDone, Succeeded, DeliveryInv, OkDelivered, history
    <2>. QED
        BY <2>1 DEF Contract!Complete
<1>6. ASSUME NEW w \in Workers, FinishFailed(w)
      PROVE  Contract!GiveUp(held[w])
    <2>1. /\ held[w] \in Jobs
          /\ status[held[w]] = "running"
          /\ status' = [status EXCEPT ![held[w]] = "failed"]
          /\ delivered' = delivered
        BY <1>6 DEF FinishFailed, history
    <2>. QED
        BY <2>1 DEF Contract!GiveUp
<1>7. ASSUME NEW w \in Workers, FinishRetry(w)
      PROVE  UNCHANGED Contract!cvars
    <2>1. /\ held[w] \in Jobs
          /\ status[held[w]] = "running"
          /\ status' = [status EXCEPT ![held[w]] = "pending"]
          /\ delivered' = delivered
        BY <1>7 DEF FinishRetry, history
    <2>. QED
        BY <2>1 DEF Contract!cvars
<1>8. ASSUME NEW w \in Workers, FailedHook(w) \/ FinishFails(w) \/ Stop(w) \/ Start(w)
      PROVE  UNCHANGED Contract!cvars
    BY <1>8 DEF FailedHook, FinishFails, Stop, Start, rows, history, Contract!cvars
<1>9. ASSUME Tick \/ UNCHANGED vars
      PROVE  UNCHANGED Contract!cvars
    BY <1>9 DEF Tick, vars, rows, history, Contract!cvars
<1>10. ASSUME NEW w \in Workers, FinishDone(w) \/ FinishFailed(w) \/ Execute(w)
       PROVE  held[w] \in Jobs
    BY <1>10 DEF FinishDone, FinishFailed, Execute
<1>. HIDE DEF TypeInv, TypeOK, HoldsJob, ClaimExclusive, Holding, OpenState, Live, Statuses
<1>11. CASE \E j \in Jobs : Enqueue(j) \/ Retry(j)
    BY <1>1, <1>2, <1>11 DEF Contract!Next
<1>12. CASE \E w \in Workers : Claim(w) \/ Work(w)
    BY <1>3, <1>4, <1>5, <1>6, <1>7, <1>8, <1>10, <1>12 DEF Work, Contract!Next
<1>13. CASE \E w \in Workers : FinishFails(w) \/ Stop(w) \/ Start(w)
    BY <1>8, <1>13
<1>. QED
    BY <1>9, <1>11, <1>12, <1>13 DEF Next

(* Completed jobs are delivered and stay completed; given-up jobs are      *)
(* reopened by a retry alone.                                              *)
THEOREM QueueImplementsContract ==
    ASSUME ~HandlersMayOverrun
    PROVE  Spec => ImplementsContract
<1>. DEFINE Inv == TypeInv /\ ClaimExclusive /\ DeliveryInv
<1>1. Init => Inv
    <2>1. Init => DeliveryInv
        BY DEF Init, DeliveryInv, DoneMeansDelivered, OkDelivered
    <2>. QED
        BY <2>1, TypeInit, ExclusiveInit
<1>2. Inv /\ [Next]_vars => Inv'
    BY TypeStep, ExclusiveStep, DeliveryStep
<1>3. Init => Contract!Init
    BY DEF Init, OpenState, Live, Contract!Init
<1>4. Inv /\ [Next]_vars => [Contract!Next]_(Contract!cvars)
    BY ContractStep
<1>. QED
    BY <1>1, <1>2, <1>3, <1>4, PTL DEF Spec, ImplementsContract, Contract!Spec
=============================================================================
