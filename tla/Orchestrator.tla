---------------------------- MODULE Orchestrator ----------------------------
(***************************************************************************)
(* The development orchestrator (packages/hermes-orchestrator): calls of    *)
(* runHermesWorkflow in several processes over one database.  A process is *)
(* an event loop: its runs interleave only where they await, and those of   *)
(* two processes between any two statements.  All runs want one real        *)
(* provider; those in Guarded are for one task and action of medium risk    *)
(* and need its approval.  The mock provider takes the same path without    *)
(* the health record.                                                      *)
(***************************************************************************)
EXTENDS Naturals, Sequences, FiniteSets

CONSTANTS
    Run,            \* calls of runHermesWorkflow
    Guarded,        \* those that need an approval
    Process, NoProcess,
    Limit,          \* calls of the provider that a process may have open
    MaxAttempts,    \* 1 + maxRetries
    Threshold,      \* failures in a row that start a cooldown
    MaxApprovals,   \* bound: approvals granted
    MaxFaults       \* bound: deaths of processes and emergency stops

ASSUME OrchestratorAssumption ==
    /\ IsFiniteSet(Run) /\ Guarded \subseteq Run /\ NoProcess \notin Process
    /\ {Limit, MaxAttempts, Threshold} \subseteq Nat \ {0}
    /\ {MaxApprovals, MaxFaults} \subseteq Nat

VARIABLES
    run,         \* where each call is, and what it holds
    status,      \* of its row in hermes_workflow_runs
    calls,       \* dispatches to the provider
    candidates,  \* runs with a memory candidate
    active,      \* slots taken, per process
    approvals,   \* rows of the task and action, oldest first
    failures,    \* failure_count of the provider, up to Threshold
    cooling,     \* whether cooldown_until lies ahead
    stop,        \* system_flags.emergency_stop
    warned,      \* history: runs that awaited a call when the stop was raised
    faults

rows == <<status, candidates>>
health == <<failures, cooling>>
vars == <<run, rows, calls, active, approvals, health, stop, warned, faults>>

Stretch == {"stopFlag", "approval", "admit", "recheck", "reserve", "health", "failure", "complete"}
Slotted == {"recheck", "reserve", "calling", "health", "failure"}
Points == Stretch \cup {"new", "calling", "returned", "ended", "dead"}
Modes == {"none", "real", "blocked", "failed", "cancelled"}

\* The type of every variable.
TypeOK ==
    /\ run \in [Run -> [at : Points, process : Process \cup {NoProcess},
                        attempt : 1..MaxAttempts, approval : 0..MaxApprovals,
                        mode : Modes, seen : 0..Threshold]]
    /\ status \in [Run -> {"none", "running", "blocked", "failed", "cancelled", "completed"}]
    /\ calls \in [Run -> Nat]
    /\ candidates \subseteq Run
    /\ active \in [Process -> Nat]
    /\ approvals \in Seq({"granted", "consumed", "expired"}) /\ Len(approvals) <= MaxApprovals
    /\ failures \in 0..Threshold
    /\ cooling \in BOOLEAN /\ stop \in BOOLEAN
    /\ warned \subseteq Run
    /\ faults \in 0..MaxFaults

Init ==
    /\ run = [r \in Run |-> [at |-> "new", process |-> NoProcess, attempt |-> 1,
                             approval |-> 0, mode |-> "none", seen |-> 0]]
    /\ status = [r \in Run |-> "none"]
    /\ calls = [r \in Run |-> 0]
    /\ candidates = {}
    /\ active = [p \in Process |-> 0]
    /\ approvals = << >>
    /\ failures = 0 /\ cooling = FALSE
    /\ stop = FALSE /\ warned = {}
    /\ faults = 0

-----------------------------------------------------------------------------
(* Steps of a run                                                          *)

Outside == UNCHANGED <<stop, warned, faults>>

\* A process whose event loop is free.
Free(p) == \A r \in Run : run[r].process = p => run[r].at \notin Stretch

To(r, point) == run' = [run EXCEPT ![r].at = point]

\* Mutant: a cancelled run returns without finishWorkflowRun.
FinishUnlessCancelled(r, outcome) ==
    /\ To(r, "ended")
    /\ status' = IF outcome = "cancelled" THEN status ELSE [status EXCEPT ![r] = outcome]
    /\ UNCHANGED <<candidates, calls, active, approvals, health>> /\ Outside

\* finishWorkflowRun, and the end of the call.
Finish(r, outcome) ==
    /\ To(r, "ended")
    /\ status' = [status EXCEPT ![r] = outcome]
    /\ UNCHANGED <<candidates, calls, active, approvals, health>> /\ Outside

\* A statement that changes no row of a run, no slot and no approval.
Passes(r, point) == To(r, point) /\ UNCHANGED <<rows, calls, active, approvals, health>> /\ Outside

Receive(r, p) ==
    /\ run[r].at = "new" /\ Free(p)
    /\ run' = [run EXCEPT ![r].at = "stopFlag", ![r].process = p]
    /\ status' = [status EXCEPT ![r] = "running"]
    /\ UNCHANGED <<candidates, calls, active, approvals, health>> /\ Outside

\* Policy and the gates of the real provider may refuse as well.
CheckStop(r) ==
    /\ run[r].at = "stopFlag"
    /\ Finish(r, "blocked") \/ (~stop /\ Passes(r, IF r \in Guarded THEN "approval" ELSE "admit"))

\* checkApproval: the newest row.
CheckApproval(r) ==
    /\ run[r].at = "approval"
    /\ IF approvals # << >> /\ approvals[Len(approvals)] = "granted"
       THEN /\ run' = [run EXCEPT ![r].at = "admit", ![r].approval = Len(approvals)]
            /\ UNCHANGED <<rows, calls, active, approvals, health>> /\ Outside
       ELSE Finish(r, "blocked")

\* Mutant: the early return of a refusal skips slot.release().
ReturnsLeaking(r, mode) ==
    /\ run' = [run EXCEPT ![r].at = "returned", ![r].mode = mode, ![r].seen = 0]
    /\ active' = IF run[r].at \in Slotted /\ mode # "blocked"
                 THEN [active EXCEPT ![run[r].process] = IF @ > 0 THEN @ - 1 ELSE 0]
                 ELSE active
    /\ UNCHANGED <<rows, calls, approvals>> /\ Outside

\* executeWorkflow returns what it did; its slot is free again.
Returns(r, mode) ==
    /\ run' = [run EXCEPT ![r].at = "returned", ![r].mode = mode, ![r].seen = 0]
    /\ active' = IF run[r].at \in Slotted
                 THEN [active EXCEPT ![run[r].process] = IF @ > 0 THEN @ - 1 ELSE 0]
                 ELSE active
    /\ UNCHANGED <<rows, calls, approvals>> /\ Outside

\* Cooldown and slot; the configuration of the provider may refuse as well.
Admit(r) ==
    /\ run[r].at = "admit"
    /\ \/ Returns(r, "blocked") /\ UNCHANGED health
       \/ /\ ~cooling /\ active[run[r].process] < Limit
          /\ To(r, "recheck")
          /\ active' = [active EXCEPT ![run[r].process] = @ + 1]
          /\ UNCHANGED <<rows, calls, approvals, health>> /\ Outside

Dispatch(r) ==
    /\ To(r, "calling")
    /\ calls' = [calls EXCEPT ![r] = @ + 1]
    /\ UNCHANGED <<rows, active, health>> /\ Outside

\* Mutant: the flag is read before the first attempt only.
StoppedAtFirst(r) == stop /\ run[r].attempt = 1

Stopped(r) == stop

\* Before every attempt: the flag, the caller's signal, once the approval.
Recheck(r) ==
    /\ run[r].at = "recheck"
    /\ \/ Stopped(r) /\ Returns(r, "blocked") /\ UNCHANGED health
       \/ /\ ~Stopped(r)
          /\ \/ Returns(r, "cancelled") /\ UNCHANGED health
             \/ r \in Guarded /\ run[r].attempt = 1 /\ Passes(r, "reserve")
             \/ (r \notin Guarded \/ run[r].attempt > 1) /\ Dispatch(r) /\ UNCHANGED approvals

\* Mutant: an approval is consumed whatever became of it since it was read.
ReserveBlindly(r) ==
    /\ run[r].at = "reserve"
    /\ approvals' = [approvals EXCEPT ![run[r].approval] = "consumed"]
    /\ Dispatch(r)

\* consumeApprovalIfGranted, and the call in the same stretch.
Reserve(r) ==
    /\ run[r].at = "reserve"
    /\ IF approvals[run[r].approval] = "granted"
       THEN approvals' = [approvals EXCEPT ![run[r].approval] = "consumed"] /\ Dispatch(r)
       ELSE Returns(r, "blocked") /\ UNCHANGED health

\* The adapter answers, throws, or its deadline or the caller aborts it.
Answer(r, mode) ==
    /\ run[r].at = "calling" /\ Free(run[r].process)
    /\ run' = [run EXCEPT ![r].at = "health", ![r].mode = mode]
    /\ UNCHANGED <<rows, calls, active, approvals, health>> /\ Outside

\* recordSuccess writes; recordFailure reads the row and writes it back.
RecordSuccess(r) ==
    /\ run[r].at = "health" /\ run[r].mode = "real"
    /\ Returns(r, "real")
    /\ failures' = 0 /\ cooling' = FALSE

ReadFailures(r) ==
    /\ run[r].at = "health" /\ run[r].mode # "real"
    /\ run' = [run EXCEPT ![r].at = "failure", ![r].seen = failures]
    /\ UNCHANGED <<rows, calls, active, approvals, health>> /\ Outside

LastAttempt(r) == run[r].attempt = MaxAttempts

\* A cancellation and the last attempt are not retried.
RecordFailure(r) ==
    /\ run[r].at = "failure"
    /\ failures' = IF run[r].seen < Threshold THEN run[r].seen + 1 ELSE Threshold
    /\ cooling' = (failures' = Threshold)
    /\ IF run[r].mode = "cancelled" \/ LastAttempt(r)
       THEN Returns(r, run[r].mode)
       ELSE /\ run' = [run EXCEPT ![r].at = "recheck", ![r].attempt = @ + 1, ![r].seen = 0]
            /\ UNCHANGED <<rows, calls, active, approvals>> /\ Outside

\* The run after its await: its end, or its memory candidate once verified.
Conclude(r) ==
    /\ run[r].at = "returned" /\ Free(run[r].process)
    /\ CASE run[r].mode = "real" ->
              \/ Finish(r, "failed")
              \/ /\ To(r, "complete")
                 /\ candidates' = candidates \cup {r}
                 /\ UNCHANGED <<status, calls, active, approvals, health>> /\ Outside
         [] run[r].mode = "cancelled" -> Finish(r, "cancelled")
         [] OTHER -> Finish(r, "failed")

Complete(r) == run[r].at = "complete" /\ Finish(r, "completed")

Step(r) ==
    \/ CheckStop(r) \/ CheckApproval(r) \/ Admit(r) \/ Recheck(r) \/ Reserve(r)
    \/ \E mode \in {"real", "failed", "cancelled"} : Answer(r, mode)
    \/ RecordSuccess(r) \/ ReadFailures(r) \/ RecordFailure(r) \/ Conclude(r) \/ Complete(r)

-----------------------------------------------------------------------------
(* The operator, the clock, deaths                                         *)

Grant ==
    /\ Len(approvals) < MaxApprovals
    /\ approvals' = Append(approvals, "granted")
    /\ UNCHANGED <<run, rows, calls, active, health>> /\ Outside

Expire(i) ==
    /\ approvals[i] = "granted"
    /\ approvals' = [approvals EXCEPT ![i] = "expired"]
    /\ UNCHANGED <<run, rows, calls, active, health>> /\ Outside

CooldownEnds ==
    /\ cooling /\ cooling' = FALSE
    /\ UNCHANGED <<run, rows, calls, active, approvals, failures>> /\ Outside

Fault == faults < MaxFaults /\ faults' = faults + 1

RaiseStop ==
    /\ ~stop /\ Fault
    /\ stop' = TRUE
    /\ warned' = {r \in Run : run[r].at = "calling"}
    /\ UNCHANGED <<run, rows, calls, active, approvals, health>>

LiftStop ==
    /\ stop /\ stop' = FALSE
    /\ warned' = {}
    /\ UNCHANGED <<run, rows, calls, active, approvals, health, faults>>

\* A process dies and is started again: its runs stay where they were, their rows
\* running for ever; its slots are free.
Dies(p) ==
    /\ Fault
    /\ run' = [r \in Run |-> IF run[r].process = p /\ run[r].at # "ended"
                             THEN [run[r] EXCEPT !.at = "dead"] ELSE run[r]]
    /\ active' = [active EXCEPT ![p] = 0]
    /\ UNCHANGED <<rows, calls, approvals, health, stop, warned>>

Next ==
    \/ \E r \in Run : Step(r) \/ \E p \in Process : Receive(r, p)
    \/ Grant \/ (\E i \in DOMAIN approvals : Expire(i)) \/ CooldownEnds
    \/ RaiseStop \/ LiftStop \/ \E p \in Process : Dies(p)

Spec == Init /\ [][Next]_vars

\* The event loop serves every callback, and a call ends by its deadline.
FairSpec == Spec /\ \A r \in Run : WF_vars(Step(r))

-----------------------------------------------------------------------------
(* Properties                                                              *)

\* "preventing two parallel workflows from dispatching under the same approval"
\* (execute.js 75-78): the calls under one approval are those of one run, at most
\* 1 + maxRetries, and the approval is consumed before the first of them.
OneRunPerApproval ==
    \A r \in Guarded : calls[r] > 0 =>
       /\ calls[r] <= MaxAttempts
       /\ run[r].approval \in DOMAIN approvals /\ approvals[run[r].approval] = "consumed"
       /\ \A s \in Guarded : calls[s] > 0 /\ run[s].approval = run[r].approval => s = r

\* The slots a process has taken are exactly those of its runs between acquire and
\* release, on every way out and after deaths, and never above the limit
\* (concurrency.js 10-22, execute.js 59-109).
SlotsAreHonest ==
    \A p \in Process :
       /\ active[p] = Cardinality({r \in Run : run[r].process = p /\ run[r].at \in Slotted})
       /\ active[p] <= Limit

\* "A stop raised while a prior attempt was pending must prevent a subsequent
\* (possibly paid) call" (execute.js 69-70), for as long as it is not lifted.
StopPreventsRetry ==
    [][\A r \in warned \cap warned' : calls'[r] = calls[r]]_vars

\* Every run that is received ends with a status of its own, unless its process
\* dies (orchestrator.js 117-166).
RunsEnd ==
    \A r \in Run : status[r] = "running" ~> (status[r] # "running" \/ run[r].at = "dead")
=============================================================================
