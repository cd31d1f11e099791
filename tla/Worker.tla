------------------------------- MODULE Worker -------------------------------
(***************************************************************************)
(* A worker process (apps/worker/worker.js) and what its run of a task     *)
(* shares with every path of Hermes: taking a claim, the stop checks, the   *)
(* fenced last transition.  Modules CapabilityRun, ProviderRun and Hermes   *)
(* add the paths themselves.                                                *)
(*                                                                         *)
(* A step of a worker is one database statement or transaction, or one      *)
(* outside call.  Reads of what never changes, and a read that a later one  *)
(* in the same breath repeats, are folded into the step that follows.       *)
(***************************************************************************)
EXTENDS TaskEngine

CONSTANT NoTask    \* the task of an idle worker

VARIABLES
    run,       \* the task a worker is processing, its claim, and how far it is
    launches   \* history: outside executions started for a task

workerVars == <<run, launches>>

ASSUME WorkerAssumption == NoTask \notin Task

Result == {"none", "ok", "failed", "unknown", "handed_off"}

Idle == [at |-> "idle", step |-> "flag", task |-> NoTask, claim |-> NoClaim,
         try |-> 1, got |-> "none", lost |-> FALSE]

Mine(w) == run[w].task
Held(w) == run[w].claim
Holds(w) == owner[Mine(w)] = Held(w)
Is(w, phase, step) == run[w].at = phase /\ run[w].step = step

\* Where a worker goes next.
To(w, phase, step) == run' = [run EXCEPT ![w].at = phase, ![w].step = step]
Step(w, step) == To(w, run[w].at, step)
Return(w) == run' = [run EXCEPT ![w] = Idle]

\* return move(s, ...): one more fenced transition, then the tick is over.
Leave(w, s) == To(w, "move", s)

WorkerInit ==
    /\ run = [w \in Worker |-> Idle]
    /\ launches = [t \in Task |-> 0]

-----------------------------------------------------------------------------
\* executeAdmittedTick reads the stop flag, then claims; a stopped tick is over.
Poll(w) ==
    /\ Is(w, "idle", "flag")
    /\ Step(w, IF stop THEN "flag" ELSE "claim")
    /\ UNCHANGED <<engineVars, launches>>

Take(w) ==
    /\ Is(w, "idle", "claim")
    /\ \/ \E t \in Task :
            /\ ClaimNext(w, t)
            /\ run' = [run EXCEPT ![w].at = "start", ![w].step = "cancelled",
                                  ![w].task = t, ![w].claim = FreshClaim(w)]
       \/ /\ \A t \in Task : ~Claimable(t)
          /\ Return(w)
          /\ UNCHANGED engineVars
    /\ UNCHANGED launches

\* A cancellation racing the claim is seen before anything is dispatched; a task
\* whose workspace is not registered fails.
Precheck(w) ==
    /\ Is(w, "start", "cancelled")
    /\ IF status[Mine(w)] = "cancelled" THEN Return(w)
                                        ELSE Step(w, "flag") \/ Leave(w, "failed")
    /\ UNCHANGED <<engineVars, launches>>

\* The phases that begin with shouldStop.  The ones in Stages are run by stage(),
\* which throws where the others return.
Stages == {"inspect_workspace", "build_plan", "decompose", "select_provider",
           "apply_edits", "validate", "commit", "pull_request", "summarize"}
Checked == Stages \cup {"start", "provider", "gate"}

Stopped(w) == IF run[w].at \in Stages THEN Leave(w, "failed") ELSE Return(w)

StopFlag(w) ==
    /\ run[w].at \in Checked
    /\ run[w].step = "flag"
    /\ Step(w, IF stop THEN "halt" ELSE "row")
    /\ UNCHANGED <<engineVars, launches>>

\* shouldStop cancels without naming its claim.
StopHalt(w) ==
    /\ run[w].at \in Checked
    /\ run[w].step = "halt"
    /\ Transition(Mine(w), "cancelled", NoClaim)
    /\ Stopped(w)
    /\ UNCHANGED launches

StopRow(w) ==
    /\ run[w].at \in Checked \ Stages
    /\ run[w].step = "row"
    /\ IF status[Mine(w)] = "cancelled" \/ ~Holds(w) THEN Stopped(w) ELSE Step(w, "go")
    /\ UNCHANGED <<engineVars, launches>>

\* move(status, patch): every exit of processTask that names its claim.
Move(w) ==
    /\ run[w].at = "move"
    /\ Transition(Mine(w), run[w].step, Held(w))
    /\ Return(w)
    /\ UNCHANGED launches

WorkerStep(w) ==
    \/ Poll(w) \/ Take(w) \/ Precheck(w)
    \/ StopFlag(w) \/ StopHalt(w) \/ StopRow(w)
    \/ Move(w)

\* The process dies; claim, ledger and outside calls stay as they are.
Dies(w) ==
    /\ Mine(w) # NoTask
    /\ Return(w)
    /\ UNCHANGED <<engineVars, launches>>

=============================================================================
