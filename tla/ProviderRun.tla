---------------------------- MODULE ProviderRun -----------------------------
(***************************************************************************)
(* providerWithRetries (packages/hermes/hermes.js) and the dispatch it       *)
(* makes: the Codex CLI under its ledger row and the workspace quarantine    *)
(* (packages/providers/providers.js, packages/workspace-registry), a         *)
(* provider called in line and recorded once it has answered, or a packet    *)
(* handed off for a manual response.  All tasks share one workspace.         *)
(***************************************************************************)
EXTENDS Worker

CONSTANTS
    Inline,     \* the lane of a provider called in line
    Manual,     \* the lane of a manual handoff
    MaxRetries  \* MAX_RETRIES

VARIABLES
    children,    \* claims whose detached Codex process is alive
    quarantine   \* the workspace's quarantine flags are set

codexVars == <<children, quarantine>>

ASSUME ProviderAssumption ==
    /\ {Inline, Manual} \cap Lane = {}
    /\ MaxRetries \in Nat \ {0}

CodexInit == children = {} /\ quarantine = FALSE

Provider(w) == profile[Mine(w)].lane
ProvIs(w, step) == Is(w, "provider", step)
Calm == UNCHANGED <<engineVars, launches, codexVars>>
Got(w, result, step) == run' = [run EXCEPT ![w].got = result, ![w].step = step]

\* guardDispatch, in the order of its reads: the task's row, whose status refuses
\* a cancelled task; the workspace; the stop flag, with the deadline, the budget
\* and the configuration, any of which may refuse; an attempt that has already
\* been recorded.  Ledgered attempts are left to their own row.
ProvRow(w) ==
    /\ ProvIs(w, "go")
    /\ IF status[Mine(w)] = "cancelled" THEN Leave(w, "failed") ELSE Step(w, "workspace")
    /\ Calm

ProvWorkspace(w) ==
    /\ ProvIs(w, "workspace")
    /\ IF quarantine THEN Leave(w, "failed") ELSE Step(w, "controls")
    /\ Calm

ProvControls(w) ==
    /\ ProvIs(w, "controls")
    /\ \/ Leave(w, "failed")
       \/ ~stop /\ Step(w, IF Provider(w) = Codex THEN "prepare" ELSE "replay")
    /\ Calm

\* Mutant: an attempt already recorded does not stop the next.
ProvReplayAnyway(w) ==
    /\ ProvIs(w, "replay")
    /\ Step(w, "renew")
    /\ Calm

ProvReplay(w) ==
    /\ ProvIs(w, "replay")
    /\ IF recorded[Mine(w)] > 0 THEN Leave(w, "failed") ELSE Step(w, "renew")
    /\ Calm

\* Mutant: a dispatch found in flight is taken up where it was left.
ProvPrepareResumes(w) ==
    /\ ProvIs(w, "prepare")
    /\ \/ Prepare(Mine(w), Codex, Held(w), FALSE) /\ Step(w, "renew")
       \/ /\ ledger[Mine(w)][Codex].status # "none"
          /\ IF InFlight(Mine(w), Codex) THEN Step(w, "renew") ELSE Leave(w, "failed")
          /\ UNCHANGED engineVars
    /\ UNCHANGED <<launches, codexVars>>

ProvPrepare(w) ==
    /\ ProvIs(w, "prepare")
    /\ \/ Prepare(Mine(w), Codex, Held(w), FALSE) /\ Step(w, "renew")
       \/ /\ ledger[Mine(w)][Codex].status # "none"
          /\ IF InFlight(Mine(w), Codex) THEN Step(w, "recover") ELSE Leave(w, "failed")
          /\ UNCHANGED engineVars
    /\ UNCHANGED <<launches, codexVars>>

\* Mutant: a dispatch found in flight is settled as if it had been answered.
ProvRecoverAsDone(w) ==
    /\ ProvIs(w, "recover")
    /\ FinishCodex(Mine(w), "completed") \/ (~InFlight(Mine(w), Codex) /\ UNCHANGED engineVars)
    /\ Leave(w, "failed")
    /\ UNCHANGED <<launches, codexVars>>

\* The dispatch of an earlier claim was never settled: outcome unknown, replay
\* refused.  If it has been settled since, the call throws.
ProvRecover(w) ==
    /\ ProvIs(w, "recover")
    /\ FinishCodex(Mine(w), "outcome_unknown") \/ (~InFlight(Mine(w), Codex) /\ UNCHANGED engineVars)
    /\ Leave(w, "failed")
    /\ UNCHANGED <<launches, codexVars>>

\* The first renewLease.  It gives up without settling its row; a cancelled task
\* does not count as a lost lease.
ProvRenew(w) ==
    /\ ProvIs(w, "renew")
    /\ Heartbeat(Mine(w), Held(w))
    /\ IF Beats(Mine(w), Held(w)) \/ status[Mine(w)] = "cancelled"
       THEN Step(w, IF Provider(w) = Codex THEN "quarantine" ELSE "call")
       ELSE Return(w)
    /\ UNCHANGED <<launches, codexVars>>

\* The renewLease timer while a call is out.
ProvLease(w) ==
    /\ run[w].at = "provider"
    /\ run[w].step \in {"exec", "answer"}
    /\ Heartbeat(Mine(w), Held(w))
    /\ run' = [run EXCEPT ![w].lost =
                @ \/ (~Beats(Mine(w), Held(w)) /\ status[Mine(w)] # "cancelled")]
    /\ UNCHANGED <<launches, codexVars>>

\* Mutant: the quarantine is set without looking at it.
ProvQuarantineTwice(w) ==
    /\ ProvIs(w, "quarantine")
    /\ quarantine' = TRUE
    /\ Step(w, "spawn")
    /\ UNCHANGED <<engineVars, launches, children>>

\* runCodexCliPacket quarantines the workspace in a transaction that refuses one
\* that is quarantined.  A profile that disables the provider ends here as well.
ProvQuarantine(w) ==
    /\ ProvIs(w, "quarantine")
    /\ \/ Got(w, "failed", "token") /\ UNCHANGED quarantine
       \/ ~quarantine /\ quarantine' = TRUE /\ Step(w, "spawn")
    /\ UNCHANGED <<engineVars, launches, children>>

\* The root may have changed identity, which leaves the quarantine; or the spawn
\* fails, which lifts it.
ProvSpawn(w) ==
    /\ ProvIs(w, "spawn")
    /\ \/ /\ children' = children \cup {Held(w)}
          /\ launches' = [launches EXCEPT ![Mine(w)] = @ + 1]
          /\ Step(w, "exec")
       \/ /\ \E step \in {"token", "lift"} : Got(w, "failed", step)
          /\ UNCHANGED <<launches, children>>
    /\ UNCHANGED <<engineVars, quarantine>>

\* The process exits or is terminated (deadline, cancellation, stop, lost lease);
\* it may have changed the workspace, or its termination may not be provable.
\* Either leaves the quarantine.
ProvExec(w) ==
    /\ ProvIs(w, "exec")
    /\ \/ /\ children' = children \ {Held(w)}
          /\ \/ \E r \in {"ok", "failed"} : Got(w, r, "lift")
             \/ Got(w, "failed", "token")
       \/ Got(w, "unknown", "token") /\ UNCHANGED children
    /\ UNCHANGED <<engineVars, launches, quarantine>>

\* recoverWorkspace, containment and integrity being verified.
ProvLift(w) ==
    /\ ProvIs(w, "lift")
    /\ IF quarantine THEN Step(w, "token") ELSE Got(w, "failed", "token")
    /\ quarantine' = FALSE
    /\ UNCHANGED <<engineVars, launches, children>>

\* A provider in line, or the packet of a manual handoff.
ProvCall(w) ==
    /\ ProvIs(w, "call")
    /\ IF Provider(w) = Manual THEN UNCHANGED launches
                               ELSE launches' = [launches EXCEPT ![Mine(w)] = @ + 1]
    /\ Step(w, "answer")
    /\ UNCHANGED <<engineVars, codexVars>>

ProvAnswer(w) ==
    /\ ProvIs(w, "answer")
    /\ Got(w, IF Provider(w) = Manual THEN "handed_off" ELSE "ok", "token") \/ Got(w, "failed", "token")
    /\ Calm

\* Whoever has lost the claim drops the answer and settles nothing.
ProvToken(w) ==
    /\ ProvIs(w, "token")
    /\ IF run[w].lost \/ ~Holds(w) THEN Return(w) ELSE Step(w, "record")
    /\ Calm

Outcome(w) == CASE run[w].got = "ok" -> "completed"
                [] run[w].got = "failed" -> "failed"
                [] run[w].got = "unknown" -> "outcome_unknown"

\* The outcome is settled with its usage, or recorded; settling a row that is
\* terminal throws.
ProvRecord(w) ==
    /\ ProvIs(w, "record")
    /\ IF Provider(w) = Codex
       THEN \/ FinishCodex(Mine(w), Outcome(w)) /\ Step(w, "recorded")
            \/ ~InFlight(Mine(w), Codex) /\ Leave(w, "failed") /\ UNCHANGED engineVars
       ELSE /\ IF run[w].got = "failed" THEN UNCHANGED engineVars ELSE RecordAttempt(Mine(w))
            /\ Step(w, "recorded")
    /\ UNCHANGED <<launches, codexVars>>

ProvRecorded(w) ==
    /\ ProvIs(w, "recorded")
    /\ IF status[Mine(w)] = "cancelled" THEN Leave(w, "failed")
       ELSE IF run[w].got = "ok" THEN Step(w, "done")
       ELSE IF run[w].got = "handed_off" THEN Leave(w, "waiting_for_manual_response")
       ELSE Step(w, "retry")
    /\ Calm

\* Mutant: the retries are not counted.
ProvRetryForever(w) ==
    /\ ProvIs(w, "retry")
    /\ Transition(Mine(w), "running", NoClaim)
    /\ IF Provider(w) # Codex
       THEN run' = [run EXCEPT ![w].step = "flag", ![w].try = @ + 1, ![w].got = "none"]
       ELSE Leave(w, "failed")
    /\ UNCHANGED <<launches, codexVars>>

\* The retry counter is written without naming the claim; Codex is not retried.
ProvRetry(w) ==
    /\ ProvIs(w, "retry")
    /\ Transition(Mine(w), "running", NoClaim)
    /\ IF Provider(w) # Codex /\ run[w].try < MaxRetries
       THEN run' = [run EXCEPT ![w].step = "flag", ![w].try = @ + 1, ![w].got = "none"]
       ELSE Leave(w, "failed")
    /\ UNCHANGED <<launches, codexVars>>

ProviderStep(w) ==
    \/ ProvRow(w) \/ ProvWorkspace(w) \/ ProvControls(w) \/ ProvReplay(w)
    \/ ProvPrepare(w) \/ ProvRecover(w) \/ ProvRenew(w) \/ ProvLease(w)
    \/ ProvQuarantine(w) \/ ProvSpawn(w) \/ ProvExec(w) \/ ProvLift(w)
    \/ ProvCall(w) \/ ProvAnswer(w)
    \/ ProvToken(w) \/ ProvRecord(w) \/ ProvRecorded(w) \/ ProvRetry(w)

\* A Codex process whose worker no longer waits for it comes to its end.
OrphanExits(c) ==
    /\ c \in children
    /\ \A w \in Worker : ~(ProvIs(w, "exec") /\ Held(w) = c)
    /\ children' = children \ {c}
    /\ UNCHANGED <<engineVars, workerVars, quarantine>>

\* recoverWorkspace called by an operator.  It takes the caller's word for
\* containment and integrity, and no code checks it: that no Codex process is
\* left, and no worker between quarantine and lift, is what is asked of operators.
OperatorLifts ==
    /\ quarantine
    /\ children = {}
    /\ \A w \in Worker : ~(run[w].at = "provider" /\ run[w].step \in {"spawn", "exec", "lift"})
    /\ quarantine' = FALSE
    /\ UNCHANGED <<engineVars, workerVars, children>>

=============================================================================
