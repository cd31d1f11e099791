------------------------------- MODULE Hermes -------------------------------
(***************************************************************************)
(* The command runtime as it runs: workers take tasks and drive them through *)
(* processTask (packages/hermes/hermes.js), administrators and channels      *)
(* intervene (module Control), processes die, leases lapse, and the outside  *)
(* calls of modules CapabilityRun and ProviderRun go their own way.  All of   *)
(* it acts on the tables of module TaskEngine, one statement at a time.       *)
(*                                                                           *)
(* The bounded mock path of the test mode is left out, and a task keeps the   *)
(* lane its profile names: provider selection is a function of workspace      *)
(* policy and configuration, which no operation here changes.                 *)
(***************************************************************************)
EXTENDS CapabilityRun, ProviderRun, Control

CONSTANT MaxFaults    \* bound: deaths, handler aborts, and leases lapsing under a live worker

VARIABLES
    edits,    \* history: times a task's artifacts were written, wholly or in part
    faults    \* faults so far

vars == <<engineVars, workerVars, wireVars, codexVars, controlVars, edits, faults>>

ASSUME HermesAssumption == MaxFaults \in Nat

Init ==
    /\ EngineInit /\ WorkerInit /\ WireInit /\ CodexInit /\ ControlInit
    /\ edits = [t \in Task |-> 0]
    /\ faults = 0

Outside == UNCHANGED <<launches, wireVars, codexVars>>

-----------------------------------------------------------------------------
(* processTask                                                            *)

\* Policy is a function of columns that never change; evaluateApproval is one
\* read of the newest row.
Newest(t) == approvals[t][Len(approvals[t])]

\* Mutant: a prompt on record is taken for its approval.
VerdictLenient(t) ==
    IF profile[t].decision = "denied" THEN "blocked"
    ELSE IF profile[t].decision = "allowed" THEN "clear"
    ELSE IF approvals[t] = <<>> THEN "pending" ELSE "clear"

Verdict(t) ==
    IF profile[t].decision = "denied" THEN "blocked"
    ELSE IF profile[t].decision = "allowed" THEN "clear"
    ELSE IF approvals[t] = <<>> THEN "pending"
    ELSE CASE Newest(t).status = "approved" -> IF Newest(t).cold THEN "blocked" ELSE "clear"
           [] Newest(t).status = "pending" -> "pending"
           [] OTHER -> "blocked"

EvaluateApproval(w) ==
    /\ Is(w, "start", "go")
    /\ CASE Verdict(Mine(w)) = "blocked" -> Leave(w, "failed")
         [] Verdict(Mine(w)) = "pending" -> To(w, "prompt", "find")
         [] OTHER -> IF profile[Mine(w)].lane \in Capability
                     THEN To(w, "capability", "own") ELSE To(w, "guard", "row")
    /\ UNCHANGED engineVars /\ Outside

\* recordApprovalPause: createApproval looks, then inserts; the pause itself
\* names no claim.
PromptFinds(w) ==
    /\ Is(w, "prompt", "find")
    /\ Step(w, IF NonePending(Mine(w)) THEN "insert" ELSE "park")
    /\ UNCHANGED engineVars /\ Outside

PromptInserts(w) ==
    /\ Is(w, "prompt", "insert")
    /\ CreateApproval(Mine(w), TRUE)
    /\ Step(w, "park")
    /\ Outside

PromptParks(w) ==
    /\ Is(w, "prompt", "park")
    /\ Transition(Mine(w), "waiting_for_approval", NoClaim)
    /\ Return(w)
    /\ Outside

\* guardDispatch before the request goes to Hermes: the task's row, the
\* workspace, the stop flag.  A cancelled task is moved to cancelled, unless
\* another reason to refuse is found first.  Deadline and budget may refuse, and
\* the request may fail.
GuardRow(w) ==
    /\ Is(w, "guard", "row")
    /\ IF status[Mine(w)] = "cancelled" THEN \E s \in {"failed", "cancelled"} : Leave(w, s)
                                        ELSE Step(w, "workspace")
    /\ UNCHANGED engineVars /\ Outside

GuardWorkspace(w) ==
    /\ Is(w, "guard", "workspace")
    /\ IF quarantine THEN Leave(w, "failed") ELSE Step(w, "controls")
    /\ UNCHANGED engineVars /\ Outside

GuardControls(w) ==
    /\ Is(w, "guard", "controls")
    /\ \/ Leave(w, "failed")
       \/ ~stop /\ Step(w, "mark")
    /\ UNCHANGED engineVars /\ Outside

\* The phases of the pipeline, each with the step that follows it.
Following == [inspect_workspace |-> <<"build_plan", "flag">>, build_plan |-> <<"guard", "planned">>,
              decompose |-> <<"select_provider", "flag">>, select_provider |-> <<"provider", "flag">>,
              validate |-> <<"commit", "flag">>, commit |-> <<"pull_request", "flag">>,
              pull_request |-> <<"summarize", "flag">>, summarize |-> <<"move", "completed">>,
              apply_edits |-> <<"apply_edits", "write">>]

\* move('running'), on entering the pipeline and with the plan.
MarkRunning(w) ==
    /\ Is(w, "guard", "mark") \/ Is(w, "guard", "planned")
    /\ Transition(Mine(w), "running", Held(w))
    /\ To(w, IF Is(w, "guard", "mark") THEN "inspect_workspace" ELSE "decompose", "flag")
    /\ Outside

\* stage(): its heartbeat needs the claim and an active status, and so repeats
\* the row check before it.  What the stage does then is its own or fails.
StageBeats(w) ==
    /\ run[w].at \in Stages
    /\ run[w].step = "row"
    /\ Heartbeat(Mine(w), Held(w))
    /\ \/ Leave(w, "failed")
       \/ /\ Beats(Mine(w), Held(w))
          /\ LET next == Following[run[w].at] IN To(w, next[1], next[2])
    /\ Outside

\* Mutant: a mutation is reported before it is written.
AfterProviderHasty(w) ==
    /\ Is(w, "provider", "done")
    /\ To(w, "summarize", "flag")
    /\ UNCHANGED engineVars /\ Outside

\* What the provider returned must fit the task's intent.
AfterProvider(w) ==
    /\ Is(w, "provider", "done")
    /\ \/ Leave(w, "failed")
       \/ To(w, IF profile[Mine(w)].intent = "read_only" THEN "summarize" ELSE "gate", "flag")
    /\ UNCHANGED engineVars /\ Outside

PassGate(w) ==
    /\ Is(w, "gate", "go")
    /\ To(w, "apply_edits", "flag")
    /\ UNCHANGED engineVars /\ Outside

\* A workspace that is not clean, or artifacts that change nothing, fail before
\* anything is written; a write that fails leaves the ones before it in place.
ApplyEdits(w) ==
    /\ Is(w, "apply_edits", "write")
    /\ \/ /\ edits' = [edits EXCEPT ![Mine(w)] = @ + 1]
          /\ To(w, "validate", "flag") \/ Leave(w, "failed")
       \/ Leave(w, "failed") /\ UNCHANGED edits
    /\ UNCHANGED engineVars /\ Outside

Pipeline(w) ==
    \/ EvaluateApproval(w) \/ PromptFinds(w) \/ PromptInserts(w) \/ PromptParks(w)
    \/ GuardRow(w) \/ GuardWorkspace(w) \/ GuardControls(w) \/ MarkRunning(w)
    \/ StageBeats(w) \/ AfterProvider(w) \/ PassGate(w)

-----------------------------------------------------------------------------
(* Everyone together                                                      *)

Works(w) ==
    \/ WorkerStep(w) /\ UNCHANGED <<wireVars, codexVars, edits>>
    \/ CapabilityStep(w) /\ UNCHANGED <<codexVars, edits>>
    \/ ProviderStep(w) /\ UNCHANGED <<wireVars, edits>>
    \/ Pipeline(w) /\ UNCHANGED edits
    \/ ApplyEdits(w)

WorkerActs(w) == Works(w) /\ UNCHANGED <<controlVars, faults>>

Submit(t) ==
    /\ \E p \in Profile : CreateTask(t, p)
    /\ UNCHANGED <<workerVars, wireVars, codexVars, controlVars, edits, faults>>

Receive(c) ==
    /\ Serve(c) \/ Drop(c)
    /\ UNCHANGED <<codexVars, controlVars, edits, faults>>

Settle ==
    /\ (\E c \in Claim : OrphanExits(c)) \/ OperatorLifts
    /\ UNCHANGED <<wireVars, controlVars, edits, faults>>

Govern ==
    /\ Asking \/ Handling
    /\ UNCHANGED <<workerVars, wireVars, codexVars, edits, faults>>

Clock(t) ==
    /\ ApprovalGoesCold(t)
    /\ UNCHANGED <<workerVars, wireVars, codexVars, controlVars, edits, faults>>

\* Nobody is at work under the claim of task t any more.
Abandoned(t) == \A w \in Worker : Mine(w) = t => ~Holds(w)

Lapse(t) ==
    /\ LeaseExpires(t)
    /\ IF Abandoned(t) THEN UNCHANGED faults ELSE faults < MaxFaults /\ faults' = faults + 1
    /\ UNCHANGED <<workerVars, wireVars, codexVars, controlVars, edits>>

Fault ==
    /\ faults < MaxFaults
    /\ faults' = faults + 1
    /\ \/ (\E w \in Worker : Dies(w)) /\ UNCHANGED controlVars
       \/ DeskAborts /\ UNCHANGED workerVars
    /\ UNCHANGED <<engineVars, wireVars, codexVars, edits>>

Next ==
    \/ \E w \in Worker : WorkerActs(w)
    \/ \E t \in Task : Submit(t) \/ Clock(t) \/ Lapse(t)
    \/ \E c \in Claim : Receive(c)
    \/ Settle \/ Govern \/ Fault

Spec == Init /\ [][Next]_vars

-----------------------------------------------------------------------------
(* What holds                                                             *)

TypeOK ==
    /\ EngineTypeOK
    /\ \A w \in Worker :
        /\ run[w].at \in Checked \cup {"idle", "move", "prompt", "guard", "capability"}
        /\ run[w].task \in Task \cup {NoTask}
        /\ run[w].claim \in Ownership
        /\ (run[w].task = NoTask) <=> (run[w].claim = NoClaim)
        /\ run[w].try \in 1..MaxRetries
        /\ run[w].got \in Result
        /\ run[w].lost \in BOOLEAN
    /\ launches \in [Task -> Nat]
    /\ sent \subseteq Claim /\ served \subseteq Claim /\ children \subseteq Claim
    /\ quarantine \in BOOLEAN
    /\ desk \in Request \cup {NoRequest}
    /\ cancelling \subseteq Task
    /\ asks \in 0..MaxAsks
    /\ edits \in [Task -> Nat]
    /\ faults \in 0..MaxFaults

Lane1(t) == profile[t].lane
Ledgered(t) == Exists(t) /\ Lane1(t) \in Lane
Dispatch(t) == ledger[t][Lane1(t)]

\* A dispatch that goes through the ledger reaches the outside at most once in
\* the life of its task, across lapsed leases, crashes, replayed requests and
\* requeued tasks ("automatic replay refused", execute.js and hermes.js).
OneLaunch == \A t \in Task : Ledgered(t) => launches[t] <= 1

\* A provider without a ledger row may be asked again, by the claim that asked
\* and by every later one, and still no more than MAX_RETRIES times for every
\* claim drawn: no lapsed lease, no retry written without naming its claim and
\* no worker that has lost its task asks once more (providerWithRetries).
CallsAreBounded == \A t \in Task : ~Ledgered(t) => launches[t] <= MaxRetries * issued

\* What the ledger says of a dispatch is true of the outside: a row that says
\* completed was executed, and a capability row that was never started was not.
LedgerIsTruthful ==
    \A t \in Task : Ledgered(t) =>
        /\ Dispatch(t).status = "none" => launches[t] = 0
        /\ Dispatch(t).status \in {"started", "completed"} => launches[t] = 1
        /\ (Lane1(t) # Codex /\ Dispatch(t).status = "dispatching") => launches[t] = 0

\* A task is reported completed only on a result of its own: stored in its
\* capability row, settled and billed for Codex, recorded for a provider in
\* line; and a mutation has been written to the workspace (processTask's exits).
CompletedIsEarned ==
    \A t \in Task : status[t] = "completed" =>
        /\ launches[t] > 0
        /\ Lane1(t) \in Capability => Dispatch(t).sealed
        /\ Lane1(t) = Codex => Dispatch(t).status = "completed" /\ t \in billed
        /\ Lane1(t) = Inline => recorded[t] > 0
        /\ profile[t].intent = "workspace_mutation" => edits[t] = 1

\* Artifacts of a task are written to the workspace at most once, although an
\* inline provider may be called again and two workers may both believe in
\* their claim (token check, recorded attempt, replay guard and gate together).
EditsAtMostOnce == \A t \in Task : edits[t] <= 1

\* "High-risk tasks pause before provider execution": nothing runs for a task
\* whose policy asks for approval until an administrator's approval is on record.
ApprovedBeforeLaunch ==
    \A t \in Task : (launches[t] > 0 /\ profile[t].decision = "approval_required") =>
        \E i \in 1..Len(approvals[t]) : approvals[t][i].status = "approved"

\* A task that policy denied never runs, whatever is asked for it afterwards.
DeniedNeverRuns ==
    \A t \in Task : (Exists(t) /\ profile[t].decision = "denied") =>
        status[t] \in {"failed", "cancelled"} /\ launches[t] = 0

\* At most one Codex process works in a workspace, and while one may be alive
\* the workspace is quarantined, its worker's crash included (providers.js).
CodexIsContained ==
    /\ children # {} => quarantine
    /\ \A c, d \in children : c = d

\* The tables behave as TaskEngine says, with these callers.
TablesRefined == EngineSpec

Settled(t) == status[t] \in {"waiting_for_approval", "waiting_for_manual_response",
                             "outcome_unknown", "completed", "failed", "cancelled"}

\* Every task comes to rest: completed, failed, cancelled, in doubt or waiting for
\* a person, whatever crashed and whatever was lost on the way, as long as no
\* emergency stop is on.
Settles == \A t \in Task : Exists(t) ~> (Settled(t) \/ stop)

\* Workers poll, handlers run, and the calls a worker waits for have deadlines;
\* time passes for the lease of a worker that is gone.
Fairness ==
    /\ \A w \in Worker : WF_vars(WorkerActs(w))
    /\ WF_vars(Handling /\ UNCHANGED <<workerVars, wireVars, codexVars, edits, faults>>)
    /\ \A t \in Task : WF_vars(Abandoned(t) /\ Lapse(t))

FairSpec == Spec /\ Fairness

-----------------------------------------------------------------------------
(* What the repository says and the code does not do                      *)

\* "once a decision exists, resuming the task reads that decision instead of
\* re-deciding": no worker adds a prompt to a task that has a decision.
NoFreshPrompt ==
    [][\A t \in Task :
        (\E i \in 1..Len(approvals[t]) : approvals[t][i].status \in Decision) =>
            ~(Len(approvals'[t]) > Len(approvals[t]) /\ approvals'[t][Len(approvals'[t])].ttl)]_vars

\* "manual-response waits remain durable until canonical ingestion or
\* cancellation".
ManualWaitDurable ==
    [][\A t \in Task : status[t] = "waiting_for_manual_response" =>
        status'[t] \in {"waiting_for_manual_response", "cancelled"}]_vars

=============================================================================
