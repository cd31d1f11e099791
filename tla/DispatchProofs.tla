--------------------------- MODULE DispatchProofs ---------------------------
(***************************************************************************)
(* What the command runtime does to the outside, proved for every set of    *)
(* tasks, workers and profiles and every bound: one launch for a dispatch,   *)
(* approval before it, one Codex process in the workspace, one write of the  *)
(* artifacts, a bounded number of calls, one holder of a claim, and a        *)
(* completion that has been earned.                                          *)
(***************************************************************************)
EXTENDS HermesProofs, FiniteSetTheorems

At(w) == run[w].at
Now(w) == run[w].step

Contains(w) == At(w) = "provider" /\ Now(w) \in {"spawn", "exec", "lift"}

-----------------------------------------------------------------------------
(* Where a worker is after a step                                          *)

\* The checks of the stop flag and the row are all that leads into the provider
\* phase from outside.
LEMMA WorkerLands ==
  ASSUME RunInv, EngineTypeOK, NEW w \in Worker, WorkerStep(w), At(w)' = "provider"
  PROVE  At(w) = "provider" /\ Keeps(w) /\ Now(w)' \in {"halt", "row", "go"}
<1> USE DEF At, Now
<1>1. CASE Poll(w) \/ Take(w)
  <2>1. At(w) = "idle" BY <1>1 DEF Poll, Take, Is
  <2>2. Takes(w) \/ Lands(w) BY WorkerMoves
  <2> QED BY <2>1, <2>2 DEF Takes, Lands, Idle
<1>2. CASE Return(w)
  <2>1. RunTyped BY DEF RunInv
  <2> QED BY <1>2, <2>1 DEF RunTyped, Return, Idle
<1>3. CASE \E s : Leave(w, s) BY <1>3, Moves
<1>4. CASE Precheck(w) BY <1>2, <1>4, Moves DEF Precheck, Is
<1>5. CASE StopFlag(w) BY <1>5, Moves DEF StopFlag
<1>6. CASE StopHalt(w) \/ StopRow(w)
  BY <1>2, <1>3, <1>6, Moves DEF StopHalt, StopRow, Stopped
<1>7. CASE Move(w) BY <1>2, <1>7 DEF Move
<1> QED BY <1>1, <1>4, <1>5, <1>6, <1>7 DEF WorkerStep

LEMMA CapabilityLands ==
  ASSUME RunInv, NEW w \in Worker, CapabilityStep(w)
  PROVE  At(w)' \in {"capability", "move", "idle"}
<1>1. Lands(w) BY CapabilityMoves
<1>2. At(w) = "capability"
  BY DEF At, CapabilityStep, CapIs, Is, CapOwn, CapFlag, CapRow, CapPrepare,
  CapRecover, CapRunning, CapOwnAgain, CapFlagAgain, CapRowAgain, CapCall, CapAnswer, CapOwnLast,
  CapFlagLast, CapRowLast, CapDiscard, CapRevoked, CapFinalize, CapSuperseded, CapDisown, CapCatch,
  CapCatchFlag, CapHalt, CapHalted, CapHaltUnowned, CapUnknown
<1>3. \A s : Step(w, s) => At(w)' = "capability" BY <1>2, Moves DEF At
<1>4. \A s : Leave(w, s) => At(w)' = "move" BY Moves DEF At
<1>5. Return(w) => At(w)' = "idle"
  BY DEF RunInv, RunTyped, Return, Idle, At
<1>6. CASE CapOwn(w) \/ CapFlag(w) \/ CapRow(w) \/ CapPrepare(w) \/ CapRecover(w) \/ CapRunning(w)
        \/ CapOwnAgain(w) \/ CapFlagAgain(w) \/ CapRowAgain(w) \/ CapCall(w) \/ CapAnswer(w)
        \/ CapOwnLast(w) \/ CapFlagLast(w)
  BY <1>3, <1>4, <1>5, <1>6 DEF Finish, CapOwn, CapFlag, CapRow, CapPrepare, CapRecover, CapRunning,
     CapOwnAgain, CapFlagAgain, CapRowAgain, CapCall, CapAnswer, CapOwnLast, CapFlagLast
<1>7. CASE CapRowLast(w) \/ CapDiscard(w) \/ CapRevoked(w) \/ CapFinalize(w) \/ CapSuperseded(w)
        \/ CapDisown(w) \/ CapCatch(w) \/ CapCatchFlag(w) \/ CapHalt(w) \/ CapHalted(w)
        \/ CapHaltUnowned(w) \/ CapUnknown(w)
  BY <1>3, <1>4, <1>5, <1>7 DEF Finish, CapRowLast, CapDiscard, CapRevoked, CapFinalize, CapSuperseded,
     CapDisown, CapCatch, CapCatchFlag, CapHalt, CapHalted, CapHaltUnowned, CapUnknown
<1> QED BY <1>6, <1>7 DEF CapabilityStep

\* Within the pipeline, and from it into the provider phase.
LEMMA PipelineLands ==
  ASSUME RunInv, NEW w \in Worker, Pipeline(w) \/ ApplyEdits(w), At(w)' = "provider"
  PROVE  At(w) = "select_provider" /\ Keeps(w) /\ Now(w)' = "flag"
<1> USE DEF At, Now
<1>1. At(w) # "provider" \/ AfterProvider(w)
  BY DEF Pipeline, ApplyEdits, EvaluateApproval, PromptFinds, PromptInserts, PromptParks,
     GuardRow, GuardWorkspace, GuardControls, MarkRunning, StageBeats, PassGate, Is, Stages
<1>2. ~Return(w)
  BY DEF RunInv, RunTyped, Return, Idle
<1>3. \A s : ~Leave(w, s) BY Moves
<1>4. ASSUME NEW s, Step(w, s) PROVE AfterProvider(w) BY <1>1, <1>4, Moves
<1>5. \A p \in Points \ {"provider"} : \A s : ~To(w, p, s) BY Moves
<1>6. CASE StageBeats(w)
  <2>1. \/ \E p \in Points \ {"provider"} : \E s : To(w, p, s)
        \/ At(w) = "select_provider" /\ To(w, "provider", "flag")
    BY <1>3, <1>6 DEF StageBeats, Stages, Following, Points, Checked
  <2>2. "provider" \in Points BY Places
  <2> QED BY <1>5, <2>1, <2>2, Moves
<1>7. CASE EvaluateApproval(w) \/ PromptFinds(w) \/ PromptInserts(w) \/ PromptParks(w)
        \/ GuardRow(w) \/ GuardWorkspace(w) \/ GuardControls(w) \/ MarkRunning(w)
        \/ AfterProvider(w) \/ PassGate(w) \/ ApplyEdits(w)
  <2>1. {"capability", "guard", "prompt", "inspect_workspace", "decompose", "summarize", "gate",
         "apply_edits", "validate"} \subseteq Points \ {"provider"}
    BY DEF Points, Checked, Stages
  <2>2. ~AfterProvider(w) BY <1>3, <1>5, <2>1 DEF AfterProvider
  <2>3. ~(EvaluateApproval(w) \/ PromptFinds(w) \/ PromptInserts(w) \/ PromptParks(w))
    BY <1>2, <1>3, <1>4, <1>5, <2>1, <2>2 DEF EvaluateApproval, PromptFinds, PromptInserts, PromptParks
  <2>4. ~(GuardRow(w) \/ GuardWorkspace(w) \/ GuardControls(w) \/ MarkRunning(w) \/ PassGate(w) \/ ApplyEdits(w))
    BY <1>3, <1>4, <1>5, <2>1, <2>2 DEF GuardRow, GuardWorkspace, GuardControls, MarkRunning, PassGate, ApplyEdits
  <2> QED BY <1>7, <2>2, <2>3, <2>4
<1> QED BY <1>6, <1>7 DEF Pipeline

\* So a worker is in the middle of the provider phase by a step of that phase.
LEMMA Inside ==
  ASSUME RunInv, EngineTypeOK, NEW w \in Worker, WorkerActs(w), ~ProviderStep(w), At(w)' = "provider"
  PROVE  Now(w)' \in {"flag", "halt", "row", "go"}
  BY WorkerLands, CapabilityLands, PipelineLands DEF WorkerActs, Works

LEMMA InProvider == ASSUME NEW w \in Worker, ProviderStep(w) PROVE At(w) = "provider"
  BY DEF At, ProviderStep, ProvIs, Is, ProvRow, ProvWorkspace, ProvControls, ProvReplay, ProvPrepare, ProvRecover,
  ProvRenew, ProvLease, ProvQuarantine, ProvSpawn, ProvExec, ProvLift, ProvCall, ProvAnswer, ProvToken,
  ProvRecord, ProvRecorded, ProvRetry

\* A step of the provider phase stays in it, or leaves the task.
LEMMA ProviderLands ==
  ASSUME RunInv, NEW w \in Worker, ProviderStep(w)
  PROVE  At(w)' \in {"provider", "move", "idle"}
<1>1. At(w) = "provider" BY InProvider
<1> USE DEF At
<1>2. \A s : Step(w, s) => At(w)' = "provider" BY <1>1, Moves
<1>3. \A r \in Result : \A s : Got(w, r, s) => At(w)' = "provider" BY <1>1, Moves
<1>4. \A s : Leave(w, s) => At(w)' = "move" BY Moves
<1>5. Return(w) => At(w)' = "idle" BY DEF RunInv, RunTyped, Return, Idle
<1>6. {"ok", "failed", "unknown", "handed_off"} \subseteq Result BY DEF Result
<1>7. CASE ProvRow(w) \/ ProvWorkspace(w) \/ ProvControls(w) \/ ProvReplay(w) \/ ProvPrepare(w) \/ ProvRecover(w)
        \/ ProvRenew(w) \/ ProvToken(w) \/ ProvRecord(w) \/ ProvRecorded(w) \/ ProvCall(w)
  <2>1. Return(w) \/ \E s : Step(w, s) \/ Leave(w, s)
    BY <1>7 DEF ProvRow, ProvWorkspace, ProvControls, ProvReplay, ProvPrepare, ProvRecover, ProvRenew, ProvToken,
       ProvRecord, ProvRecorded, ProvCall
  <2> QED BY <1>2, <1>4, <1>5, <2>1
<1>8. CASE ProvLease(w) BY <1>1, <1>8 DEF ProvLease, RunInv, RunTyped, Record
<1>9. CASE ProvQuarantine(w) \/ ProvSpawn(w) \/ ProvExec(w) \/ ProvLift(w) \/ ProvAnswer(w)
  <2>1. \E s : Step(w, s) \/ \E r \in Result : Got(w, r, s)
    BY <1>6, <1>9 DEF ProvQuarantine, ProvSpawn, ProvExec, ProvLift, ProvAnswer
  <2> QED BY <1>2, <1>3, <2>1
<1>10. CASE ProvRetry(w) BY <1>1, <1>4, <1>10 DEF ProvRetry, RunInv, RunTyped, Record
<1> QED BY <1>7, <1>8, <1>9, <1>10 DEF ProviderStep

\* The steps of a worker are its own.
LEMMA Others ==
  ASSUME RunInv, EngineTypeOK, NEW w \in Worker, WorkerActs(w) \/ Dies(w)
  PROVE  RunTyped' /\ \A v \in Worker \ {w} : run'[v] = run[v]
  BY WorksMoves, Returns DEF Takes, Lands, Only, Dies

-----------------------------------------------------------------------------
(* Codex in the workspace                                                  *)

Contained ==
    /\ CodexIsContained
    /\ \A w \in Worker : Contains(w) =>
          /\ quarantine
          /\ \A c \in children : Now(w) = "exec" /\ c = Held(w)
          /\ \A v \in Worker : Contains(v) => v = w

\* What a worker's step does to the process and the quarantine.
CodexMoves(w) ==
    \/ UNCHANGED codexVars /\ ~Contains(w)'
    \/ UNCHANGED codexVars /\ Contains(w) /\ Keeps(w) /\ Now(w)' = Now(w)
    \/ ~quarantine /\ quarantine' /\ UNCHANGED children /\ Now(w)' = "spawn" /\ ~Contains(w)
    \/ /\ Contains(w) /\ Now(w) = "spawn" /\ UNCHANGED quarantine
       /\ \/ children' = children \cup {Held(w)} /\ Keeps(w) /\ Now(w)' = "exec"
          \/ UNCHANGED children /\ (~Contains(w)' \/ Now(w)' = "lift")
    \/ /\ Contains(w) /\ Now(w) = "exec" /\ UNCHANGED quarantine
       /\ \/ children' = children \ {Held(w)} /\ (~Contains(w)' \/ Now(w)' = "lift")
          \/ UNCHANGED children /\ ~Contains(w)'
    \/ /\ Contains(w) /\ Now(w) = "lift" /\ UNCHANGED children
       /\ ~quarantine' /\ ~Contains(w)'

LEMMA CodexStep ==
  ASSUME RunInv, EngineTypeOK, NEW w \in Worker, WorkerActs(w)
  PROVE  CodexMoves(w)
<1> USE DEF At, Now, Contains
<1>1. CASE ~ProviderStep(w)
  <2>1. ~Contains(w)' BY <1>1, Inside
  <2>2. UNCHANGED codexVars
    BY <1>1 DEF WorkerActs, Works, WorkerStep, Pipeline, ApplyEdits, EvaluateApproval, PromptFinds,
       PromptInserts, PromptParks, GuardRow, GuardWorkspace, GuardControls, MarkRunning, StageBeats, AfterProvider,
       PassGate, Outside
  <2> QED BY <2>1, <2>2 DEF CodexMoves
<1>2. \A s : Step(w, s) => Keeps(w) /\ At(w)' = At(w) /\ Now(w)' = s BY Moves
<1>3. \A r \in Result : \A s : Got(w, r, s) => Keeps(w) /\ At(w)' = At(w) /\ Now(w)' = s BY Moves
<1>4. \A s : Leave(w, s) => At(w)' = "move" BY Moves
<1>5. Return(w) => At(w)' = "idle" BY DEF RunInv, RunTyped, Return, Idle
<1>6. {"ok", "failed", "unknown", "handed_off"} \subseteq Result BY DEF Result
<1>7. CASE ProvRow(w) \/ ProvWorkspace(w) \/ ProvControls(w) \/ ProvReplay(w) \/ ProvPrepare(w) \/ ProvRecover(w)
        \/ ProvRenew(w)
  <2>1. \/ Return(w) \/ \E s : Leave(w, s)
        \/ \E s \in {"workspace", "controls", "prepare", "replay", "renew", "recover", "quarantine", "call"} : Step(w, s)
    BY <1>7 DEF ProvRow, ProvWorkspace, ProvControls, ProvReplay, ProvPrepare, ProvRecover, ProvRenew
  <2>2. UNCHANGED codexVars
    BY <1>7 DEF Calm, codexVars, ProvRow, ProvWorkspace, ProvControls, ProvReplay, ProvPrepare, ProvRecover, ProvRenew
  <2>3. ~Contains(w)' BY <1>2, <1>4, <1>5, <2>1
  <2> QED BY <2>2, <2>3 DEF CodexMoves
<1>8. CASE ProvLease(w)
  <2>1. Keeps(w) /\ At(w)' = At(w) /\ Now(w)' = Now(w)
    BY <1>8 DEF ProvLease, RunInv, RunTyped, Record, Keeps
  <2> QED BY <1>8, <2>1 DEF CodexMoves, codexVars, ProvLease
<1>9. CASE ProvQuarantine(w) \/ ProvSpawn(w)
  BY <1>2, <1>3, <1>6, <1>9 DEF CodexMoves, codexVars, ProvIs, Is, ProvQuarantine, ProvSpawn
<1>10. CASE ProvExec(w) \/ ProvLift(w)
  BY <1>2, <1>3, <1>6, <1>10 DEF CodexMoves, codexVars, ProvIs, Is, ProvExec, ProvLift
<1>11. CASE ProvCall(w) \/ ProvAnswer(w) \/ ProvToken(w) \/ ProvRecord(w) \/ ProvRecorded(w)
  BY <1>2, <1>3, <1>4, <1>5, <1>6, <1>11 DEF CodexMoves, Calm, codexVars, ProvCall, ProvAnswer, ProvToken,
     ProvRecord, ProvRecorded
<1>12. CASE ProvRetry(w)
  <2>1. Leave(w, "failed") \/ Now(w)' = "flag"
    BY <1>12 DEF ProvRetry, RunInv, RunTyped, Record
  <2> QED BY <1>4, <1>12, <2>1 DEF CodexMoves, codexVars, ProvRetry
<1> QED BY <1>1, <1>7, <1>8, <1>9, <1>10, <1>11, <1>12 DEF ProviderStep

LEMMA ContainedStep ==
  ASSUME RunInv, EngineTypeOK, Contained, [Next]_vars
  PROVE  Contained'
<1> USE DEF Contained, CodexIsContained
<1>1. ASSUME NEW w \in Worker, WorkerActs(w) PROVE Contained'
  <2>1. \A v \in Worker \ {w} : run'[v] = run[v] BY <1>1, Others
  <2>2. \A v \in Worker \ {w} : (Contains(v)' <=> Contains(v)) /\ Now(v)' = Now(v) /\ Held(v)' = Held(v)
    BY <2>1 DEF Contains, At, Now, Held
  <2>3. Keeps(w) => Held(w)' = Held(w) BY DEF Keeps, Held
  <2>5. CodexMoves(w) BY <1>1, CodexStep
  <2>6. CASE UNCHANGED codexVars /\ (~Contains(w)' \/ (Contains(w) /\ Keeps(w) /\ Now(w)' = Now(w)))
    BY <2>2, <2>3, <2>6 DEF codexVars
  <2>7. CASE ~quarantine /\ quarantine' /\ UNCHANGED children /\ Now(w)' = "spawn" /\ ~Contains(w)
    BY <2>2, <2>7
  <2>8. CASE Contains(w) /\ Now(w) = "spawn" /\ UNCHANGED quarantine
    BY <2>2, <2>3, <2>5, <2>8 DEF CodexMoves, codexVars
  <2>9. CASE Contains(w) /\ Now(w) = "exec" /\ UNCHANGED quarantine
    BY <2>2, <2>3, <2>5, <2>9 DEF CodexMoves, codexVars
  <2>10. CASE Contains(w) /\ Now(w) = "lift" /\ UNCHANGED children /\ ~quarantine' /\ ~Contains(w)'
    BY <2>2, <2>10
  <2> QED BY <2>5, <2>6, <2>7, <2>8, <2>9, <2>10 DEF CodexMoves
<1>2. ASSUME NEW w \in Worker, Dies(w), UNCHANGED codexVars PROVE Contained'
  <2>1. ~Contains(w)' BY <1>2 DEF Dies, Return, Idle, RunInv, RunTyped, Contains, At
  <2>2. \A v \in Worker \ {w} : run'[v] = run[v] BY <1>2, Others
  <2> QED BY <1>2, <2>1, <2>2 DEF Contains, At, Now, Held, codexVars
<1>3. CASE Settle
  <2>1. UNCHANGED run BY <1>3 DEF Settle, OrphanExits, OperatorLifts, workerVars
  <2>2. CASE OperatorLifts BY <2>1, <2>2 DEF OperatorLifts, Contains, At, Now
  <2>3. CASE \E c \in Claim : OrphanExits(c)
    BY <2>1, <2>3 DEF OrphanExits, Contains, At, Now, Held
  <2> QED BY <1>3, <2>2, <2>3 DEF Settle
<1>4. CASE UNCHANGED <<run, codexVars>>
  BY <1>4 DEF Contains, At, Now, Held, codexVars
<1>5. \/ \E w \in Worker : WorkerActs(w) \/ (Dies(w) /\ UNCHANGED codexVars)
      \/ Settle
      \/ UNCHANGED <<run, codexVars>>
  BY DEF Next, vars, workerVars, codexVars, Submit, Clock, Lapse, Receive, Serve, Drop, Govern, Fault
<1> QED BY <1>1, <1>2, <1>3, <1>4, <1>5

\* At most one Codex process works in a workspace, and while one may be alive the
\* workspace is quarantined, whatever dies in between (providers.js).
THEOREM CodexStaysContained == Spec => []CodexIsContained
<1>1. Init => Contained
  BY DEF Init, WorkerInit, CodexInit, Idle, Contained, CodexIsContained, Contains, At
<1>2. EngineTypeOK /\ RunInv /\ Contained /\ [Next]_vars => Contained' BY ContainedStep
<1>3. Contained => CodexIsContained BY DEF Contained
<1> QED BY <1>1, <1>2, <1>3, CallersSafe, PTL DEF Spec

-----------------------------------------------------------------------------
(* Who may touch the ledger                                                *)

Booked(t, l) == ledger[t][l].status # "none"
Kind(w) == profile[Mine(w)].lane

\* The steps between the row a worker booked and what it makes of the answer.
CapabilityCarries == {"running", "own again", "flag again", "row again", "call", "wait", "own last",
                      "flag last", "row last", "discard", "revoked", "finalize"}
CodexCarries == {"renew", "quarantine", "spawn", "exec", "lift", "token", "record", "recorded", "done"}

Carrying(r, lane) ==
    \/ r.at = "capability" /\ r.step \in CapabilityCarries
    \/ lane = Codex /\ r.at = "provider" /\ r.step \in CodexCarries
    \/ lane = Codex /\ r.at \in {"gate", "apply_edits"}

Carries(w) == Carrying(run[w], Kind(w))

Books(w) ==
    /\ At(w) \in {"capability", "provider"}
    /\ Kind(w) \in Lane
    /\ Prepare(Mine(w), Kind(w), Held(w), Kind(w) # Codex)

\* A dispatch is settled as completed only after an answer.
Answered(w) ==
    \/ At(w) = "capability" /\ Now(w) \in {"discard", "revoked"}
    \/ At(w) = "provider" /\ Now(w) = "record" /\ run[w].got = "ok"

Concludes(w) ==
    \E s \in Terminal :
        /\ s = "completed" => Answered(w)
        /\ \/ At(w) = "provider" /\ Kind(w) = Codex /\ FinishCodex(Mine(w), s)
           \/ At(w) = "capability" /\ FinishCapability(Mine(w), Kind(w), s)

Seals(w) ==
    /\ At(w) = "capability" /\ Now(w) = "finalize"
    /\ Finalize(Mine(w), Kind(w), Held(w))

LEMMA InCapability == ASSUME NEW w \in Worker, CapabilityStep(w) PROVE At(w) = "capability"
  BY DEF At, CapabilityStep, CapIs, Is, CapOwn, CapFlag, CapRow, CapPrepare,
  CapRecover, CapRunning, CapOwnAgain, CapFlagAgain, CapRowAgain, CapCall, CapAnswer, CapOwnLast,
  CapFlagLast, CapRowLast, CapDiscard, CapRevoked, CapFinalize, CapSuperseded, CapDisown, CapCatch,
  CapCatchFlag, CapHalt, CapHalted, CapHaltUnowned, CapUnknown

LEMMA WorkerLedger ==
  ASSUME RunInv, NEW w \in Worker, WorkerActs(w)
  PROVE  UNCHANGED ledger \/ Books(w) \/ Concludes(w) \/ Seals(w)
<1> USE DEF At, Now, Kind
<1>1. CASE WorkerStep(w) \/ Pipeline(w) \/ ApplyEdits(w)
  BY <1>1 DEF WorkerStep, Poll, Take, ClaimNext, Precheck, StopFlag, StopHalt, StopRow, Move, Transition,
     Pipeline, ApplyEdits, EvaluateApproval, PromptFinds, PromptInserts, CreateApproval, PromptParks,
     GuardRow, GuardWorkspace, GuardControls, MarkRunning, StageBeats, Heartbeat, AfterProvider, PassGate,
     engineVars, ledgerVars
<1>2. CASE CapabilityStep(w)
  <2>1. At(w) = "capability" /\ Cap(w) \in Capability /\ Kind(w) \in Lane /\ Kind(w) # Codex
    BY <1>2, InCapability, EngineAssumption DEF RunInv, OnLane, Cap, Lane
  <2>2. {"completed", "outcome_unknown"} \subseteq Terminal /\ "completed" # "outcome_unknown" BY DEF Terminal
  <2>3. CASE CapPrepare(w) BY <2>1, <2>3 DEF CapPrepare, Books, Cap, engineVars, ledgerVars
  <2>4. CASE CapFinalize(w) BY <2>1, <2>4 DEF CapFinalize, CapIs, Is, Seals, Cap, engineVars, ledgerVars
  <2>5. CASE CapDiscard(w) \/ CapRevoked(w)
    BY <2>1, <2>2, <2>5 DEF CapDiscard, CapRevoked, CapIs, Is, Finish, Concludes, Answered, Cap, engineVars, ledgerVars
  <2>6. CASE CapRecover(w) \/ CapSuperseded(w) \/ CapHalt(w) \/ CapUnknown(w)
    BY <2>1, <2>2, <2>6 DEF CapRecover, CapSuperseded, CapHalt, CapUnknown, Finish, Concludes, Cap, engineVars, ledgerVars
  <2>7. CASE CapRunning(w) \/ CapDisown(w) \/ CapHaltUnowned(w)
    BY <2>7 DEF CapRunning, CapDisown, CapHaltUnowned, Transition, ledgerVars
  <2>8. CASE CapOwn(w) \/ CapFlag(w) \/ CapRow(w) \/ CapOwnAgain(w) \/ CapFlagAgain(w) \/ CapRowAgain(w)
          \/ CapCall(w) \/ CapAnswer(w) \/ CapOwnLast(w) \/ CapFlagLast(w) \/ CapRowLast(w)
          \/ CapCatch(w) \/ CapCatchFlag(w) \/ CapHalted(w)
    BY <2>8 DEF Quiet, CapOwn, CapFlag, CapRow, CapOwnAgain, CapFlagAgain, CapRowAgain, CapCall, CapAnswer,
       CapOwnLast, CapFlagLast, CapRowLast, CapCatch, CapCatchFlag, CapHalted, engineVars, ledgerVars
  <2> QED BY <1>2, <2>3, <2>4, <2>5, <2>6, <2>7, <2>8 DEF CapabilityStep
<1>3. CASE ProviderStep(w)
  <2>1. At(w) = "provider" /\ Codex \in Lane BY <1>3, InProvider DEF Lane
  <2>2. CASE ProvPrepare(w)
    <3>1. Kind(w) = Codex BY <2>2 DEF ProvPrepare, ProvIs, Is, RunInv, OnLane, CodexSteps, Provider
    <3> QED BY <2>1, <2>2, <3>1 DEF ProvPrepare, Books, engineVars, ledgerVars
  <2>3. CASE ProvRecover(w)
    <3>1. Kind(w) = Codex BY <2>3 DEF ProvRecover, ProvIs, Is, RunInv, OnLane, CodexSteps, Provider
    <3> QED BY <2>1, <2>3, <3>1 DEF ProvRecover, Concludes, Terminal, engineVars, ledgerVars
  <2>4. CASE ProvRecord(w)
    <3>1. CASE Provider(w) = Codex
      <4>1. run[w].got \in Result /\ run[w].got \notin {"none", "handed_off"} /\ Now(w) = "record"
        BY <2>1, <2>4, <3>1 DEF RunInv, RunTyped, Record, Writes, ProvRecord, ProvIs, Is
      <4>2. Outcome(w) \in Terminal /\ (Outcome(w) = "completed" => run[w].got = "ok")
        BY <4>1 DEF Outcome, Result, Terminal
      <4> QED BY <2>1, <2>4, <3>1, <4>1, <4>2 DEF ProvRecord, Provider, Concludes, Answered, engineVars, ledgerVars
    <3>2. CASE Provider(w) # Codex
      BY <2>4, <3>2 DEF ProvRecord, RecordAttempt, engineVars, ledgerVars
    <3> QED BY <3>1, <3>2
  <2>5. CASE ProvRenew(w) \/ ProvLease(w) \/ ProvRetry(w)
    BY <2>5 DEF ProvRenew, ProvLease, ProvRetry, Heartbeat, Transition, ledgerVars
  <2>6. CASE ProvRow(w) \/ ProvWorkspace(w) \/ ProvControls(w) \/ ProvReplay(w) \/ ProvQuarantine(w) \/ ProvSpawn(w)
        \/ ProvExec(w) \/ ProvLift(w) \/ ProvCall(w) \/ ProvAnswer(w) \/ ProvToken(w) \/ ProvRecorded(w)
    BY <2>6 DEF Calm, ProvRow, ProvWorkspace, ProvControls, ProvReplay, ProvQuarantine, ProvSpawn, ProvExec,
       ProvLift, ProvCall, ProvAnswer, ProvToken, ProvRecorded, engineVars, ledgerVars
  <2> QED BY <1>3, <2>2, <2>3, <2>4, <2>5, <2>6 DEF ProviderStep
<1> QED BY <1>1, <1>2, <1>3 DEF WorkerActs, Works

LEMMA RuntimeLedgerStep ==
  ASSUME RunInv, [Next]_vars
  PROVE  \/ UNCHANGED ledger
         \/ \E w \in Worker : WorkerActs(w) /\ (Books(w) \/ Concludes(w) \/ Seals(w))
         \/ \E c \in Claim : Receive(c) /\ Serve(c)
<1>1. \/ UNCHANGED ledger
      \/ \E w \in Worker : WorkerActs(w)
      \/ \E c \in Claim : Receive(c)
      \/ Govern
  BY DEF Next, vars, engineVars, ledgerVars, Submit, CreateTask, Clock, ApprovalGoesCold, Lapse, LeaseExpires,
     Settle, OrphanExits, OperatorLifts, Fault
<1>2. CASE Govern
  <2>1. CASE Asking
    BY <2>1 DEF Asking, Approve, Pause, Resume, Reject, CancelLooks, EmergencyStop, SetStop, engineVars, ledgerVars
  <2>2. CASE Handling
    BY <2>2 DEF Handling, FindPending, InsertRow, CreateApproval, DecideRow, DecideApproval, Apply, Transition,
       CancelApplies, engineVars, ledgerVars
  <2> QED BY <1>2, <2>1, <2>2 DEF Govern
<1>3. ASSUME NEW c \in Claim, Receive(c) PROVE UNCHANGED ledger \/ Serve(c)
  BY <1>3 DEF Receive, Drop, engineVars, ledgerVars
<1> QED BY <1>1, <1>2, <1>3, WorkerLedger

\* What each of them does to its row.
LEMMA RowWrites ==
  ASSUME EngineTypeOK, NEW t \in Task, NEW l \in Lane
  PROVE  /\ \A own \in Ownership, r \in BOOLEAN : Prepare(t, l, own, r) =>
               /\ Alone(t, l) /\ ledger[t][l].status = "none"
               /\ ledger'[t][l].status = "dispatching" /\ ledger'[t][l].by = own
               /\ ledger'[t][l].receiver = r
         /\ \A s \in Terminal : (l = Codex /\ FinishCodex(t, s)) \/ FinishCapability(t, l, s) =>
               /\ Alone(t, l) /\ ledger[t][l].status \in Open
               /\ ledger'[t][l].status = s /\ ledger'[t][l].by = ledger[t][l].by
               /\ ledger'[t][l].receiver = ledger[t][l].receiver
         /\ \A own \in Ownership : Finalize(t, l, own) =>
               /\ Alone(t, l) /\ ledger[t][l].status \in Open
               /\ ledger[t][l].receiver => ledger[t][l].status = "started"
               /\ ledger'[t][l].status = "completed" /\ ledger'[t][l].by = ledger[t][l].by
               /\ ledger'[t][l].receiver = ledger[t][l].receiver
         /\ Consume(t, l) =>
               /\ Alone(t, l) /\ ledger[t][l].status = "dispatching"
               /\ ledger'[t][l].status = "started" /\ ledger'[t][l].by = ledger[t][l].by
               /\ ledger'[t][l].receiver = ledger[t][l].receiver
<1> USE DEF Alone
<1>0. /\ ledger \in [Task -> [Lane -> Row]]
      /\ \A u \in Task, m \in Lane : ledger[u][m] \in Row
  BY DEF EngineTypeOK
<1>1. ASSUME NEW own \in Ownership, NEW r \in BOOLEAN, Prepare(t, l, own, r)
      PROVE  /\ Alone(t, l) /\ ledger[t][l].status = "none"
             /\ ledger'[t][l].status = "dispatching" /\ ledger'[t][l].by = own
             /\ ledger'[t][l].receiver = r
  BY <1>0, <1>1 DEF Prepare
<1>2. ASSUME NEW s \in Terminal, (l = Codex /\ FinishCodex(t, s)) \/ FinishCapability(t, l, s)
      PROVE  /\ Alone(t, l) /\ ledger[t][l].status \in Open
             /\ ledger'[t][l].status = s /\ ledger'[t][l].by = ledger[t][l].by
             /\ ledger'[t][l].receiver = ledger[t][l].receiver
  BY <1>0, <1>2 DEF FinishCodex, FinishCapability, InFlight, Row
<1>3. ASSUME NEW own \in Ownership, Finalize(t, l, own)
      PROVE  /\ Alone(t, l) /\ ledger[t][l].status \in Open
             /\ ledger[t][l].receiver => ledger[t][l].status = "started"
             /\ ledger'[t][l].status = "completed" /\ ledger'[t][l].by = ledger[t][l].by
             /\ ledger'[t][l].receiver = ledger[t][l].receiver
  BY <1>0, <1>3 DEF Finalize, MayFinalize, InFlight, Row, Open
<1>4. ASSUME Consume(t, l)
      PROVE  /\ Alone(t, l) /\ ledger[t][l].status = "dispatching"
             /\ ledger'[t][l].status = "started" /\ ledger'[t][l].by = ledger[t][l].by
             /\ ledger'[t][l].receiver = ledger[t][l].receiver
  BY <1>0, <1>4 DEF Consume, Row
<1> QED BY <1>1, <1>2, <1>3, <1>4

\* A row is carried by whoever booked it.
LEMMA CarriedOn ==
  ASSUME RunInv, EngineTypeOK, NEW w \in Worker, WorkerActs(w), Carrying(run'[w], Kind(w))
  PROVE  Keeps(w) /\ (Carries(w) \/ Books(w))
<1>0. /\ At(w)' \in {"capability", "provider", "gate", "apply_edits"}
      /\ At(w)' = "capability" => Now(w)' \in CapabilityCarries
      /\ At(w)' = "provider" => Now(w)' \in CodexCarries
      /\ At(w)' # "capability" => Kind(w) = Codex
  BY DEF At, Now, Carrying
<1>1. /\ At(w) = "capability" /\ Now(w) \in CapabilityCarries => Carries(w)
      /\ At(w) = "provider" /\ Now(w) \in CodexCarries /\ Kind(w) = Codex => Carries(w)
      /\ At(w) \in {"gate", "apply_edits"} /\ Kind(w) = Codex => Carries(w)
  BY DEF At, Now, Carrying, Carries
<1> USE DEF At, Now
<1>2. ~Return(w) BY <1>0 DEF RunInv, RunTyped, Return, Idle
<1>3. \A s : ~Leave(w, s) BY <1>0, Moves
<1>4. \A s : Step(w, s) => Keeps(w) /\ At(w)' = At(w) /\ Now(w)' = s BY Moves
<1>5. CASE WorkerStep(w)
  <2>1. ~Poll(w) /\ ~Take(w)
    <3>1. Poll(w) \/ Take(w) => At(w) = "idle" BY DEF Poll, Take, Is
    <3>2. Takes(w) \/ Lands(w) BY <1>5, WorkerMoves
    <3> QED BY <1>0, <3>1, <3>2 DEF Takes, Lands, Idle
  <2>2. ~Precheck(w) BY <1>0, <1>2, <1>3, <1>4 DEF Precheck, Is
  <2>3. ~Move(w) BY <1>2 DEF Move
  <2>4. StopFlag(w) \/ StopHalt(w) \/ StopRow(w) =>
          /\ Keeps(w) /\ At(w)' = At(w) /\ Now(w)' \in {"halt", "row", "go"} /\ At(w) \in Checked
    BY <1>2, <1>3, <1>4 DEF StopFlag, StopHalt, StopRow, Stopped
  <2>5. StopFlag(w) \/ StopHalt(w) \/ StopRow(w) BY <1>5, <2>1, <2>2, <2>3 DEF WorkerStep
  <2>6. "capability" \notin Checked BY DEF Checked, Stages
  <2> QED BY <1>0, <1>1, <2>4, <2>5, <2>6 DEF CodexCarries
<1>6. CASE CapabilityStep(w)
  <2>1. At(w) = "capability" BY <1>6, InCapability
  <2>2. Keeps(w) BY <1>0, <1>6, CapabilityMoves DEF Lands, Idle
  <2>3. Now(w)' \in CapabilityCarries BY <1>0, <1>6, CapabilityLands
  <2>4. \A s : Step(w, s) => s \in CapabilityCarries BY <1>4, <2>3
  <2>5. CASE CapPrepare(w)
    <3>1. Cap(w) \in Capability /\ Kind(w) = Cap(w) /\ Kind(w) # Codex /\ Kind(w) \in Lane
      BY <2>1, EngineAssumption DEF RunInv, OnLane, Cap, Lane, Kind
    <3>2. "recover" \notin CapabilityCarries BY DEF CapabilityCarries
    <3>3. ~Step(w, "recover") BY <2>4, <3>2
    <3> QED BY <1>3, <2>1, <2>2, <2>5, <3>1, <3>3 DEF CapPrepare, Books
  <2>6. /\ ~Step(w, "flag") /\ ~Step(w, "row") /\ ~Step(w, "prepare") /\ ~Step(w, "halt unowned")
        /\ ~Step(w, "halt") /\ ~Step(w, "error flag") /\ ~Step(w, "unknown") /\ ~Step(w, "halted")
        /\ ~Step(w, "disown") /\ ~Step(w, "error")
    <3>1. /\ "flag" \notin CapabilityCarries /\ "row" \notin CapabilityCarries
          /\ "prepare" \notin CapabilityCarries /\ "halt unowned" \notin CapabilityCarries
          /\ "halt" \notin CapabilityCarries /\ "error flag" \notin CapabilityCarries
          /\ "unknown" \notin CapabilityCarries /\ "halted" \notin CapabilityCarries
          /\ "disown" \notin CapabilityCarries /\ "error" \notin CapabilityCarries
      BY DEF CapabilityCarries
    <3> QED BY <2>4, <3>1
  <2>7. ~CapOwn(w) /\ ~CapFlag(w) /\ ~CapRow(w) /\ ~CapRecover(w) /\ ~CapDisown(w)
    BY <1>2, <1>3, <2>6 DEF CapOwn, CapFlag, CapRow, CapRecover, CapDisown, Finish
  <2>8. ~CapHaltUnowned(w) /\ ~CapUnknown(w) /\ ~CapHalted(w)
    BY <1>2, <1>3, <2>6 DEF CapHaltUnowned, CapUnknown, CapHalted, Finish
  <2>10. ~CapCatch(w) /\ ~CapCatchFlag(w) /\ ~CapHalt(w) /\ ~CapSuperseded(w)
    BY <1>2, <1>3, <2>6 DEF CapCatch, CapCatchFlag, CapHalt, CapSuperseded, Finish
  <2>9. CASE CapRunning(w) \/ CapOwnAgain(w) \/ CapFlagAgain(w) \/ CapRowAgain(w) \/ CapCall(w) \/ CapAnswer(w)
          \/ CapOwnLast(w) \/ CapFlagLast(w) \/ CapRowLast(w) \/ CapDiscard(w) \/ CapRevoked(w) \/ CapFinalize(w)
    <3>1. Now(w) \in CapabilityCarries
      BY <2>9 DEF CapIs, Is, CapRunning, CapOwnAgain, CapFlagAgain, CapRowAgain, CapCall, CapAnswer,
       CapOwnLast, CapFlagLast, CapRowLast, CapDiscard, CapRevoked, CapFinalize, CapabilityCarries
    <3> QED BY <1>1, <2>1, <2>2, <3>1
  <2> QED BY <1>6, <2>5, <2>7, <2>8, <2>9, <2>10 DEF CapabilityStep
<1>7. CASE ProviderStep(w)
  <2>1. At(w) = "provider" BY <1>7, InProvider
  <2>2. Keeps(w) BY <1>0, <1>7, ProviderMoves DEF Lands, Idle
  <2>3. At(w)' = "provider"
    <3>1. At(w)' # "capability" /\ At(w)' \notin {"gate", "apply_edits"} BY <1>7, ProviderLands
    <3> QED BY <1>0, <3>1
  <2>4. Kind(w) = Codex /\ Now(w)' \in CodexCarries BY <1>0, <2>3
  <2>5. \A s : Step(w, s) => s \in CodexCarries BY <1>4, <2>4
  <2>6. CASE ProvPrepare(w)
    <3>1. ~Step(w, "recover") BY <2>5 DEF CodexCarries
    <3> QED BY <1>3, <2>1, <2>2, <2>4, <2>6, <3>1 DEF ProvPrepare, Books, Lane
  <2>7. CASE ProvRenew(w) \/ ProvLease(w) \/ ProvQuarantine(w) \/ ProvSpawn(w) \/ ProvExec(w) \/ ProvLift(w)
          \/ ProvToken(w) \/ ProvRecord(w) \/ ProvRecorded(w)
    <3>1. Now(w) \in CodexCarries
      BY <2>1, <2>4, <2>7 DEF ProvIs, Is, ProvRenew, ProvLease, ProvQuarantine, ProvSpawn, ProvExec, ProvLift,
         ProvToken, ProvRecord, ProvRecorded, CodexCarries, RunInv, OnLane, Provider, Kind
    <3> QED BY <1>1, <2>1, <2>2, <2>4, <3>1
  <2>8. ~ProvRow(w) /\ ~ProvWorkspace(w) /\ ~ProvControls(w) /\ ~ProvRecover(w)
    <3>1. ~ProvControls(w)
      BY <1>3, <2>5 DEF ProvControls, CodexCarries
    <3> QED BY <1>3, <2>5, <3>1 DEF ProvRow, ProvWorkspace, ProvRecover, CodexCarries
  <2>9. ~ProvReplay(w) /\ ~ProvCall(w) /\ ~ProvAnswer(w)
    BY <2>4 DEF ProvReplay, ProvCall, ProvAnswer, ProvIs, Is, RunInv, OnLane, Provider, Kind
  <2>10. ~ProvRetry(w)
    BY <1>3, <2>4 DEF ProvRetry, Provider, Kind
  <2> QED BY <1>7, <2>6, <2>7, <2>8, <2>9, <2>10 DEF ProviderStep
<1>8. CASE Pipeline(w) \/ ApplyEdits(w)
  <2>1. Keeps(w)
    <3>1. Lands(w) BY <1>8, PipelineMoves
    <3> QED BY <3>1, <1>0 DEF Lands, Idle
  <2>2. At(w)' # "provider" BY <1>0, <1>8, PipelineLands DEF CodexCarries
  <2>3. \A p \in Points : \A s : To(w, p, s) => At(w)' = p /\ Now(w)' = s BY Moves
  <2>4. \A p \in Points \ {"capability", "gate", "apply_edits"} : \A s : ~To(w, p, s) BY <1>0, <2>2, <2>3
  <2>5. "capability" \in Points /\ "gate" \in Points /\ Stages \subseteq Points BY Places
  <2>6. CASE StageBeats(w)
    <3>1. At(w) = "apply_edits" /\ To(w, "apply_edits", "write")
      BY <1>3, <2>4, <2>6, Places DEF StageBeats, Stages, Following
    <3>2. "apply_edits" \in Points BY <2>5 DEF Stages
    <3> QED BY <1>0, <1>1, <2>1, <2>3, <3>1, <3>2
  <2>7. CASE AfterProvider(w)
    <3>1. At(w) = "provider" /\ Now(w) = "done" BY <2>7 DEF AfterProvider, Is
    <3>2. At(w)' # "capability" BY <1>3, <2>3, <2>5, <2>7 DEF AfterProvider, Stages
    <3> QED BY <1>0, <1>1, <2>1, <3>1, <3>2 DEF CodexCarries
  <2>8. CASE PassGate(w)
    <3>1. At(w) = "gate" BY <2>8 DEF PassGate, Is
    <3>2. At(w)' # "capability" BY <2>3, <2>5, <2>8 DEF PassGate, Stages
    <3> QED BY <1>0, <1>1, <2>1, <3>1, <3>2
  <2>9. ~EvaluateApproval(w)
    <3>1. ~To(w, "guard", "row") /\ ~To(w, "prompt", "find") BY <2>4, Places
    <3>2. ~To(w, "capability", "own") BY <1>0, <2>3, <2>5 DEF CapabilityCarries
    <3> QED BY <1>3, <3>1, <3>2 DEF EvaluateApproval
  <2>10. ~PromptFinds(w) /\ ~PromptInserts(w) /\ ~PromptParks(w) /\ ~GuardRow(w) /\ ~GuardWorkspace(w) /\ ~GuardControls(w)
    <3>1. At(w) \in {"prompt", "guard"} => \A s : ~Step(w, s) BY <1>0, <1>4
    <3> QED BY <1>2, <1>3, <3>1 DEF PromptFinds, PromptInserts, PromptParks, GuardRow, GuardWorkspace, GuardControls, Is
  <2>11. ~MarkRunning(w) /\ ~ApplyEdits(w)
    <3>1. {"inspect_workspace", "decompose", "validate"} \subseteq Points \ {"gate", "apply_edits", "capability"}
      BY DEF Points, Checked, Stages
    <3> QED BY <1>3, <2>4, <3>1 DEF ApplyEdits, MarkRunning
  <2> QED BY <1>8, <2>6, <2>7, <2>8, <2>9, <2>10, <2>11 DEF Pipeline
<1> QED BY <1>5, <1>6, <1>7, <1>8 DEF WorkerActs, Works

-----------------------------------------------------------------------------
(* The rows and the claims that booked them                                *)

\* A row is on the lane of its task, names a claim that was drawn, and no claim
\* has rows of two tasks; whoever carries a dispatch holds the claim of its row.
RowInv ==
    /\ \A t \in Task, l \in Lane : Booked(t, l) =>
          /\ Exists(t) /\ l = profile[t].lane
          /\ ledger[t][l].by \in Claim /\ ledger[t][l].by.token <= issued
          /\ l # Codex => ledger[t][l].receiver
    /\ \A t, u \in Task, l, m \in Lane :
          Booked(t, l) /\ Booked(u, m) /\ ledger[t][l].by = ledger[u][m].by => t = u
    /\ \A w \in Worker, t \in Task, l \in Lane :
          At(w) # "idle" /\ Booked(t, l) /\ ledger[t][l].by = Held(w) => t = Mine(w)
    /\ \A w \in Worker : Carries(w) =>
          /\ Kind(w) \in Lane /\ Booked(Mine(w), Kind(w))
          /\ ledger[Mine(w)][Kind(w)].by = Held(w)

SameRow(t, l) ==
    /\ ledger'[t][l].status # "none" <=> Booked(t, l)
    /\ ledger'[t][l].by = ledger[t][l].by /\ ledger'[t][l].receiver = ledger[t][l].receiver

NewRow(w, t, l) ==
    /\ At(w) \in {"capability", "provider"} /\ t = Mine(w) /\ l = Kind(w)
    /\ ~Booked(t, l) /\ ledger'[t][l].status # "none"
    /\ ledger'[t][l].by = Held(w) /\ ledger'[t][l].receiver = (l # Codex)

LEMMA Booking ==
  ASSUME EngineTypeOK, RunInv, NEW w \in Worker, Books(w)
  PROVE  /\ NewRow(w, Mine(w), Kind(w)) /\ Mine(w) \in Task /\ Kind(w) \in Lane
         /\ \A t \in Task, l \in Lane : <<t, l>> # <<Mine(w), Kind(w)>> => SameRow(t, l)
         /\ issued' = issued /\ profile' = profile
<1>1. Mine(w) \in Task /\ Held(w) \in Ownership /\ Kind(w) \in Lane
  BY AtWork DEF Books, At, Named
<1>2. issued' = issued /\ profile' = profile BY DEF Books, Prepare, taskVars
<1>3. Prepare(Mine(w), Kind(w), Held(w), Kind(w) # Codex) /\ At(w) \in {"capability", "provider"}
  BY DEF Books
<1>4. PICK r \in BOOLEAN : r = (Kind(w) # Codex) OBVIOUS
<1>5. /\ Alone(Mine(w), Kind(w)) /\ ledger[Mine(w)][Kind(w)].status = "none"
      /\ ledger'[Mine(w)][Kind(w)].status = "dispatching" /\ ledger'[Mine(w)][Kind(w)].by = Held(w)
      /\ ledger'[Mine(w)][Kind(w)].receiver = r
  <2>1. Prepare(Mine(w), Kind(w), Held(w), r) BY <1>3, <1>4
  <2> QED BY <1>1, <2>1, RowWrites
<1>6. NewRow(w, Mine(w), Kind(w))
  <2>1. ledger'[Mine(w)][Kind(w)].receiver = (Kind(w) # Codex) BY <1>4, <1>5
  <2>2. ~Booked(Mine(w), Kind(w)) /\ ledger'[Mine(w)][Kind(w)].status # "none" BY <1>5 DEF Booked
  <2> QED BY <1>3, <1>5, <2>1, <2>2 DEF NewRow
<1>7. \A t \in Task, l \in Lane : <<t, l>> # <<Mine(w), Kind(w)>> => SameRow(t, l)
  BY <1>5 DEF Alone, SameRow, Booked
<1> QED BY <1>1, <1>2, <1>6, <1>7

LEMMA RowsMove ==
  ASSUME EngineTypeOK, RunInv, [Next]_vars
  PROVE  \/ \A t \in Task, l \in Lane : SameRow(t, l)
         \/ \E w \in Worker : Books(w)
<1>0. Open \cup Terminal = (Open \cup Terminal) \ {"none"} BY DEF Open, Terminal
<1>1. CASE UNCHANGED ledger BY <1>1 DEF SameRow, Booked
<1>2. ASSUME NEW w \in Worker, Concludes(w) PROVE \A t \in Task, l \in Lane : SameRow(t, l)
  <2>1. PICK s \in Terminal :
          \/ At(w) = "provider" /\ Kind(w) = Codex /\ FinishCodex(Mine(w), s)
          \/ At(w) = "capability" /\ FinishCapability(Mine(w), Kind(w), s)
    BY <1>2 DEF Concludes
  <2>2. Mine(w) \in Task BY <2>1, AtWork DEF At
  <2>3. Kind(w) \in Lane BY <2>1 DEF RunInv, OnLane, At, Kind, Cap, Lane
  <2> QED BY <1>0, <2>1, <2>2, <2>3, RowWrites DEF Alone, SameRow, Booked
<1>3. ASSUME NEW w \in Worker, Seals(w) PROVE \A t \in Task, l \in Lane : SameRow(t, l)
  <2>1. Mine(w) \in Task /\ Held(w) \in Ownership BY <1>3, AtWork DEF Seals, At, Named
  <2>2. Kind(w) \in Lane BY <1>3 DEF Seals, RunInv, OnLane, At, Kind, Cap, Lane
  <2> QED BY <1>0, <1>3, <2>1, <2>2, RowWrites DEF Seals, Alone, SameRow, Booked
<1>4. ASSUME NEW c \in Claim, Serve(c) PROVE \A t \in Task, l \in Lane : SameRow(t, l)
  <2>1. PICK u \in Task, m \in Capability : Consume(u, m) BY <1>4 DEF Serve
  <2>2. m \in Lane BY DEF Lane
  <2> QED BY <2>1, <2>2, RowWrites DEF Alone, SameRow, Booked
<1> QED BY <1>1, <1>2, <1>3, <1>4, RuntimeLedgerStep

\* A worker stays, ends its tick, goes on with its task, or takes one.
LEMMA Moving ==
  ASSUME EngineTypeOK, RunInv, [Next]_vars, NEW w \in Worker
  PROVE  \/ run'[w] = run[w]
         \/ At(w)' = "idle"
         \/ WorkerActs(w) /\ At(w) # "idle" /\ Keeps(w) /\ Legal(w)
         \/ /\ WorkerActs(w) /\ At(w)' = "start" /\ run'[w].task \in Task
            /\ ClaimNext(w, run'[w].task) /\ run'[w].claim = FreshClaim(w)
<1>1. \/ \E v \in Worker : WorkerActs(v) \/ Dies(v)
      \/ UNCHANGED run
  BY DEF Next, vars, workerVars, Submit, Clock, Lapse, Receive, Serve, Drop, Settle, OrphanExits,
     OperatorLifts, Govern, Fault
<1>2. ASSUME WorkerActs(w) \/ Dies(w)
      PROVE  \/ At(w)' = "idle"
             \/ WorkerActs(w) /\ At(w) # "idle" /\ Keeps(w) /\ Legal(w)
             \/ /\ WorkerActs(w) /\ At(w)' = "start" /\ run'[w].task \in Task
                /\ ClaimNext(w, run'[w].task) /\ run'[w].claim = FreshClaim(w)
  <2>1. CASE WorkerActs(w) BY <2>1, WorksMoves DEF Takes, Lands, Idle, At
  <2>2. CASE Dies(w) BY <2>2 DEF Dies, Return, RunInv, RunTyped, Idle, At
  <2> QED BY <1>2, <2>1, <2>2
<1> QED BY <1>1, <1>2, Others

\* What a worker works on stays what it is.
LEMMA SameWork ==
  ASSUME EngineTypeOK, RunInv, DeskInv, [Next]_vars, NEW w \in Worker, At(w) # "idle",
         run'[w] = run[w] \/ Keeps(w)
  PROVE  /\ Mine(w)' = Mine(w) /\ Held(w)' = Held(w) /\ Kind(w)' = Kind(w)
         /\ profile'[Mine(w)] = profile[Mine(w)]
         /\ Mine(w) \in Task /\ Exists(Mine(w)) /\ Held(w) \in Claim
         /\ Held(w).worker = w /\ Held(w).token <= issued
<1>1. Mine(w) \in Task /\ Exists(Mine(w)) /\ Held(w) \in Claim /\ Held(w).worker = w /\ Held(w).token <= issued
  BY DEF RunInv, Employed, At, Mine, Held
<1>2. [EngineNext]_engineVars BY Refines
<1>3. profile'[Mine(w)] = profile[Mine(w)] BY <1>1, <1>2, EngineGrows
<1>4. Mine(w)' = Mine(w) /\ Held(w)' = Held(w) BY DEF Keeps, Mine, Held
<1> QED BY <1>1, <1>3, <1>4 DEF Kind

LEMMA RowInvStep ==
  ASSUME EngineTypeOK, RunInv, DeskInv, RowInv, [Next]_vars
  PROVE  RowInv'
<1>0. /\ issued \in Nat /\ issued' \in Nat /\ issued <= issued'
      /\ \A t \in Task : Exists(t) => Exists(t)' /\ profile'[t] = profile[t]
  BY Refines, EngineGrows
<1>1. \A c \in Claim : c.token \in Nat BY DEF Claim
<1> DEFINE OldOrNew(t, l) == SameRow(t, l) \/ \E w \in Worker : NewRow(w, t, l)
<1>2. \A t \in Task, l \in Lane : OldOrNew(t, l) BY RowsMove, Booking
<1>3. ASSUME NEW w \in Worker, NEW t, NEW l, NewRow(w, t, l)
      PROVE  /\ t = Mine(w) /\ l = Kind(w) /\ l = profile[t].lane /\ Exists(t) /\ At(w) # "idle"
             /\ Held(w) \in Claim /\ Held(w).token <= issued /\ Held(w).worker = w
  BY <1>3 DEF NewRow, RunInv, Employed, At, Mine, Held, Kind
<1>4. ASSUME NEW t \in Task, NEW l \in Lane, Booked(t, l)'
      PROVE  /\ Exists(t)' /\ l = profile'[t].lane
             /\ ledger'[t][l].by \in Claim /\ ledger'[t][l].by.token <= issued
             /\ l # Codex => ledger'[t][l].receiver
  <2>1. CASE SameRow(t, l) BY <1>0, <1>4, <2>1 DEF SameRow, Booked, RowInv
  <2>2. ASSUME NEW w \in Worker, NewRow(w, t, l)
        PROVE  /\ Exists(t)' /\ l = profile'[t].lane
               /\ ledger'[t][l].by \in Claim /\ ledger'[t][l].by.token <= issued
               /\ l # Codex => ledger'[t][l].receiver
    <3>1. ledger'[t][l].by = Held(w) /\ ledger'[t][l].receiver = (l # Codex) BY <2>2 DEF NewRow
    <3>2. Exists(t)' /\ l = profile'[t].lane BY <1>0, <1>3, <2>2
    <3> QED BY <1>3, <2>2, <3>1, <3>2
  <2> QED BY <1>2, <2>1, <2>2
<1>5. \A t \in Task, l \in Lane : Booked(t, l)' =>
         /\ Exists(t)' /\ l = profile'[t].lane
         /\ ledger'[t][l].by \in Claim /\ ledger'[t][l].by.token <= issued'
         /\ l # Codex => ledger'[t][l].receiver
  BY <1>0, <1>1, <1>4
<1>6. ASSUME NEW t \in Task, NEW u \in Task, NEW l \in Lane, NEW m \in Lane,
             Booked(t, l)', Booked(u, m)', ledger'[t][l].by = ledger'[u][m].by
      PROVE  t = u
  <2>1. CASE SameRow(t, l) /\ SameRow(u, m)
    <3>1. Booked(t, l) /\ Booked(u, m) /\ ledger[t][l].by = ledger[u][m].by
      BY <1>6, <2>1 DEF SameRow, Booked
    <3> QED BY <3>1 DEF RowInv
  <2>2. ASSUME NEW w \in Worker, NewRow(w, t, l), SameRow(u, m) PROVE t = u
    BY <1>3, <1>6, <2>2 DEF SameRow, NewRow, Booked, RowInv
  <2>3. ASSUME NEW w \in Worker, NewRow(w, u, m), SameRow(t, l) PROVE t = u
    BY <1>3, <1>6, <2>3 DEF SameRow, NewRow, Booked, RowInv
  <2>4. ASSUME NEW w \in Worker, NEW v \in Worker, NewRow(w, t, l), NewRow(v, u, m) PROVE t = u
    BY <1>3, <1>6, <2>4 DEF NewRow
  <2> QED BY <1>2, <2>1, <2>2, <2>3, <2>4
<1>7. ASSUME NEW w \in Worker, NEW t \in Task, NEW l \in Lane,
             At(w)' # "idle", Booked(t, l)', ledger'[t][l].by = Held(w)'
      PROVE  t = Mine(w)'
  <2>1. CASE run'[w] = run[w] \/ (At(w) # "idle" /\ Keeps(w))
    <3>1. At(w) # "idle" BY <1>7, <2>1 DEF At
    <3>2. Mine(w)' = Mine(w) /\ Held(w)' = Held(w) /\ Held(w).worker = w BY <2>1, <3>1, SameWork
    <3>3. CASE SameRow(t, l) BY <1>7, <3>1, <3>2, <3>3 DEF SameRow, Booked, RowInv
    <3>4. ASSUME NEW v \in Worker, NewRow(v, t, l) PROVE t = Mine(w)'
      BY <1>3, <1>7, <3>2, <3>4 DEF NewRow
    <3> QED BY <1>2, <3>3, <3>4
  <2>2. CASE run'[w].claim = FreshClaim(w)
    BY <1>0, <1>1, <1>4, <1>7, <2>2 DEF Held, FreshClaim
  <2> QED BY <1>7, <2>1, <2>2, Moving
<1>8. ASSUME NEW w \in Worker, Carries(w)'
      PROVE  /\ Kind(w)' \in Lane /\ Booked(Mine(w), Kind(w))'
             /\ ledger'[Mine(w)'][Kind(w)'].by = Held(w)'
  <2>0. At(w)' # "idle" /\ At(w)' # "start" BY <1>8 DEF Carries, Carrying, At
  <2>1. CASE run'[w] = run[w] \/ (At(w) # "idle" /\ Keeps(w))
    <3>1. At(w) # "idle" BY <2>0, <2>1 DEF At
    <3>2. Mine(w)' = Mine(w) /\ Held(w)' = Held(w) /\ Kind(w)' = Kind(w) /\ Mine(w) \in Task
      BY <2>1, <3>1, SameWork
    <3>3. CASE Carries(w)
      <4>1. Kind(w) \in Lane /\ Booked(Mine(w), Kind(w)) /\ ledger[Mine(w)][Kind(w)].by = Held(w)
        BY <3>3 DEF RowInv
      <4>2. SameRow(Mine(w), Kind(w))
        BY <1>2, <3>2, <4>1 DEF NewRow
      <4> QED BY <3>2, <4>1, <4>2 DEF SameRow, Booked
    <3>4. CASE Books(w) BY <3>2, <3>4, Booking DEF NewRow, Booked
    <3>5. Carrying(run'[w], Kind(w)) BY <1>8, <3>2 DEF Carries
    <3>6. CASE run'[w] = run[w] BY <3>3, <3>5, <3>6 DEF Carries
    <3>7. CASE WorkerActs(w) BY <3>3, <3>4, <3>5, <3>7, CarriedOn
    <3>8. run'[w] = run[w] \/ WorkerActs(w)
      BY <2>0, Moving
    <3> QED BY <3>6, <3>7, <3>8
  <2> QED BY <2>0, <2>1, Moving
<1> QED BY <1>5, <1>6, <1>7, <1>8 DEF RowInv

-----------------------------------------------------------------------------
(* Launches                                                                *)

LEMMA RowInvInit == Init => RowInv
<1> SUFFICES ASSUME Init PROVE RowInv
  OBVIOUS
<1>1. \A t \in Task, l \in Lane : ~Booked(t, l) BY DEF Init, EngineInit, Booked, NoRow
<1>2. \A w \in Worker : ~Carries(w) BY DEF Init, WorkerInit, Idle, Carries, Carrying
<1> QED BY <1>1, <1>2 DEF RowInv

\* A Codex process is started, or a provider is called in line.
Launches(w) ==
    /\ At(w) = "provider"
    /\ \/ Kind(w) = Codex /\ Now(w) = "spawn" /\ Now(w)' = "exec"
       \/ Kind(w) \notin Lane /\ Now(w) = "call"
    /\ launches' = [launches EXCEPT ![Mine(w)] = @ + 1]
    /\ UNCHANGED ledger

LEMMA LaunchMoves ==
  ASSUME RunInv, [Next]_vars
  PROVE  \/ UNCHANGED launches
         \/ \E w \in Worker : WorkerActs(w) /\ Launches(w)
         \/ \E c \in Claim : Serve(c)
<1> USE DEF At, Now, Kind
<1>1. ASSUME NEW w \in Worker, WorkerActs(w)
      PROVE  \/ UNCHANGED launches
             \/ Launches(w)
  <2>1. CASE WorkerStep(w) \/ CapabilityStep(w) \/ Pipeline(w) \/ ApplyEdits(w)
    <3>1. CASE WorkerStep(w)
      BY <3>1 DEF WorkerStep, Poll, Take, Precheck, StopFlag, StopHalt, StopRow, Move
    <3>2. CASE Pipeline(w) \/ ApplyEdits(w)
      BY <3>2 DEF Pipeline, ApplyEdits, EvaluateApproval, PromptFinds, PromptInserts, PromptParks, GuardRow, GuardWorkspace,
         GuardControls, MarkRunning, StageBeats, AfterProvider, PassGate, Outside
    <3>3. CASE CapabilityStep(w)
      BY <3>3 DEF CapabilityStep, Quiet, Finish, CapOwn, CapFlag, CapRow, CapPrepare,
         CapRecover, CapRunning, CapOwnAgain, CapFlagAgain, CapRowAgain, CapCall, CapAnswer, CapOwnLast,
         CapFlagLast, CapRowLast, CapDiscard, CapRevoked, CapFinalize, CapSuperseded, CapDisown, CapCatch,
         CapCatchFlag, CapHalt, CapHalted, CapHaltUnowned, CapUnknown
    <3> QED BY <2>1, <3>1, <3>2, <3>3
  <2>2. CASE ProviderStep(w)
    <3>1. At(w) = "provider" BY <2>2, InProvider
    <3>2. CASE ProvSpawn(w)
      <4>1. Kind(w) = Codex BY <3>1, <3>2 DEF ProvSpawn, ProvIs, Is, RunInv, OnLane, CodexSteps, Provider
      <4>2. Step(w, "exec") => Now(w)' = "exec" BY Moves
      <4> QED BY <3>1, <3>2, <4>1, <4>2 DEF ProvSpawn, ProvIs, Is, Launches, engineVars, ledgerVars
    <3>3. CASE ProvCall(w)
      <4>1. Kind(w) \notin Capability /\ Kind(w) # Codex
        BY <3>1, <3>3 DEF ProvCall, ProvIs, Is, RunInv, OnLane, Routed, Provider
      <4> QED BY <3>1, <3>3, <4>1 DEF ProvCall, ProvIs, Is, Lane, Provider, Launches, engineVars, ledgerVars
    <3>4. CASE ProvRow(w) \/ ProvWorkspace(w) \/ ProvControls(w) \/ ProvReplay(w) \/ ProvPrepare(w) \/ ProvRecover(w)
            \/ ProvRenew(w) \/ ProvLease(w) \/ ProvQuarantine(w) \/ ProvExec(w) \/ ProvLift(w) \/ ProvAnswer(w)
            \/ ProvToken(w) \/ ProvRecord(w) \/ ProvRecorded(w) \/ ProvRetry(w)
      BY <3>4 DEF Calm, ProvRow, ProvWorkspace, ProvControls, ProvReplay, ProvPrepare, ProvRecover, ProvRenew, ProvLease,
         ProvQuarantine, ProvExec, ProvLift, ProvAnswer, ProvToken, ProvRecord, ProvRecorded, ProvRetry
    <3> QED BY <2>2, <3>2, <3>3, <3>4 DEF ProviderStep
  <2> QED BY <1>1, <2>1, <2>2 DEF WorkerActs, Works
<1>2. \/ \E w \in Worker : WorkerActs(w)
      \/ \E c \in Claim : Serve(c)
      \/ UNCHANGED launches
  BY DEF Next, vars, workerVars, Submit, Clock, Lapse, Receive, Drop, Settle, OrphanExits,
     OperatorLifts, Govern, Fault, Dies
<1> QED BY <1>1, <1>2

LEMMA Launching ==
  ASSUME RunInv, [Next]_vars
  PROVE  \/ UNCHANGED <<ledger, launches>>
         \/ \E w \in Worker : WorkerActs(w) /\ UNCHANGED launches /\ (Books(w) \/ Concludes(w) \/ Seals(w))
         \/ \E w \in Worker : WorkerActs(w) /\ Launches(w)
         \/ \E c \in Claim : Serve(c)
  BY LaunchMoves, RuntimeLedgerStep DEF Launches

Ready == {"renew", "quarantine", "spawn"}
Heard == {"own last", "flag last", "row last", "discard", "revoked"}

\* The row is booked and nothing has been started for it.
Armed(w) == Kind(w) = Codex /\ At(w) = "provider" /\ Now(w) \in Ready

\* The worker knows that its dispatch was executed.
Knows(r, lane) ==
    \/ r.at = "capability" /\ r.step \in Heard
    \/ /\ lane = Codex /\ r.at = "provider"
       /\ \/ r.step \in {"exec", "done"}
          \/ r.step \in {"lift", "token", "record", "recorded"} /\ r.got = "ok"

LEMMA ArmedOn ==
  ASSUME RunInv, EngineTypeOK, NEW w \in Worker, WorkerActs(w),
         Kind(w) = Codex, At(w)' = "provider", Now(w)' \in Ready
  PROVE  Keeps(w) /\ (Armed(w) \/ Books(w))
<1> USE DEF At, Now, Kind
<1>1. Carrying(run'[w], Kind(w)) BY DEF Carrying, Ready, CodexCarries
<1>2. Keeps(w) /\ (Carries(w) \/ Books(w)) BY <1>1, CarriedOn
<1>3. ProviderStep(w) BY Inside DEF Ready
<1>4. At(w) = "provider" BY <1>3, InProvider
<1>5. \A s : Step(w, s) => s \in Ready BY Moves
<1>6. \A r \in Result : \A s : Got(w, r, s) => s \in Ready BY Moves
<1>7. \A s : ~Leave(w, s) BY Moves
<1>8. ~Return(w) BY DEF RunInv, RunTyped, Return, Idle
<1>9. {"ok", "failed", "unknown", "handed_off"} \subseteq Result BY DEF Result
<1>10. CASE ProvRenew(w) \/ ProvQuarantine(w) \/ ProvSpawn(w)
  BY <1>2, <1>4, <1>10 DEF Armed, Ready, ProvRenew, ProvQuarantine, ProvSpawn, ProvIs, Is
<1>11. CASE ProvPrepare(w)
  <2>1. ~Step(w, "recover") BY <1>5 DEF Ready
  <2> QED BY <1>2, <1>4, <1>7, <1>11, <2>1 DEF ProvPrepare, Books, Lane
<1>12. ~ProvRow(w) /\ ~ProvWorkspace(w) /\ ~ProvControls(w) /\ ~ProvRecover(w) /\ ~ProvCall(w) /\ ~ProvToken(w)
       /\ ~ProvRecorded(w)
  BY <1>5, <1>7, <1>8 DEF Ready, ProvRow, ProvWorkspace, ProvControls, ProvRecover, ProvCall, ProvToken, ProvRecorded
<1>13. ~ProvReplay(w) BY DEF ProvReplay, ProvIs, Is, RunInv, OnLane, Provider
<1>14. ~ProvExec(w) /\ ~ProvLift(w) /\ ~ProvAnswer(w) /\ ~ProvRecord(w)
  BY <1>5, <1>6, <1>7, <1>9 DEF Ready, ProvExec, ProvLift, ProvAnswer, ProvRecord
<1>15. ~ProvLease(w)
  <2>1. ProvLease(w) => Now(w)' = Now(w) BY DEF ProvLease, RunInv, RunTyped, Record
  <2> QED BY <2>1 DEF ProvLease, Ready
<1>16. ~ProvRetry(w) BY <1>7 DEF ProvRetry, Provider
<1> QED BY <1>3, <1>10, <1>11, <1>12, <1>13, <1>14, <1>15, <1>16 DEF ProviderStep

\* A capability run begins with the ownership check.
LEMMA Entering ==
  ASSUME RunInv, EngineTypeOK, NEW w \in Worker, WorkerActs(w), ~CapabilityStep(w),
         At(w)' = "capability"
  PROVE  EvaluateApproval(w) /\ Now(w)' = "own"
<1> USE DEF At, Now
<1>2. ~Return(w) BY DEF RunInv, RunTyped, Return, Idle
<1>3. \A s : ~Leave(w, s) BY Moves
<1>4. \A s : Step(w, s) => At(w) = "capability" BY Moves
<1>5. ~ProviderStep(w) BY ProviderLands
<1>6. CASE WorkerStep(w)
  <2>1. ~Poll(w) /\ ~Take(w)
    <3>1. Poll(w) \/ Take(w) => At(w) = "idle" BY DEF Poll, Take, Is
    <3>2. Takes(w) \/ Lands(w) BY <1>6, WorkerMoves
    <3> QED BY <3>1, <3>2 DEF Takes, Lands, Idle
  <2>2. ~Precheck(w) /\ ~Move(w) BY <1>2, <1>3, <1>4 DEF Precheck, Is, Move
  <2>3. "capability" \notin Checked BY DEF Checked, Stages
  <2>4. ~StopFlag(w) /\ ~StopHalt(w) /\ ~StopRow(w)
    BY <1>2, <1>3, <1>4, <2>3 DEF StopFlag, StopHalt, StopRow, Stopped
  <2> QED BY <1>6, <2>1, <2>2, <2>4 DEF WorkerStep
<1>7. CASE Pipeline(w) \/ ApplyEdits(w)
  <2>1. \A p \in Points \ {"capability"} : \A s : ~To(w, p, s) BY Moves
  <2>2. {"guard", "prompt", "inspect_workspace", "decompose", "summarize", "gate", "apply_edits",
         "validate"} \subseteq Points \ {"capability"}
    BY DEF Points, Checked, Stages
  <2>3. CASE EvaluateApproval(w)
    <3>1. To(w, "capability", "own") BY <1>3, <2>1, <2>2, <2>3 DEF EvaluateApproval
    <3> QED BY <2>3, <3>1, Moves, Places
  <2>4. ~StageBeats(w)
    <3>1. StageBeats(w) => \E p \in Points \ {"capability"} : \E s : To(w, p, s)
      BY <1>3 DEF StageBeats, Stages, Following, Points, Checked
    <3> QED BY <2>1, <3>1
  <2>5. ~PromptFinds(w) /\ ~PromptInserts(w) /\ ~PromptParks(w) /\ ~GuardRow(w) /\ ~GuardWorkspace(w) /\ ~GuardControls(w)
    BY <1>2, <1>3, <1>4 DEF PromptFinds, PromptInserts, PromptParks, GuardRow, GuardWorkspace, GuardControls, Is
  <2>6. ~MarkRunning(w) /\ ~AfterProvider(w) /\ ~PassGate(w) /\ ~ApplyEdits(w)
    BY <1>3, <2>1, <2>2 DEF MarkRunning, AfterProvider, PassGate, ApplyEdits
  <2> QED BY <1>7, <2>3, <2>4, <2>5, <2>6 DEF Pipeline
<1> QED BY <1>5, <1>6, <1>7 DEF WorkerActs, Works

LEMMA KnowsOn ==
  ASSUME RunInv, EngineTypeOK, NEW w \in Worker, WorkerActs(w), Knows(run'[w], Kind(w))
  PROVE  /\ Keeps(w)
         /\ \/ Knows(run[w], Kind(w))
            \/ Launches(w) /\ Kind(w) = Codex
            \/ At(w) = "capability" /\ Held(w) \in served
<1> USE DEF At, Now, Kind
<1>1. Carrying(run'[w], Kind(w)) BY DEF Knows, Carrying, Heard, CapabilityCarries, CodexCarries
<1>2. Keeps(w) BY <1>1, CarriedOn
<1>3. CASE At(w)' = "capability"
  <2>1. Now(w)' \in Heard BY <1>3 DEF Knows
  <2>2. "own" \notin Heard /\ "error" \notin Heard /\ "halt" \notin Heard BY DEF Heard
  <2>3. CapabilityStep(w) BY <1>3, <2>1, <2>2, Entering
  <2>4. At(w) = "capability" BY <2>3, InCapability
  <2>5. \A s : Step(w, s) => s \in Heard BY <2>1, Moves
  <2>6. CASE CapAnswer(w)
    BY <1>2, <2>2, <2>4, <2>5, <2>6 DEF CapAnswer
  <2>7. CASE CapOwnLast(w) \/ CapFlagLast(w) \/ CapRowLast(w) \/ CapDiscard(w) \/ CapRevoked(w)
    <3>1. Now(w) \in Heard
      BY <2>7 DEF CapIs, Is, CapOwnLast, CapFlagLast, CapRowLast, CapDiscard, CapRevoked, Heard
    <3> QED BY <1>2, <2>4, <3>1 DEF Knows
  <2>8. ~Return(w) BY <1>3 DEF RunInv, RunTyped, Return, Idle
  <2>9. \A s : ~Leave(w, s) BY <1>3, Moves
  <2>10. /\ ~Step(w, "flag") /\ ~Step(w, "row") /\ ~Step(w, "prepare") /\ ~Step(w, "running")
         /\ ~Step(w, "recover") /\ ~Step(w, "own again") /\ ~Step(w, "flag again") /\ ~Step(w, "row again")
         /\ ~Step(w, "call") /\ ~Step(w, "wait") /\ ~Step(w, "superseded") /\ ~Step(w, "disown")
         /\ ~Step(w, "halt") /\ ~Step(w, "error flag") /\ ~Step(w, "unknown") /\ ~Step(w, "halted")
         /\ ~Step(w, "halt unowned") /\ ~Step(w, "error")
    <3>1. /\ "flag" \notin Heard /\ "row" \notin Heard /\ "prepare" \notin Heard /\ "running" \notin Heard
          /\ "recover" \notin Heard /\ "own again" \notin Heard /\ "flag again" \notin Heard
          /\ "row again" \notin Heard /\ "call" \notin Heard /\ "wait" \notin Heard
          /\ "superseded" \notin Heard /\ "disown" \notin Heard /\ "halt" \notin Heard
          /\ "error flag" \notin Heard /\ "unknown" \notin Heard /\ "halted" \notin Heard
          /\ "halt unowned" \notin Heard /\ "error" \notin Heard
      BY DEF Heard
    <3> QED BY <2>5, <3>1
  <2>11. ~CapOwn(w) /\ ~CapFlag(w) /\ ~CapRow(w) /\ ~CapPrepare(w) /\ ~CapRecover(w) /\ ~CapRunning(w)
    BY <2>8, <2>9, <2>10 DEF CapOwn, CapFlag, CapRow, CapPrepare, CapRecover, CapRunning, Finish
  <2>12. ~CapOwnAgain(w) /\ ~CapFlagAgain(w) /\ ~CapRowAgain(w) /\ ~CapCall(w) /\ ~CapSuperseded(w)
    BY <2>8, <2>9, <2>10 DEF CapOwnAgain, CapFlagAgain, CapRowAgain, CapCall, CapSuperseded, Finish
  <2>13. ~CapFinalize(w) /\ ~CapDisown(w) /\ ~CapCatch(w) /\ ~CapCatchFlag(w) /\ ~CapHalt(w) /\ ~CapHalted(w)
         /\ ~CapHaltUnowned(w) /\ ~CapUnknown(w)
    BY <2>8, <2>9, <2>10 DEF CapFinalize, CapDisown, CapCatch, CapCatchFlag, CapHalt, CapHalted, CapHaltUnowned,
       CapUnknown, Finish
  <2> QED BY <2>3, <2>6, <2>7, <2>11, <2>12, <2>13 DEF CapabilityStep
<1>4. CASE At(w)' = "provider"
  <2>1. /\ Kind(w) = Codex
        /\ \/ Now(w)' \in {"exec", "done"}
           \/ Now(w)' \in {"lift", "token", "record", "recorded"} /\ run'[w].got = "ok"
    BY <1>4 DEF Knows
  <2>2. ProviderStep(w) BY <1>4, <2>1, Inside
  <2>3. At(w) = "provider" BY <2>2, InProvider
  <2>4. \A s : Step(w, s) =>
          /\ s \in {"exec", "done", "lift", "token", "record", "recorded"}
          /\ s \in {"lift", "token", "record", "recorded"} => run[w].got = "ok"
    BY <2>1, Moves
  <2>5. \A r \in Result : \A s : Got(w, r, s) =>
          /\ s \in {"exec", "done", "lift", "token", "record", "recorded"}
          /\ s \in {"lift", "token", "record", "recorded"} => r = "ok"
    BY <2>1, Moves
  <2>6. \A s : ~Leave(w, s) BY <1>4, Moves
  <2>7. ~Return(w) BY <1>4 DEF RunInv, RunTyped, Return, Idle
  <2>8. {"ok", "failed", "unknown", "handed_off"} \subseteq Result BY DEF Result
  <2>9. CASE ProvSpawn(w)
    <3>1. Step(w, "exec") /\ launches' = [launches EXCEPT ![Mine(w)] = @ + 1]
      BY <2>5, <2>8, <2>9 DEF ProvSpawn
    <3>2. Now(w)' = "exec" BY <3>1, Moves
    <3> QED BY <1>2, <2>1, <2>3, <2>9, <3>1, <3>2 DEF Launches, ProvSpawn, ProvIs, Is, engineVars, ledgerVars
  <2>10. CASE ProvExec(w) \/ ProvLift(w)
    <3>1. ProvLift(w) => Step(w, "token") BY <2>5, <2>8 DEF ProvLift
    <3> QED BY <1>2, <2>1, <2>3, <2>4, <2>10, <3>1 DEF Knows, ProvExec, ProvLift, ProvIs, Is
  <2>11. CASE ProvToken(w) \/ ProvRecord(w) \/ ProvRecorded(w)
    <3>1. Now(w) \in {"token", "record", "recorded"}
      BY <2>11 DEF ProvToken, ProvRecord, ProvRecorded, ProvIs, Is
    <3>2. run[w].got = "ok"
      BY <2>1, <2>4, <2>6, <2>7, <2>11 DEF ProvToken, ProvRecord, ProvRecorded, Provider
    <3> QED BY <1>2, <2>1, <2>3, <3>1, <3>2 DEF Knows
  <2>12. CASE ProvLease(w)
    <3>1. Now(w)' = Now(w) /\ run'[w].got = run[w].got BY <2>12 DEF ProvLease, RunInv, RunTyped, Record
    <3> QED BY <1>2, <2>1, <2>3, <3>1 DEF Knows
  <2>13. ~ProvRow(w) /\ ~ProvWorkspace(w) /\ ~ProvReplay(w) /\ ~ProvPrepare(w) /\ ~ProvRecover(w) /\ ~ProvRenew(w)
    <3>1. \A s \in {"workspace", "controls", "renew", "recover", "quarantine", "call"} : ~Step(w, s) BY <2>4
    <3>2. ~ProvRow(w) /\ ~ProvWorkspace(w) /\ ~ProvReplay(w) /\ ~ProvPrepare(w) /\ ~ProvRecover(w)
      BY <2>6, <2>7, <3>1 DEF ProvRow, ProvWorkspace, ProvReplay, ProvPrepare, ProvRecover
    <3>3. ~ProvRenew(w) BY <2>7, <3>1 DEF ProvRenew
    <3> QED BY <3>2, <3>3
  <2>14. ~ProvControls(w)
    BY <2>4, <2>6 DEF ProvControls
  <2>15. ~ProvQuarantine(w) /\ ~ProvCall(w) /\ ~ProvAnswer(w)
    <3>1. ~ProvCall(w) /\ ~ProvAnswer(w) BY <2>1 DEF ProvCall, ProvAnswer, ProvIs, Is, RunInv, OnLane, Provider
    <3> QED BY <2>4, <2>5, <2>8, <3>1 DEF ProvQuarantine
  <2>16. ~ProvRetry(w) BY <2>1, <2>6 DEF ProvRetry, Provider
  <2> QED BY <2>2, <2>9, <2>10, <2>11, <2>12, <2>13, <2>14, <2>15, <2>16 DEF ProviderStep
<1> QED BY <1>3, <1>4 DEF Knows

\* The launches of a task whose dispatch goes through the ledger, against its row.
Truth(n, row, lane) ==
    /\ n <= 1
    /\ row.status = "none" => n = 0
    /\ row.status \in {"started", "completed"} => n = 1
    /\ lane # Codex /\ row.status = "dispatching" => n = 0

LaunchInv ==
    /\ launches \in [Task -> Nat]
    /\ \A t \in Task : launches[t] > 0 => Exists(t)
    /\ \A t \in Task, l \in Lane :
          Exists(t) /\ profile[t].lane = l => Truth(launches[t], ledger[t][l], l)
    /\ \A c \in served : \E t \in Task, l \in Lane :
          Booked(t, l) /\ ledger[t][l].by = c /\ launches[t] > 0
    /\ \A w \in Worker : Armed(w) => launches[Mine(w)] = 0
    /\ \A w \in Worker : Knows(run[w], Kind(w)) => launches[Mine(w)] > 0

\* No task has fewer launches after a step, and one whose row is on no lane of
\* the ledger has no row.
LEMMA LaunchesGrow ==
  ASSUME EngineTypeOK, RunInv, launches \in [Task -> Nat], [Next]_vars
  PROVE  /\ launches' \in [Task -> Nat]
         /\ \A t \in Task : launches[t] <= launches'[t]
<1>1. CASE UNCHANGED launches BY <1>1
<1>2. ASSUME NEW w \in Worker, Launches(w)
      PROVE  launches' \in [Task -> Nat] /\ \A t \in Task : launches[t] <= launches'[t]
  BY <1>2, AtWork DEF Launches, At
<1>3. ASSUME NEW c \in Claim, Serve(c)
      PROVE  launches' \in [Task -> Nat] /\ \A t \in Task : launches[t] <= launches'[t]
  BY <1>3 DEF Serve
<1> QED BY <1>1, <1>2, <1>3, LaunchMoves

LEMMA TruthStep ==
  ASSUME EngineTypeOK, RunInv, DeskInv, RowInv, RowInv', LaunchInv, [Next]_vars,
         NEW t \in Task, NEW l \in Lane, Exists(t)', profile'[t].lane = l
  PROVE  Truth(launches'[t], ledger'[t][l], l)
<1>0. /\ \A u \in Task : Exists(u) => Exists(u)' /\ profile'[u] = profile[u]
  BY Refines, EngineGrows
<1>1. ledger[t][l].status \in {"none"} \cup Open \cup Terminal BY DEF EngineTypeOK, Row
<1>2. CASE ~Exists(t)
  <2>1. launches[t] = 0 /\ ~Booked(t, l) BY <1>2 DEF LaunchInv, RowInv
  <2>2. launches'[t] = launches[t]
    <3>1. ASSUME NEW w \in Worker, Launches(w) PROVE launches'[t] = launches[t]
      BY <1>2, <3>1, AtWork DEF Launches, At, LaunchInv
    <3>2. ASSUME NEW c \in Claim, Serve(c) PROVE launches'[t] = launches[t]
      BY <1>2, <3>2 DEF Serve, Consume, Exists, LaunchInv
    <3> QED BY <3>1, <3>2, LaunchMoves
  <2>3. ledger'[t][l].status = "none"
    <3>1. ASSUME NEW w \in Worker, Books(w) PROVE ledger'[t][l].status = "none"
      <4>1. Mine(w) # t BY <1>2, <3>1, AtWork DEF Books, At
      <4> QED BY <2>1, <3>1, <4>1, Booking DEF SameRow, Booked
    <3> QED BY <2>1, <3>1, RowsMove DEF SameRow, Booked
  <2> QED BY <2>1, <2>2, <2>3, <1>2 DEF Truth
<1>3. CASE Exists(t)
  <2>0. profile[t].lane = l /\ Truth(launches[t], ledger[t][l], l) /\ launches[t] \in Nat
    BY <1>0, <1>3 DEF LaunchInv
  <2>1. CASE UNCHANGED <<ledger, launches>> BY <2>0, <2>1
  <2>2. ASSUME NEW w \in Worker, Books(w), UNCHANGED launches PROVE Truth(launches'[t], ledger'[t][l], l)
    <3>1. Mine(w) \in Task /\ Held(w) \in Ownership /\ Kind(w) \in Lane
      BY <2>2, AtWork DEF Books, At, Named
    <3>2. PICK r \in BOOLEAN : r = (Kind(w) # Codex) OBVIOUS
    <3>3. Prepare(Mine(w), Kind(w), Held(w), r) BY <2>2, <3>2 DEF Books
    <3>4. Alone(Mine(w), Kind(w)) /\ ledger[Mine(w)][Kind(w)].status = "none"
          /\ ledger'[Mine(w)][Kind(w)].status = "dispatching"
      BY <3>1, <3>3, RowWrites
    <3> QED BY <2>0, <2>2, <3>4 DEF Alone, Truth
  <2>3. ASSUME NEW w \in Worker, Concludes(w), UNCHANGED launches PROVE Truth(launches'[t], ledger'[t][l], l)
    <3>1. PICK s \in Terminal :
          /\ s = "completed" => Answered(w)
          /\ \/ At(w) = "provider" /\ Kind(w) = Codex /\ FinishCodex(Mine(w), s)
             \/ At(w) = "capability" /\ FinishCapability(Mine(w), Kind(w), s)
      BY <2>3 DEF Concludes
    <3>2. Mine(w) \in Task BY <3>1, AtWork DEF At
    <3>3. Kind(w) \in Lane BY <3>1 DEF RunInv, OnLane, At, Kind, Cap, Lane
    <3>4. Alone(Mine(w), Kind(w)) /\ ledger'[Mine(w)][Kind(w)].status = s
      BY <3>1, <3>2, <3>3, RowWrites
    <3>5. s = "completed" => launches[Mine(w)] > 0
      <4>1. Answered(w) => Knows(run[w], Kind(w)) BY <3>1 DEF Answered, Knows, Heard, At, Now
      <4> QED BY <3>1, <4>1 DEF LaunchInv
    <3>6. s # "none" /\ s # "started" /\ s # "dispatching" BY DEF Terminal
    <3> QED BY <2>0, <2>3, <3>4, <3>5, <3>6 DEF Alone, Truth
  <2>4. ASSUME NEW w \in Worker, Seals(w), UNCHANGED launches PROVE Truth(launches'[t], ledger'[t][l], l)
    <3>1. Mine(w) \in Task /\ Held(w) \in Ownership BY <2>4, AtWork DEF Seals, At, Named
    <3>2. Kind(w) \in Lane /\ Kind(w) # Codex
      BY <2>4, EngineAssumption DEF Seals, RunInv, OnLane, At, Kind, Cap, Lane
    <3>3. /\ Alone(Mine(w), Kind(w)) /\ ledger[Mine(w)][Kind(w)].status \in Open
          /\ ledger[Mine(w)][Kind(w)].receiver => ledger[Mine(w)][Kind(w)].status = "started"
          /\ ledger'[Mine(w)][Kind(w)].status = "completed"
      BY <2>4, <3>1, <3>2, RowWrites DEF Seals
    <3>4. ledger[Mine(w)][Kind(w)].status = "started"
      BY <3>1, <3>2, <3>3 DEF RowInv, Booked, Open
    <3> QED BY <2>0, <2>4, <3>3, <3>4 DEF Alone, Truth
  <2>5. ASSUME NEW w \in Worker, Launches(w) PROVE Truth(launches'[t], ledger'[t][l], l)
    <3>1. Mine(w) \in Task BY <2>5, AtWork DEF Launches, At
    <3>2. CASE t # Mine(w) BY <2>0, <2>5, <3>1, <3>2 DEF Launches, LaunchInv
    <3>3. CASE t = Mine(w)
      <4>1. Kind(w) = l BY <2>0, <3>3 DEF Kind
      <4>2. Armed(w) /\ Carries(w) BY <2>5, <4>1 DEF Launches, Armed, Ready, Carries, Carrying, CodexCarries, At, Now
      <4>3. launches[t] = 0 /\ Booked(t, l) BY <3>3, <4>1, <4>2 DEF LaunchInv, RowInv
      <4>4. launches'[t] = 1 /\ ledger'[t][l] = ledger[t][l] /\ l = Codex
        BY <2>5, <3>3, <4>1, <4>3 DEF Launches, LaunchInv
      <4> QED BY <4>3, <4>4 DEF Truth, Booked
    <3> QED BY <3>2, <3>3
  <2>6. ASSUME NEW c \in Claim, Serve(c) PROVE Truth(launches'[t], ledger'[t][l], l)
    <3>1. PICK u \in Task, m \in Capability : Consume(u, m) /\ launches' = [launches EXCEPT ![u] = @ + 1]
      BY <2>6 DEF Serve
    <3>2. m \in Lane /\ m # Codex BY EngineAssumption DEF Lane
    <3>3. /\ Alone(u, m) /\ ledger[u][m].status = "dispatching" /\ ledger'[u][m].status = "started"
      BY <3>1, <3>2, RowWrites
    <3>4. CASE u # t BY <2>0, <3>1, <3>3, <3>4 DEF Alone, LaunchInv
    <3>5. CASE u = t
      <4>1. m = l BY <2>0, <3>2, <3>3, <3>5 DEF RowInv, Booked
      <4>2. launches'[t] = launches[t] + 1 BY <3>1, <3>5 DEF LaunchInv
      <4> QED BY <2>0, <3>2, <3>3, <3>5, <4>1, <4>2 DEF Truth
    <3> QED BY <3>4, <3>5
  <2>7. \/ UNCHANGED <<ledger, launches>>
        \/ \E w \in Worker : UNCHANGED launches /\ (Books(w) \/ Concludes(w) \/ Seals(w))
        \/ \E w \in Worker : WorkerActs(w) /\ Launches(w)
        \/ \E c \in Claim : Serve(c)
    BY Launching
  <2> QED BY <2>1, <2>2, <2>3, <2>4, <2>5, <2>6, <2>7
<1> QED BY <1>2, <1>3

LEMMA LaunchInvStep ==
  ASSUME EngineTypeOK, RunInv, DeskInv, RowInv, RowInv', LaunchInv, [Next]_vars
  PROVE  LaunchInv'
<1>0. /\ launches \in [Task -> Nat] /\ launches' \in [Task -> Nat]
      /\ \A t \in Task : launches[t] <= launches'[t]
  BY LaunchesGrow DEF LaunchInv
<1>1. \A t \in Task : Exists(t) => Exists(t)' /\ profile'[t] = profile[t]
  BY Refines, EngineGrows
<1>2. ASSUME NEW t \in Task, launches'[t] > 0 PROVE Exists(t)'
  <2>1. CASE launches[t] > 0 BY <1>1, <2>1 DEF LaunchInv
  <2>2. ASSUME NEW w \in Worker, Launches(w), ~(launches[t] > 0) PROVE Exists(t)
    BY <1>0, <1>2, <2>2, AtWork DEF Launches, At
  <2>3. ASSUME NEW c \in Claim, Serve(c), ~(launches[t] > 0) PROVE Exists(t)
    BY <1>0, <1>2, <2>3 DEF Serve, Consume, Exists
  <2> QED BY <1>1, <1>2, <2>1, <2>2, <2>3, LaunchMoves
<1>3. ASSUME NEW t \in Task, NEW l \in Lane, Exists(t)', profile'[t].lane = l
      PROVE  Truth(launches'[t], ledger'[t][l], l)
  BY <1>3, TruthStep
<1>4. ASSUME NEW t \in Task, NEW l \in Lane, Booked(t, l)
      PROVE  ledger'[t][l].status # "none" /\ ledger'[t][l].by = ledger[t][l].by
  <2>1. CASE \A u \in Task, m \in Lane : SameRow(u, m) BY <1>4, <2>1 DEF SameRow
  <2>2. ASSUME NEW w \in Worker, Books(w) PROVE SameRow(t, l)
    BY <1>4, <2>2, Booking DEF NewRow
  <2> QED BY <1>4, <2>1, <2>2, RowsMove DEF SameRow
<1>5. ASSUME NEW c \in served'
      PROVE  \E t \in Task, l \in Lane :
                ledger'[t][l].status # "none" /\ ledger'[t][l].by = c /\ launches'[t] > 0
  <2>1. CASE c \in served
    <3>1. PICK t \in Task, l \in Lane : Booked(t, l) /\ ledger[t][l].by = c /\ launches[t] > 0
      BY <2>1 DEF LaunchInv
    <3> QED BY <1>0, <1>4, <3>1
  <2>2. CASE c \notin served
    <3>1. c \in Claim /\ Serve(c)
      BY <1>5, <2>2 DEF Next, vars, wireVars, WorkerActs, Works, CapabilityStep, Quiet, Finish, CapOwn, CapFlag,
         CapRow, CapPrepare, CapRecover, CapRunning, CapOwnAgain, CapFlagAgain, CapRowAgain, CapCall, CapAnswer,
         CapOwnLast, CapFlagLast, CapRowLast, CapDiscard, CapRevoked, CapFinalize, CapSuperseded, CapDisown,
         CapCatch, CapCatchFlag, CapHalt, CapHalted, CapHaltUnowned, CapUnknown, Pipeline, ApplyEdits,
         EvaluateApproval, PromptFinds, PromptInserts, PromptParks, GuardRow, GuardWorkspace,
         GuardControls, MarkRunning, StageBeats, AfterProvider, PassGate, Outside,
         Submit, Clock, Lapse, Receive, Serve, Drop, Settle, Govern, Fault
    <3>2. PICK u \in Task, m \in Capability :
             ledger[u][m].by = c /\ Consume(u, m) /\ launches' = [launches EXCEPT ![u] = @ + 1]
      BY <3>1 DEF Serve
    <3>3. m \in Lane BY DEF Lane
    <3>4. Booked(u, m) BY <3>2 DEF Consume, Booked
    <3> QED BY <1>0, <1>4, <3>2, <3>3, <3>4
  <2> QED BY <2>1, <2>2
<1>6. ASSUME NEW w \in Worker, Armed(w)' PROVE launches'[Mine(w)'] = 0
  <2>0. At(w)' # "idle" /\ At(w)' # "start" BY <1>6 DEF Armed
  <2>1. run'[w] = run[w] \/ (WorkerActs(w) /\ At(w) # "idle" /\ Keeps(w)) BY <2>0, Moving
  <2>2. At(w) # "idle" BY <2>0, <2>1 DEF At
  <2>3. Mine(w)' = Mine(w) /\ Held(w)' = Held(w) /\ Kind(w)' = Kind(w) /\ Mine(w) \in Task /\ Held(w).worker = w
    BY <2>1, <2>2, SameWork
  <2>4. Kind(w) = Codex /\ At(w)' = "provider" /\ Now(w)' \in Ready BY <1>6, <2>3 DEF Armed
  <2>5. Armed(w) \/ Books(w)
    <3>1. CASE run'[w] = run[w] BY <2>4, <3>1 DEF Armed, At, Now
    <3>2. CASE WorkerActs(w) BY <2>4, <3>2, ArmedOn
    <3> QED BY <2>1, <3>1, <3>2
  <2>6. launches[Mine(w)] = 0
    <3>1. CASE Armed(w) BY <3>1 DEF LaunchInv
    <3>2. CASE Books(w)
      <4>1. Kind(w) \in Lane /\ ~Booked(Mine(w), Kind(w)) BY <3>2, Booking DEF NewRow
      <4>2. Exists(Mine(w)) /\ profile[Mine(w)].lane = Kind(w) BY <2>2, AtWork DEF At, Kind
      <4>3. Truth(launches[Mine(w)], ledger[Mine(w)][Kind(w)], Kind(w)) BY <2>3, <4>1, <4>2 DEF LaunchInv
      <4> QED BY <4>1, <4>3 DEF Truth, Booked
    <3> QED BY <2>5, <3>1, <3>2
  <2>7. launches'[Mine(w)] = launches[Mine(w)]
    <3>1. ASSUME NEW v \in Worker, Launches(v), Mine(v) = Mine(w) PROVE FALSE
      <4>1. Kind(v) = Codex BY <2>4, <3>1 DEF Kind
      <4>2. At(v) = "provider" /\ Now(v) = "spawn" /\ Now(v)' = "exec" /\ ~Books(v)
        <5>1. At(v) = "provider" /\ Now(v) = "spawn" /\ Now(v)' = "exec"
          BY <3>1, <4>1 DEF Launches, Lane
        <5>2. ~Books(v)
          <6>1. Books(v) => ~UNCHANGED ledger
            <7>1. ASSUME Books(v) PROVE ~UNCHANGED ledger
              BY <7>1, Booking DEF NewRow, Booked
            <7> QED BY <7>1
          <6> QED BY <3>1, <6>1 DEF Launches
        <5> QED BY <5>1, <5>2
      <4>3. Carries(v) /\ At(v) # "idle" BY <4>1, <4>2 DEF Carries, Carrying, CodexCarries, At, Now
      <4>4. v # w BY <2>4, <4>2 DEF Ready
      <4>5. ~Books(w)
        <5>1. ASSUME Books(w) PROVE FALSE
          <6>1. Booked(Mine(v), Kind(v)) BY <4>3 DEF RowInv
          <6>2. ~Booked(Mine(w), Kind(w)) BY <5>1, Booking DEF NewRow
          <6> QED BY <2>4, <3>1, <4>1, <6>1, <6>2
        <5> QED BY <5>1
      <4>6. Armed(w) BY <2>5, <4>5
      <4>7. Carries(w) BY <4>6 DEF Armed, Ready, Carries, Carrying, CodexCarries, At, Now
      <4>8. Held(v) = Held(w) BY <2>4, <3>1, <4>1, <4>3, <4>7 DEF RowInv
      <4>9. Held(v).worker = v BY <4>3 DEF RunInv, Employed, At, Held
      <4> QED BY <2>3, <4>4, <4>8, <4>9
    <3>2. ASSUME NEW v \in Worker, Launches(v) PROVE launches'[Mine(w)] = launches[Mine(w)]
      <4>1. Mine(v) # Mine(w) BY <3>1, <3>2
      <4> QED BY <1>0, <2>3, <3>2, <4>1 DEF Launches
    <3>3. ASSUME NEW c \in Claim, Serve(c) PROVE launches'[Mine(w)] = launches[Mine(w)]
      <4>1. PICK u \in Task, m \in Capability : Consume(u, m) /\ launches' = [launches EXCEPT ![u] = @ + 1]
        BY <3>3 DEF Serve
      <4>2. m \in Lane /\ m # Codex BY EngineAssumption DEF Lane
      <4>3. Booked(u, m) BY <4>1 DEF Consume, Booked
      <4>4. profile[u].lane = m BY <4>2, <4>3 DEF RowInv
      <4>5. u # Mine(w) BY <2>4, <4>2, <4>4 DEF Kind
      <4> QED BY <1>0, <2>3, <4>1, <4>5
    <3> QED BY <3>2, <3>3, LaunchMoves
  <2> QED BY <2>3, <2>6, <2>7
<1>7. ASSUME NEW w \in Worker, Knows(run[w], Kind(w))' PROVE launches'[Mine(w)'] > 0
  <2>0. At(w)' # "idle" /\ At(w)' # "start" BY <1>7 DEF Knows, At
  <2>1. run'[w] = run[w] \/ (WorkerActs(w) /\ At(w) # "idle" /\ Keeps(w)) BY <2>0, Moving
  <2>2. At(w) # "idle" BY <2>0, <2>1 DEF At
  <2>3. Mine(w)' = Mine(w) /\ Kind(w)' = Kind(w) /\ Mine(w) \in Task BY <2>1, <2>2, SameWork
  <2>4. Knows(run'[w], Kind(w)) BY <1>7, <2>3
  <2>5. CASE Knows(run[w], Kind(w))
    <3>1. launches[Mine(w)] > 0 BY <2>5 DEF LaunchInv
    <3> QED BY <1>0, <2>3, <3>1
  <2>6. CASE Launches(w)
    <3>1. launches'[Mine(w)] = launches[Mine(w)] + 1 BY <1>0, <2>3, <2>6 DEF Launches
    <3> QED BY <1>0, <2>3, <3>1
  <2>7. CASE Held(w) \in served
    <3>1. PICK t \in Task, l \in Lane : Booked(t, l) /\ ledger[t][l].by = Held(w) /\ launches[t] > 0
      BY <2>7 DEF LaunchInv
    <3>2. t = Mine(w) BY <2>2, <3>1 DEF RowInv
    <3> QED BY <1>0, <2>3, <3>1, <3>2
  <2> QED BY <2>1, <2>4, <2>5, <2>6, <2>7, KnowsOn
<1> QED BY <1>0, <1>2, <1>3, <1>5, <1>6, <1>7 DEF LaunchInv, Booked

LEMMA LaunchInvInit == Init => LaunchInv
<1> SUFFICES ASSUME Init PROVE LaunchInv
  OBVIOUS
<1>1. \A w \in Worker : ~Armed(w) /\ ~Knows(run[w], Kind(w))
  BY DEF Init, WorkerInit, Idle, Armed, Knows, At
<1>2. launches = [t \in Task |-> 0] /\ served = {} BY DEF Init, WorkerInit, WireInit
<1>3. \A t \in Task, l \in Lane : ledger[t][l].status = "none" BY DEF Init, EngineInit, NoRow
<1> QED BY <1>1, <1>2, <1>3 DEF LaunchInv, Truth

\* Every dispatch that goes through the ledger.
LEMMA DispatchSafe == Spec => [](EngineTypeOK /\ RunInv /\ DeskInv /\ RowInv /\ LaunchInv)
<1>1. EngineTypeOK /\ RunInv /\ DeskInv /\ RowInv /\ [Next]_vars => RowInv' BY RowInvStep
<1>2. EngineTypeOK /\ RunInv /\ DeskInv /\ RowInv /\ RowInv' /\ LaunchInv /\ [Next]_vars => LaunchInv'
  BY LaunchInvStep
<1> QED BY <1>1, <1>2, RowInvInit, LaunchInvInit, CallersSafe, PTL DEF Spec

\* A dispatch that goes through the ledger reaches the outside at most once in the
\* life of its task, across lapsed leases, crashes, replayed requests and requeued
\* tasks ("automatic replay refused", execute.js and hermes.js).
THEOREM LaunchedOnce == Spec => []OneLaunch
<1>1. LaunchInv => OneLaunch
  BY DEF LaunchInv, OneLaunch, Ledgered, Lane1, Truth
<1> QED BY <1>1, DispatchSafe, PTL

\* The ledger tells the truth about the outside, whoever died on the way.
THEOREM LedgerTells == Spec => []LedgerIsTruthful
<1>1. LaunchInv => LedgerIsTruthful
  BY DEF LaunchInv, LedgerIsTruthful, Ledgered, Dispatch, Lane1, Truth
<1> QED BY <1>1, DispatchSafe, PTL

-----------------------------------------------------------------------------
(* Approval before anything runs                                           *)

\* Policy lets the task run, or an approval of it is on record.
Cleared(t) ==
    /\ Exists(t)
    /\ profile[t].decision # "denied"
    /\ \/ profile[t].decision = "allowed"
       \/ \E i \in 1..Len(approvals[t]) : approvals[t][i].status = "approved"

Dispatching == Routed \cup {"capability"}

\* No approval row is taken away.
LEMMA RowsStay ==
  ASSUME EngineTypeOK, [EngineNext]_engineVars, NEW t \in Task
  PROVE  Len(approvals[t]) \in Nat /\ Len(approvals'[t]) \in Nat /\ Len(approvals[t]) <= Len(approvals'[t])
<1> DEFINE Longer == Len(approvals'[t]) \in Nat /\ Len(approvals[t]) <= Len(approvals'[t])
<1>0. approvals \in [Task -> Seq(Approval)] /\ approvals[t] \in Seq(Approval) BY DEF EngineTypeOK
<1>1. ASSUME NEW u \in Task, NEW ttl \in BOOLEAN, CreateApproval(u, ttl) PROVE Longer
  <2>1. approvals'[t] = approvals[t]
        \/ approvals'[t] = Append(approvals[t], [status |-> "pending", ttl |-> ttl, cold |-> FALSE])
    BY <1>0, <1>1 DEF CreateApproval
  <2> QED BY <1>0, <2>1
<1>2. ASSUME NEW u \in Task, NEW d \in Decision, DecideApproval(u, d) PROVE Longer
  <2>1. PICK j \in 1..Len(approvals[u]) :
          approvals' = [approvals EXCEPT ![u][j].status = IF approvals[u][j].cold THEN "expired" ELSE d]
    BY <1>2 DEF DecideApproval
  <2> QED BY <1>0, <2>1
<1>3. ASSUME NEW u \in Task, ApprovalGoesCold(u) PROVE Longer
  <2>1. PICK j \in 1..Len(approvals[u]) : approvals' = [approvals EXCEPT ![u][j].cold = TRUE]
    BY <1>3 DEF ApprovalGoesCold
  <2> QED BY <1>0, <2>1
<1>4. CASE UNCHANGED approvals BY <1>0, <1>4
<1>5. \/ \E u \in Task, ttl \in BOOLEAN : CreateApproval(u, ttl)
      \/ \E u \in Task, d \in Decision : DecideApproval(u, d)
      \/ \E u \in Task : ApprovalGoesCold(u)
      \/ UNCHANGED approvals
  BY DEF EngineNext, EngineStep, engineVars, CreateTask, Transition, ClaimNext, Heartbeat,
         LeaseExpires, Prepare, FinishCodex, FinishCapability, Consume, Finalize,
         RecordAttempt, SetStop
<1> QED BY <1>0, <1>1, <1>2, <1>3, <1>4, <1>5

\* What has been cleared stays cleared.
LEMMA ClearedStays ==
  ASSUME EngineTypeOK, [EngineNext]_engineVars, NEW t \in Task, Cleared(t)
  PROVE  Cleared(t)'
<1>1. Exists(t)' /\ profile'[t] = profile[t] BY EngineGrows DEF Cleared
<1>2. CASE profile[t].decision = "allowed" BY <1>1, <1>2 DEF Cleared
<1>3. ASSUME NEW i \in 1..Len(approvals[t]), approvals[t][i].status = "approved"
      PROVE  i \in 1..Len(approvals'[t]) /\ approvals'[t][i].status = "approved"
  BY <1>3, RowsStay, DecisionStep
<1> QED BY <1>1, <1>2, <1>3 DEF Cleared

\* A worker comes to where things are dispatched by a verdict that clears its task.
LEMMA Clearing ==
  ASSUME RunInv, EngineTypeOK, NEW w \in Worker, WorkerActs(w), At(w)' \in Dispatching
  PROVE  Keeps(w) /\ (At(w) \in Dispatching \/ Verdict(Mine(w)) = "clear")
<1> USE DEF At, Now
<1>1. At(w)' \notin {"idle", "start", "move", "prompt"} BY DEF Dispatching, Routed, Stages
<1>2. Keeps(w) /\ At(w) # "idle" BY <1>1, WorksMoves DEF Takes, Lands, Idle
<1>3. ~Return(w) BY <1>1 DEF RunInv, RunTyped, Return, Idle
<1>4. \A s : ~Leave(w, s) BY <1>1, Moves
<1>5. \A s : Step(w, s) => At(w) \in Dispatching BY Moves
<1>6. CASE WorkerStep(w)
  <2>1. ~Poll(w) /\ ~Take(w) BY <1>2 DEF Poll, Take, Is
  <2> QED BY <1>2, <1>3, <1>4, <1>5, <1>6, <2>1
      DEF WorkerStep, Precheck, StopFlag, StopHalt, StopRow, Stopped, Move
<1>7. CASE CapabilityStep(w) BY <1>2, <1>7, InCapability DEF Dispatching
<1>8. CASE ProviderStep(w) BY <1>2, <1>8, InProvider DEF Dispatching, Routed
<1>9. CASE EvaluateApproval(w)
  <2>1. ~To(w, "prompt", "find") BY <1>1, Moves, Places
  <2>2. Verdict(Mine(w)) \notin {"blocked", "pending"} BY <1>4, <1>9, <2>1 DEF EvaluateApproval
  <2>3. approvals[Mine(w)] # <<>> => Verdict(Mine(w)) \in {"blocked", "pending", "clear"}
    BY DEF Verdict
  <2>4. approvals[Mine(w)] = <<>> => Verdict(Mine(w)) \in {"blocked", "pending", "clear"}
    BY DEF Verdict
  <2> QED BY <1>2, <2>2, <2>3, <2>4
<1>10. CASE PromptFinds(w) \/ PromptInserts(w) \/ PromptParks(w)
  BY <1>2, <1>3, <1>5, <1>10 DEF PromptFinds, PromptInserts, PromptParks
<1>11. CASE GuardRow(w) \/ GuardWorkspace(w) \/ GuardControls(w) \/ MarkRunning(w) \/ StageBeats(w) \/ AfterProvider(w)
         \/ PassGate(w) \/ ApplyEdits(w)
  BY <1>2, <1>11 DEF GuardRow, GuardWorkspace, GuardControls, MarkRunning, StageBeats, AfterProvider, PassGate,
     ApplyEdits, Is, Dispatching, Routed, Stages
<1> QED BY <1>6, <1>7, <1>8, <1>9, <1>10, <1>11 DEF WorkerActs, Works, Pipeline

LEMMA VerdictClears ==
  ASSUME EngineTypeOK, NEW t \in Task, Exists(t), Verdict(t) = "clear"
  PROVE  Cleared(t)
<1>1. approvals[t] \in Seq(Approval) BY DEF EngineTypeOK
<1>2. profile[t].decision # "denied" BY DEF Verdict
<1>3. CASE profile[t].decision = "allowed" BY <1>2, <1>3 DEF Cleared
<1>4. CASE profile[t].decision # "allowed"
  <2>1. approvals[t] # <<>> /\ Newest(t).status = "approved" BY <1>2, <1>4 DEF Verdict
  <2>2. Len(approvals[t]) \in 1..Len(approvals[t]) BY <1>1, <2>1
  <2> QED BY <1>2, <2>1, <2>2 DEF Cleared, Newest
<1> QED BY <1>3, <1>4

ClearInv ==
    /\ \A w \in Worker : At(w) \in Dispatching => Cleared(Mine(w))
    /\ \A t \in Task, l \in Lane : Booked(t, l) => Cleared(t)
    /\ \A t \in Task : launches[t] > 0 => Cleared(t)

LEMMA ClearInvStep ==
  ASSUME EngineTypeOK, RunInv, DeskInv, LaunchInv, ClearInv, [Next]_vars
  PROVE  ClearInv'
<1>0. [EngineNext]_engineVars BY Refines
<1>1. \A t \in Task : Cleared(t) => Cleared(t)' BY <1>0, ClearedStays
<1>2. "idle" \notin Dispatching /\ "start" \notin Dispatching /\ {"capability", "provider"} \subseteq Dispatching
  BY DEF Dispatching, Routed, Stages
<1>3. ASSUME NEW w \in Worker, At(w)' \in Dispatching PROVE Cleared(Mine(w))'
  <2>1. run'[w] = run[w] \/ (WorkerActs(w) /\ At(w) # "idle" /\ Keeps(w)) BY <1>2, <1>3, Moving
  <2>2. At(w) # "idle" BY <1>2, <1>3, <2>1 DEF At
  <2>3. Mine(w)' = Mine(w) /\ Mine(w) \in Task /\ Exists(Mine(w)) BY <2>1, <2>2, SameWork
  <2>4. Cleared(Mine(w))
    <3>1. CASE At(w) \in Dispatching BY <3>1 DEF ClearInv
    <3>2. CASE Verdict(Mine(w)) = "clear" BY <2>3, <3>2, VerdictClears
    <3>3. At(w) \in Dispatching \/ Verdict(Mine(w)) = "clear"
      BY <1>3, <2>1, Clearing DEF At
    <3> QED BY <3>1, <3>2, <3>3
  <2>5. \A t \in Task : t = Mine(w) => Cleared(t)' BY <1>1, <2>4
  <2>6. PICK t \in Task : t = Mine(w) BY <2>3
  <2>7. Cleared(t)' /\ Mine(w)' = t BY <2>3, <2>5, <2>6
  <2> QED BY <2>7 DEF Cleared, Exists
<1>4. ASSUME NEW t \in Task, NEW l \in Lane, ledger'[t][l].status # "none" PROVE Cleared(t)'
  <2>1. CASE Booked(t, l) BY <1>1, <2>1 DEF ClearInv
  <2>2. ASSUME NEW w \in Worker, Books(w), ~Booked(t, l) PROVE Cleared(t)'
    <3>1. NewRow(w, t, l) BY <1>4, <2>2, Booking DEF SameRow
    <3>2. Cleared(t) BY <1>2, <3>1 DEF NewRow, ClearInv
    <3> QED BY <1>1, <3>2
  <2> QED BY <1>4, <2>1, <2>2, RowsMove DEF SameRow
<1>5. ASSUME NEW t \in Task, launches'[t] > 0 PROVE Cleared(t)'
  <2>0. launches \in [Task -> Nat] BY DEF LaunchInv
  <2>1. CASE launches[t] > 0 BY <1>1, <2>1 DEF ClearInv
  <2>2. ASSUME NEW w \in Worker, Launches(w), ~(launches[t] > 0) PROVE Cleared(t)
    <3>1. t = Mine(w) BY <1>5, <2>0, <2>2 DEF Launches
    <3> QED BY <1>2, <2>2, <3>1 DEF Launches, ClearInv
  <2>3. ASSUME NEW c \in Claim, Serve(c), ~(launches[t] > 0) PROVE Cleared(t)
    <3>1. PICK u \in Task, m \in Capability : Consume(u, m) /\ launches' = [launches EXCEPT ![u] = @ + 1]
      BY <2>3 DEF Serve
    <3>2. t = u /\ m \in Lane BY <1>5, <2>0, <2>3, <3>1 DEF Lane
    <3>3. Booked(t, m) BY <3>1, <3>2 DEF Consume, Booked
    <3> QED BY <3>2, <3>3 DEF ClearInv
  <2> QED BY <1>1, <1>5, <2>1, <2>2, <2>3, LaunchMoves
<1> QED BY <1>3, <1>4, <1>5 DEF ClearInv, Booked

LEMMA ClearInvInit == Init => ClearInv
<1> SUFFICES ASSUME Init PROVE ClearInv
  OBVIOUS
<1>1. \A t \in Task, l \in Lane : ~Booked(t, l) BY DEF Init, EngineInit, Booked, NoRow
<1>2. \A w \in Worker : At(w) \notin Dispatching
  BY DEF Init, WorkerInit, Idle, At, Dispatching, Routed, Stages
<1>3. \A t \in Task : launches[t] = 0 BY DEF Init, WorkerInit
<1> QED BY <1>1, <1>2, <1>3 DEF ClearInv

LEMMA ClearSafe == Spec => []ClearInv
<1>1. EngineTypeOK /\ RunInv /\ DeskInv /\ LaunchInv /\ ClearInv /\ [Next]_vars => ClearInv' BY ClearInvStep
<1> QED BY <1>1, ClearInvInit, DispatchSafe, PTL DEF Spec

\* Nothing runs for a task whose policy asks for approval until an
\* administrator's approval is on record (evaluateApproval before every dispatch).
THEOREM LaunchIsApproved == Spec => []ApprovedBeforeLaunch
<1>1. ClearInv => ApprovedBeforeLaunch BY DEF ClearInv, Cleared, ApprovedBeforeLaunch
<1> QED BY <1>1, ClearSafe, PTL

-----------------------------------------------------------------------------
(* What policy denied                                                      *)

Denied(t) == profile[t].decision = "denied"

\* A denied task is over, nobody works on it, and no handler is about to revive it.
DeniedInv ==
    /\ \A t \in Task : Exists(t) /\ Denied(t) => status[t] \in {"failed", "cancelled"}
    /\ \A w \in Worker : At(w) # "idle" => ~Denied(Mine(w))
    /\ desk # NoRequest /\ desk.op # "reject" => Exists(desk.task) /\ ~Denied(desk.task)

\* A worker changes the status of its own task, or claims one.
LEMMA OwnStatus ==
  ASSUME EngineTypeOK, RunInv, NEW w \in Worker, WorkerActs(w), NEW t \in Task, status'[t] # status[t]
  PROVE  Claimable(t) \/ (At(w) # "idle" /\ t = Mine(w))
<1> SUFFICES ASSUME ~Claimable(t), At(w) = "idle" \/ t # Mine(w) PROVE FALSE
  OBVIOUS
<1>0. /\ status \in [Task -> Status]
      /\ \A s, own : ~Transition(Mine(w), s, own) \/ t = Mine(w)
      /\ \A c, own : ~Finalize(Mine(w), c, own) \/ t = Mine(w)
  BY DEF Transition, Moved, Finalize, EngineTypeOK
<1>1. CASE At(w) = "idle"
  <2>1. CASE WorkerStep(w)
    <3>1. Poll(w) \/ Take(w)
      BY <1>1, <2>1 DEF At, WorkerStep, Precheck, Is, StopFlag, StopHalt, StopRow, Move, Checked, Stages
    <3>2. ~Poll(w) BY DEF Poll, engineVars, taskVars
    <3>3. PICK u \in Task : ClaimNext(w, u) BY <3>1, <3>2 DEF Take, engineVars, taskVars
    <3> QED BY <1>0, <3>3 DEF ClaimNext, OldestClaimable
  <2>2. ~CapabilityStep(w) /\ ~ProviderStep(w) BY <1>1, InCapability, InProvider
  <2>3. ~Pipeline(w) /\ ~ApplyEdits(w)
    BY <1>1 DEF At, Pipeline, ApplyEdits, EvaluateApproval, PromptFinds, PromptInserts, PromptParks,
       GuardRow, GuardWorkspace, GuardControls, MarkRunning, StageBeats, AfterProvider, PassGate, Is, Stages
  <2> QED BY <2>1, <2>2, <2>3 DEF WorkerActs, Works
<1>2. CASE t # Mine(w)
  <2>1. CASE WorkerStep(w)
    <3>1. ~Take(w)
      <4>1. ASSUME NEW u \in Task, ClaimNext(w, u) PROVE FALSE
        BY <1>0, <4>1 DEF ClaimNext, OldestClaimable
      <4> QED BY <4>1 DEF Take, engineVars, taskVars
    <3> QED BY <1>0, <1>2, <2>1, <3>1 DEF WorkerStep, Poll, Precheck, StopFlag, StopHalt, StopRow, Move,
         engineVars, taskVars
  <2>2. CASE CapabilityStep(w)
    <3>1. ~CapFinalize(w) /\ ~CapRunning(w) /\ ~CapDisown(w) /\ ~CapHaltUnowned(w)
      BY <1>0, <1>2 DEF CapFinalize, CapRunning, CapDisown, CapHaltUnowned, engineVars, taskVars
    <3>2. ~CapPrepare(w) BY DEF CapPrepare, Prepare, engineVars, taskVars
    <3>3. \A o, n, x : ~Finish(w, o, n, x) BY DEF Finish, FinishCapability, engineVars, taskVars
    <3> QED BY <2>2, <3>1, <3>2, <3>3 DEF CapabilityStep, Quiet, CapOwn, CapFlag, CapRow, CapRecover,
         CapOwnAgain, CapFlagAgain, CapRowAgain, CapCall, CapAnswer, CapOwnLast, CapFlagLast, CapRowLast,
         CapDiscard, CapRevoked, CapSuperseded, CapCatch, CapCatchFlag, CapHalt, CapHalted, CapUnknown,
         engineVars, taskVars
  <2>3. CASE ProviderStep(w)
    <3>1. ~ProvRetry(w) BY <1>0, <1>2 DEF ProvRetry
    <3> QED BY <2>3, <3>1 DEF ProviderStep, Calm, ProvRow, ProvWorkspace, ProvControls, ProvReplay, ProvPrepare,
         Prepare, ProvRecover, FinishCodex, ProvRenew, ProvLease, Heartbeat, ProvQuarantine, ProvSpawn,
         ProvExec, ProvLift, ProvCall, ProvAnswer, ProvToken, ProvRecord, RecordAttempt, ProvRecorded,
         engineVars, taskVars
  <2>4. CASE Pipeline(w) \/ ApplyEdits(w)
    <3>1. ~PromptParks(w) /\ ~MarkRunning(w) BY <1>0, <1>2 DEF PromptParks, MarkRunning
    <3> QED BY <2>4, <3>1 DEF Pipeline, ApplyEdits, EvaluateApproval, PromptFinds, PromptInserts, CreateApproval,
         GuardRow, GuardWorkspace, GuardControls, StageBeats, Heartbeat, AfterProvider, PassGate, engineVars, taskVars
  <2> QED BY <2>1, <2>2, <2>3, <2>4 DEF WorkerActs, Works
<1> QED BY <1>1, <1>2

\* Who changes the status of a task.
LEMMA StatusMoves ==
  ASSUME EngineTypeOK, RunInv, DeskInv, [Next]_vars, NEW t \in Task, status'[t] # status[t]
  PROVE  \/ \E p \in Profile : CreateTask(t, p)
         \/ Claimable(t)
         \/ status'[t] = "cancelled"
         \/ \E w \in Worker : At(w) # "idle" /\ Mine(w) = t
         \/ desk # NoRequest /\ desk.op # "reject" /\ desk.task = t
<1>0. \A u \in Task : \A s, own : Transition(u, s, own) => t = u /\ status'[t] = s
  BY DEF Transition, Moved, EngineTypeOK
<1>1. CASE \E w \in Worker : WorkerActs(w) BY <1>1, OwnStatus
<1>2. CASE \E u \in Task : Submit(u)
  <2>1. PICK u \in Task, p \in Profile : CreateTask(u, p) BY <1>2 DEF Submit
  <2>2. u = t BY <2>1 DEF CreateTask, EngineTypeOK
  <2> QED BY <2>1, <2>2
<1>3. CASE Govern
  <2>1. ~Asking
    BY DEF Asking, Approve, Pause, Resume, Reject, CancelLooks, EmergencyStop, SetStop, engineVars, taskVars
  <2>2. CASE Apply
    <3>1. desk # NoRequest /\ desk.task \in Task /\ desk.op \in {"approve", "reject", "pause", "resume"}
      BY <2>2 DEF Apply, DeskInv, Request
    <3>2. t = desk.task /\ status'[t] = Target[desk.op] BY <1>0, <2>2, <3>1 DEF Apply
    <3> QED BY <3>1, <3>2 DEF Target
  <2>3. CASE \E u \in Task : CancelApplies(u) BY <1>0, <2>3 DEF CancelApplies
  <2> QED BY <1>3, <2>1, <2>2, <2>3 DEF Govern, Handling, FindPending, InsertRow, CreateApproval, DecideRow,
       DecideApproval, engineVars, taskVars
<1> QED BY <1>1, <1>2, <1>3 DEF Next, vars, engineVars, taskVars, Clock, ApprovalGoesCold, Lapse, LeaseExpires,
     Receive, Serve, Consume, Drop, Settle, OrphanExits, OperatorLifts, Fault

LEMMA DeniedInvStep ==
  ASSUME EngineTypeOK, RunInv, DeskInv, DeniedInv, [Next]_vars
  PROVE  DeniedInv'
<1>0. \A t \in Task : Exists(t) => Exists(t)' /\ profile'[t] = profile[t] BY Refines, EngineGrows
<1>1. ASSUME NEW t \in Task, Exists(t)', Denied(t)' PROVE status'[t] \in {"failed", "cancelled"}
  <2>1. ASSUME NEW p \in Profile, CreateTask(t, p) PROVE status'[t] \in {"failed", "cancelled"}
    BY <1>1, <2>1 DEF CreateTask, Denied, EngineTypeOK
  <2>2. CASE Exists(t)
    <3>1. Denied(t) /\ status[t] \in {"failed", "cancelled"} BY <1>0, <1>1, <2>2 DEF Denied, DeniedInv
    <3>2. ~Claimable(t) BY <3>1 DEF Claimable, Active
    <3>3. ~(\E w \in Worker : At(w) # "idle" /\ Mine(w) = t) BY <3>1 DEF DeniedInv
    <3>4. ~(desk # NoRequest /\ desk.op # "reject" /\ desk.task = t) BY <3>1 DEF DeniedInv
    <3> QED BY <2>1, <3>1, <3>2, <3>3, <3>4, StatusMoves
  <2>3. CASE ~Exists(t)
    <3>1. ~Claimable(t) BY <2>3 DEF Exists, Claimable, Active
    <3>2. ~(\E w \in Worker : At(w) # "idle" /\ Mine(w) = t) BY <2>3, AtWork DEF At
    <3>3. ~(desk # NoRequest /\ desk.op # "reject" /\ desk.task = t) BY <2>3 DEF DeniedInv
    <3>4. status'[t] # status[t] BY <1>1, <2>3 DEF Exists
    <3> QED BY <2>1, <3>1, <3>2, <3>3, <3>4, StatusMoves
  <2> QED BY <2>2, <2>3
<1>2. ASSUME NEW w \in Worker, At(w)' # "idle" PROVE ~Denied(Mine(w))'
  <2>1. CASE run'[w] = run[w] \/ (At(w) # "idle" /\ Keeps(w))
    <3>1. At(w) # "idle" BY <1>2, <2>1 DEF At
    <3>2. Mine(w)' = Mine(w) /\ profile'[Mine(w)] = profile[Mine(w)] BY <2>1, <3>1, SameWork
    <3> QED BY <3>1, <3>2 DEF DeniedInv, Denied
  <2>2. CASE run'[w].task \in Task /\ ClaimNext(w, run'[w].task)
    <3>1. Claimable(run'[w].task) /\ profile' = profile BY <2>2 DEF ClaimNext, OldestClaimable
    <3>2. Exists(run'[w].task) /\ status[run'[w].task] \notin {"failed", "cancelled"}
      BY <3>1 DEF Claimable, Active, Exists
    <3> QED BY <2>2, <3>1, <3>2 DEF DeniedInv, Denied, Mine
  <2> QED BY <1>2, <2>1, <2>2, Moving
<1>3. ASSUME desk' # NoRequest, desk'.op # "reject" PROVE (Exists(desk.task) /\ ~Denied(desk.task))'
  <2>1. CASE desk # NoRequest /\ desk'.op = desk.op /\ desk'.task = desk.task
    <3>1. desk.task \in Task /\ Exists(desk.task) /\ ~Denied(desk.task)
      BY <1>3, <2>1 DEF DeniedInv, DeskInv, Request
    <3> QED BY <1>0, <2>1, <3>1 DEF Denied, Exists
  <2>2. ASSUME NEW t \in Task, desk'.task = t, Exists(t), Elevatable(t) PROVE (Exists(desk.task) /\ ~Denied(desk.task))'
    BY <1>0, <2>2 DEF Elevatable, Denied, Exists
  <2>3. \/ desk # NoRequest /\ desk'.op = desk.op /\ desk'.task = desk.task
        \/ \E t \in Task : desk'.task = t /\ Exists(t) /\ Elevatable(t)
    <3>1. CASE UNCHANGED desk BY <1>3, <3>1
    <3>2. CASE Asking
      BY <1>3, <3>2 DEF Asking, Approve, Pause, Resume, Reject, CancelLooks, EmergencyStop, Opens
    <3>3. CASE Handling
      <4>1. CASE \E s : desk # NoRequest /\ Onto(s)
        <5>1. desk \in Request BY <4>1 DEF DeskInv
        <5>2. desk'.op = desk.op /\ desk'.task = desk.task BY <4>1, <5>1 DEF Onto, Request
        <5> QED BY <4>1, <5>2
      <4>2. Replies \/ UNCHANGED desk \/ \E s : desk # NoRequest /\ Onto(s)
        BY <3>3 DEF Handling, FindPending, InsertRow, DecideRow, Apply, CancelApplies, In
      <4> QED BY <1>3, <4>1, <4>2 DEF Replies
    <3>4. CASE DeskAborts BY <1>3, <3>4 DEF DeskAborts, Replies
    <3>5. Asking \/ Handling \/ DeskAborts \/ UNCHANGED desk
      BY DEF Next, vars, controlVars, WorkerActs, Submit, Clock, Lapse, Receive, Settle, Govern, Fault
    <3> QED BY <3>1, <3>2, <3>3, <3>4, <3>5
  <2> QED BY <2>1, <2>2, <2>3
<1> QED BY <1>1, <1>2, <1>3 DEF DeniedInv

\* A task that policy denied never runs, whatever is asked for it afterwards
\* (createTask, and the refusals of taskRoute).
THEOREM DeniedStays == Spec => []DeniedNeverRuns
<1>1. Init => DeniedInv
  BY DEF Init, EngineInit, WorkerInit, ControlInit, Idle, Exists, At, DeniedInv
<1>2. EngineTypeOK /\ RunInv /\ DeskInv /\ DeniedInv /\ [Next]_vars => DeniedInv' BY DeniedInvStep
<1>3. LaunchInv /\ ClearInv /\ DeniedInv => DeniedNeverRuns
  BY DEF LaunchInv, ClearInv, Cleared, DeniedInv, Denied, DeniedNeverRuns
<1> QED BY <1>1, <1>2, <1>3, DispatchSafe, ClearSafe, PTL DEF Spec

-----------------------------------------------------------------------------
(* From the provider's answer to the end of the pipeline                   *)

Closing == {"gate", "apply_edits", "validate", "commit", "pull_request", "summarize"}
Concluding(r) == r.at \in Closing \/ (r.at = "move" /\ r.step = "completed")

\* The stages in which the artifacts are in the workspace already, and the next.
After == [validate |-> "commit", commit |-> "pull_request", pull_request |-> "summarize"]

\* How a worker gets to where it is in the tail of the pipeline.
TailMove(w) ==
    \/ At(w)' = At(w) /\ At(w) \in Closing /\ Now(w)' \in {"halt", "row", "go"}
    \/ /\ At(w) = "provider" /\ Now(w) = "done" /\ Now(w)' = "flag"
       /\ At(w)' = IF profile[Mine(w)].intent = "read_only" THEN "summarize" ELSE "gate"
    \/ At(w) = "gate" /\ At(w)' = "apply_edits" /\ Now(w)' = "flag"
    \/ /\ At(w) = "apply_edits" /\ At(w)' = "apply_edits" /\ Now(w)' = "write"
       /\ Beats(Mine(w), Held(w))
    \/ /\ At(w) = "apply_edits" /\ Now(w) = "write" /\ At(w)' = "validate"
       /\ edits' = [edits EXCEPT ![Mine(w)] = @ + 1]
    \/ At(w) \in DOMAIN After /\ At(w)' = After[At(w)] /\ Now(w)' = "flag"
    \/ At(w) = "summarize" /\ At(w)' = "move" /\ Now(w)' = "completed"

LEMMA TailFrom ==
  ASSUME RunInv, EngineTypeOK, NEW w \in Worker, WorkerActs(w), Concluding(run'[w])
  PROVE  Keeps(w) /\ At(w) # "idle" /\ TailMove(w)
<1> USE DEF At, Now
<1>0. /\ At(w)' \in Closing \cup {"move"}
      /\ At(w)' = "move" => Now(w)' = "completed"
      /\ Closing \subseteq Checked /\ Closing \cap {"idle", "move", "start", "prompt", "capability", "provider", "guard"} = {}
  BY DEF Concluding, Closing, Checked, Stages
<1>1. Keeps(w) /\ At(w) # "idle" BY <1>0, WorksMoves DEF Takes, Lands, Idle
<1>2. ~Return(w) BY <1>0 DEF RunInv, RunTyped, Return, Idle
<1>3. \A s : Leave(w, s) => s = "completed" BY <1>0, Moves
<1>4. \A s : Step(w, s) => At(w)' = At(w) /\ Now(w)' = s BY Moves
<1>5. \A p \in Points : \A s : To(w, p, s) => At(w)' = p /\ Now(w)' = s BY Moves
<1>6. CASE WorkerStep(w)
  <2>1. ~Poll(w) /\ ~Take(w) BY <1>1 DEF Poll, Take, Is
  <2>2. ~Precheck(w) BY <1>0, <1>2, <1>3, <1>4 DEF Precheck, Is
  <2>3. ~Move(w) BY <1>2 DEF Move
  <2>4. StopFlag(w) \/ StopHalt(w) \/ StopRow(w) =>
          /\ At(w)' = At(w) /\ At(w) \in Checked /\ Now(w)' \in {"halt", "row", "go"}
    BY <1>2, <1>3, <1>4 DEF StopFlag, StopHalt, StopRow, Stopped
  <2>5. "move" \notin Checked BY DEF Checked, Stages
  <2> QED BY <1>0, <1>1, <1>6, <2>1, <2>2, <2>3, <2>4, <2>5 DEF WorkerStep, TailMove
<1>7. ~CapabilityStep(w)
  <2>1. ASSUME CapabilityStep(w) PROVE FALSE
    <3>1. At(w) = "capability" /\ At(w)' = "move" BY <1>0, <2>1, InCapability, CapabilityLands
    <3>2. \A s : ~Step(w, s) BY <1>4, <3>1
    <3>3. ~Leave(w, "failed") /\ ~Leave(w, "cancelled") /\ ~Leave(w, "outcome_unknown") BY <1>3
    <3> QED BY <1>2, <2>1, <3>2, <3>3
       DEF CapabilityStep, Finish, CapOwn, CapFlag, CapRow, CapPrepare,
       CapRecover, CapRunning, CapOwnAgain, CapFlagAgain, CapRowAgain, CapCall, CapAnswer, CapOwnLast,
       CapFlagLast, CapRowLast, CapDiscard, CapRevoked, CapFinalize, CapSuperseded, CapDisown, CapCatch,
       CapCatchFlag, CapHalt, CapHalted, CapHaltUnowned, CapUnknown
  <2> QED BY <2>1
<1>8. ~ProviderStep(w)
  <2>1. ASSUME ProviderStep(w) PROVE FALSE
    <3>1. At(w) = "provider" /\ At(w)' = "move" BY <1>0, <2>1, InProvider, ProviderLands
    <3>2. \A s : ~Step(w, s) BY <1>4, <3>1
    <3>3. \A r \in Result : \A s : ~Got(w, r, s) BY <3>1, Moves
    <3>4. {"ok", "failed", "unknown", "handed_off"} \subseteq Result BY DEF Result
    <3>5. ~Leave(w, "failed") /\ ~Leave(w, "waiting_for_manual_response") BY <1>3
    <3>6. ~ProvLease(w) /\ ~ProvRetry(w)
      BY <3>1, <3>5 DEF ProvLease, ProvRetry, RunInv, RunTyped, Record
    <3> QED BY <1>2, <2>1, <3>2, <3>3, <3>4, <3>5, <3>6
       DEF ProviderStep, ProvRow, ProvWorkspace, ProvControls, ProvReplay, ProvPrepare, ProvRecover, ProvRenew,
       ProvQuarantine, ProvSpawn, ProvExec, ProvLift, ProvCall, ProvAnswer, ProvToken, ProvRecord, ProvRecorded
  <2> QED BY <2>1
<1>9. CASE Pipeline(w) \/ ApplyEdits(w)
  <2>1. Stages \subseteq Points /\ {"prompt", "capability", "guard", "gate", "move", "provider"} \subseteq Points
    BY Places
  <2>2. ~Leave(w, "failed") /\ ~Leave(w, "cancelled") BY <1>3
  <2>3. CASE StageBeats(w)
    <3>1. At(w) \in Stages /\ Beats(Mine(w), Held(w))
          /\ To(w, Following[At(w)][1], Following[At(w)][2])
      BY <2>2, <2>3 DEF StageBeats
    <3>2. At(w) \in Stages /\ Following[At(w)][1] \in Points
      BY <2>1, <3>1 DEF Stages, Following
    <3>3. At(w)' = Following[At(w)][1] /\ Now(w)' = Following[At(w)][2] BY <1>5, <3>1, <3>2
    <3>4. At(w) \notin {"inspect_workspace", "build_plan", "decompose", "select_provider"}
      BY <1>0, <3>3 DEF Following, Closing
    <3> QED BY <1>1, <3>1, <3>3, <3>4 DEF Following, Stages, After, TailMove
  <2>4. CASE AfterProvider(w)
    <3>1. At(w) = "provider" /\ Now(w) = "done" BY <2>4 DEF AfterProvider, Is
    <3>2. "summarize" \in Points BY <2>1 DEF Stages
    <3> QED BY <1>1, <1>5, <2>1, <2>2, <2>4, <3>1, <3>2 DEF AfterProvider, TailMove
  <2>5. CASE PassGate(w)
    <3>1. "apply_edits" \in Points BY <2>1 DEF Stages
    <3> QED BY <1>1, <1>5, <2>5, <3>1 DEF PassGate, Is, TailMove
  <2>6. CASE ApplyEdits(w)
    <3>1. "validate" \in Points BY <2>1 DEF Stages
    <3> QED BY <1>1, <1>5, <2>2, <2>6, <3>1 DEF ApplyEdits, Is, TailMove
  <2>7. ~EvaluateApproval(w) BY <1>0, <1>5, <2>1, <2>2 DEF EvaluateApproval
  <2>8. ~PromptFinds(w) /\ ~PromptInserts(w) /\ ~PromptParks(w) /\ ~GuardRow(w) /\ ~GuardWorkspace(w) /\ ~GuardControls(w)
    BY <1>0, <1>2, <1>4, <2>2 DEF PromptFinds, PromptInserts, PromptParks, GuardRow, GuardWorkspace, GuardControls, Is
  <2>9. ~MarkRunning(w)
    <3>1. {"inspect_workspace", "decompose"} \subseteq Points \ (Closing \cup {"move"})
      BY DEF Closing, Points, Checked, Stages
    <3> QED BY <1>0, <1>5, <3>1 DEF MarkRunning
  <2> QED BY <1>9, <2>3, <2>4, <2>5, <2>6, <2>7, <2>8, <2>9 DEF Pipeline
<1> QED BY <1>6, <1>7, <1>8, <1>9 DEF WorkerActs, Works

-----------------------------------------------------------------------------
(* One write of the artifacts                                              *)

\* Past the replay guard, and so still able to write.
PastSteps == CodexCarries \cup {"call", "answer"}
Past(r) == (r.at = "provider" /\ r.step \in PastSteps) \/ r.at \in {"gate", "apply_edits"}

\* What the replay guard looks at: the row of a Codex task, the recorded attempt
\* of another.
Spent(t) == IF profile[t].lane = Codex THEN Booked(t, Codex) ELSE recorded[t] > 0

\* The edits are about to be written.
Writing(w) == Is(w, "apply_edits", "write")

LEMMA PastOn ==
  ASSUME RunInv, EngineTypeOK, NEW w \in Worker, WorkerActs(w), Past(run'[w])
  PROVE  Keeps(w) /\ At(w) # "idle" /\ (Past(run[w]) \/ ~Spent(Mine(w)))
<1> USE DEF At, Now
<1>1. CASE At(w)' \in {"gate", "apply_edits"}
  <2>1. Keeps(w) /\ At(w) # "idle" /\ TailMove(w) BY <1>1, TailFrom DEF Concluding, Closing
  <2> QED BY <1>1, <2>1 DEF TailMove, Past, PastSteps, CodexCarries, After
<1>2. CASE At(w)' = "provider"
  <2>1. Now(w)' \in PastSteps BY <1>2 DEF Past
  <2>2. ProviderStep(w) BY <1>2, <2>1, Inside DEF PastSteps, CodexCarries
  <2>3. At(w) = "provider" BY <2>2, InProvider
  <2>4. Keeps(w) BY <1>2, <2>2, ProviderMoves DEF Lands, Idle
  <2>5. CASE Kind(w) = Codex
    <3>1. Now(w)' \in CodexCarries
      BY <1>2, <2>1, <2>2, <2>5, ProviderMoves DEF PastSteps, Lands, Idle, Legal, Provider, Kind
    <3>2. Carries(w) \/ Books(w) BY <1>2, <2>5, <3>1, CarriedOn DEF Carrying
    <3>3. CASE Carries(w) BY <2>3, <2>4, <2>5, <3>3 DEF Carries, Carrying, Past, PastSteps
    <3>4. CASE Books(w) BY <2>3, <2>4, <2>5, <3>4 DEF Books, Prepare, Spent, Booked, Kind
    <3> QED BY <3>2, <3>3, <3>4
  <2>6. CASE Kind(w) # Codex
    <3>1. \A s : Step(w, s) => s \in PastSteps BY <2>1, Moves
    <3>2. \A s : ~Leave(w, s) BY <1>2, Moves
    <3>3. ~Return(w) BY <1>2 DEF RunInv, RunTyped, Return, Idle
    <3>4. CASE ProvReplay(w)
      BY <2>3, <2>4, <2>6, <3>2, <3>4 DEF ProvReplay, Spent, Kind, EngineTypeOK
    <3>5. CASE ProvRenew(w) \/ ProvLease(w) \/ ProvCall(w) \/ ProvAnswer(w) \/ ProvToken(w)
            \/ ProvRecord(w) \/ ProvRecorded(w)
      BY <2>3, <2>4, <3>5 DEF ProvIs, Is, ProvRenew, ProvLease, ProvCall, ProvAnswer, ProvToken, ProvRecord,
         ProvRecorded, Past, PastSteps, CodexCarries
    <3>6. ~ProvPrepare(w) /\ ~ProvRecover(w) /\ ~ProvQuarantine(w) /\ ~ProvSpawn(w)
      BY <2>3, <2>6 DEF ProvPrepare, ProvRecover, ProvQuarantine, ProvSpawn, ProvIs, Is, RunInv, OnLane, CodexSteps,
         Provider, Kind
    <3>7. CASE ProvExec(w) \/ ProvLift(w)
      BY <2>3, <2>4, <3>7 DEF ProvExec, ProvLift, ProvIs, Is, Past, PastSteps, CodexCarries
    <3>8. ~ProvRow(w) /\ ~ProvWorkspace(w)
      BY <3>1, <3>2 DEF ProvRow, ProvWorkspace, PastSteps, CodexCarries
    <3>9. ~ProvControls(w)
      BY <3>1, <3>2 DEF ProvControls, PastSteps, CodexCarries
    <3>10. ~ProvRetry(w)
      <4>1. ASSUME run' = [run EXCEPT ![w].step = "flag", ![w].try = @ + 1, ![w].got = "none"] PROVE FALSE
        <5>1. Now(w)' = "flag" BY <4>1 DEF RunInv, RunTyped, Record
        <5> QED BY <2>1, <5>1 DEF PastSteps, CodexCarries
      <4> QED BY <3>2, <4>1 DEF ProvRetry
    <3> QED BY <2>2, <2>3, <2>4, <3>4, <3>5, <3>6, <3>7, <3>8, <3>9, <3>10 DEF ProviderStep
  <2> QED BY <2>5, <2>6
<1> QED BY <1>1, <1>2 DEF Past

\* The edits change by the step of a worker that then has left the write behind.
LEMMA EditsMove ==
  ASSUME RunInv, EngineTypeOK, [Next]_vars
  PROVE  \/ UNCHANGED edits
         \/ \E w \in Worker :
              /\ WorkerActs(w) /\ Writing(w) /\ At(w)' # "apply_edits" /\ ~Past(run'[w])
              /\ edits' = [edits EXCEPT ![Mine(w)] = @ + 1]
              /\ UNCHANGED engineVars
<1>1. ASSUME NEW w \in Worker, WorkerActs(w), ~UNCHANGED edits
      PROVE  /\ WorkerActs(w) /\ Writing(w) /\ At(w)' # "apply_edits" /\ ~Past(run'[w])
             /\ edits' = [edits EXCEPT ![Mine(w)] = @ + 1]
             /\ UNCHANGED engineVars
  <2>1. ApplyEdits(w) BY <1>1 DEF WorkerActs, Works
  <2>2. (To(w, "validate", "flag") \/ Leave(w, "failed")) /\ edits' = [edits EXCEPT ![Mine(w)] = @ + 1]
    BY <1>1, <2>1 DEF ApplyEdits
  <2>3. \/ run'[w].at = "validate"
        \/ run'[w].at = "move" /\ run'[w].step = "failed"
    BY <2>2, Moves, Places DEF Stages
  <2> QED BY <1>1, <2>1, <2>2, <2>3 DEF ApplyEdits, Writing, Past, At
<1> QED BY <1>1 DEF Next, vars, Submit, Clock, Lapse, Receive, Settle, Govern, Fault

\* An answer that may be acted on.
Answering(r) ==
    \/ r.at = "provider" /\ (r.step = "done" \/ (r.step = "recorded" /\ r.got = "ok"))
    \/ r.at \in {"gate", "apply_edits"}

\* The answer is put on record.
Records(w) ==
    /\ At(w) = "provider" /\ Now(w) = "record" /\ run[w].got = "ok"
    /\ IF Kind(w) = Codex THEN FinishCodex(Mine(w), "completed") ELSE RecordAttempt(Mine(w))

\* Nobody acts on an answer that has not been recorded.
LEMMA AnswersOn ==
  ASSUME RunInv, EngineTypeOK, NEW w \in Worker, WorkerActs(w), Answering(run'[w])
  PROVE  Keeps(w) /\ At(w) # "idle" /\ (Answering(run[w]) \/ Records(w))
<1> USE DEF At, Now
<1>1. CASE At(w)' \in {"gate", "apply_edits"}
  <2>1. Keeps(w) /\ At(w) # "idle" /\ TailMove(w) BY <1>1, TailFrom DEF Concluding, Closing
  <2> QED BY <1>1, <2>1 DEF TailMove, Answering, After
<1>2. CASE At(w)' = "provider"
  <2>1. Now(w)' \in {"done", "recorded"} /\ (Now(w)' = "recorded" => run'[w].got = "ok")
    BY <1>2 DEF Answering
  <2>2. ProviderStep(w) BY <1>2, <2>1, Inside
  <2>3. At(w) = "provider" /\ Mine(w) \in Task BY <2>2, InProvider, AtWork
  <2>4. Keeps(w) BY <1>2, <2>2, ProviderMoves DEF Lands, Idle
  <2>5. \A s : Step(w, s) => s \in {"done", "recorded"} /\ (s = "recorded" => run[w].got = "ok")
    BY <2>1, Moves
  <2>6. \A r \in Result : \A s : Got(w, r, s) => s \in {"done", "recorded"} BY <2>1, Moves
  <2>7. {"ok", "failed", "unknown", "handed_off"} \subseteq Result BY DEF Result
  <2>8. \A s : ~Leave(w, s) BY <1>2, Moves
  <2>9. ~Return(w) BY <1>2 DEF RunInv, RunTyped, Return, Idle
  <2>10. CASE ProvRecord(w)
    <3>1. Now(w) = "record" /\ Step(w, "recorded") BY <2>8, <2>10 DEF ProvRecord, ProvIs, Is
    <3>2. run[w].got = "ok" BY <2>5, <3>1
    <3>3. CASE Kind(w) = Codex
      <4>1. FinishCodex(Mine(w), Outcome(w)) BY <2>8, <2>10, <3>3 DEF ProvRecord, Provider, Kind
      <4>2. Outcome(w) = "completed" BY <3>2 DEF Outcome
      <4> QED BY <2>3, <2>4, <3>1, <3>2, <3>3, <4>1, <4>2 DEF Records
    <3>4. CASE Kind(w) # Codex
      <4>1. RecordAttempt(Mine(w)) BY <2>10, <3>2, <3>4 DEF ProvRecord, Provider, Kind
      <4> QED BY <2>3, <2>4, <3>1, <3>2, <3>4, <4>1 DEF Records
    <3> QED BY <3>3, <3>4
  <2>11. CASE ProvRecorded(w)
    <3>1. Step(w, "done") /\ run[w].got = "ok" BY <2>5, <2>8, <2>11 DEF ProvRecorded
    <3> QED BY <2>3, <2>4, <2>11, <3>1 DEF ProvRecorded, ProvIs, Is, Answering
  <2>12. ~ProvLease(w)
    <3>1. ProvLease(w) => Now(w)' = Now(w) BY DEF ProvLease, RunInv, RunTyped, Record
    <3> QED BY <2>1, <3>1 DEF ProvLease
  <2>13. ~ProvRetry(w)
    <3>1. ASSUME run' = [run EXCEPT ![w].step = "flag", ![w].try = @ + 1, ![w].got = "none"] PROVE FALSE
      BY <2>1, <3>1 DEF RunInv, RunTyped, Record
    <3> QED BY <2>8, <3>1 DEF ProvRetry
  <2>14. /\ ~ProvRow(w) /\ ~ProvWorkspace(w) /\ ~ProvControls(w) /\ ~ProvReplay(w)
         /\ ~ProvPrepare(w) /\ ~ProvRecover(w) /\ ~ProvRenew(w)
    <3>1. \A s \in {"workspace", "controls", "prepare", "replay", "renew", "recover", "quarantine", "call"} : ~Step(w, s)
      BY <2>5
    <3> QED BY <2>8, <2>9, <3>1 DEF ProvRow, ProvWorkspace, ProvReplay, ProvPrepare, ProvRecover, ProvRenew, ProvControls
  <2>15. ~ProvQuarantine(w) /\ ~ProvSpawn(w) /\ ~ProvExec(w) /\ ~ProvLift(w) /\ ~ProvCall(w) /\ ~ProvAnswer(w)
    <3>1. \A s \in {"spawn", "exec", "answer", "token"} : ~Step(w, s) BY <2>5
    <3>2. \A r \in Result : \A s \in {"token", "lift"} : ~Got(w, r, s) BY <2>6
    <3> QED BY <2>7, <3>1, <3>2 DEF ProvQuarantine, ProvSpawn, ProvExec, ProvLift, ProvCall, ProvAnswer
  <2>16. ~ProvToken(w) BY <2>5, <2>9 DEF ProvToken
  <2> QED BY <2>2, <2>10, <2>11, <2>12, <2>13, <2>14, <2>15, <2>16 DEF ProviderStep
<1> QED BY <1>1, <1>2 DEF Answering

\* A task changes hands only to a claim that nobody has held before.
LEMMA HoldsOn ==
  ASSUME EngineTypeOK, RunInv, DeskInv, [Next]_vars, NEW w \in Worker, At(w) # "idle",
         run'[w] = run[w] \/ Keeps(w), Holds(w)'
  PROVE  Holds(w)
<1>1. Mine(w)' = Mine(w) /\ Held(w)' = Held(w) /\ Mine(w) \in Task /\ Held(w) \in Claim /\ Held(w).token <= issued
  BY SameWork
<1>2. issued \in Nat /\ Held(w).token \in Nat BY <1>1, EngineAssumption DEF EngineTypeOK, Claim
<1>3. UNCHANGED owner \/ \E v \in Worker, t \in Task : ClaimNext(v, t)
  BY Refines DEF EngineNext, EngineStep, engineVars, taskVars, CreateTask, Transition, Heartbeat,
     LeaseExpires, Prepare, FinishCodex, FinishCapability, Consume, Finalize, RecordAttempt, CreateApproval,
     DecideApproval, ApprovalGoesCold, SetStop
<1>4. CASE UNCHANGED owner BY <1>1, <1>4 DEF Holds
<1>5. ASSUME NEW v \in Worker, NEW t \in Task, ClaimNext(v, t), Mine(w) = t PROVE FALSE
  <2>1. owner'[t] = FreshClaim(v) BY <1>5 DEF ClaimNext, EngineTypeOK
  <2>2. Held(w) = FreshClaim(v) BY <1>1, <1>5, <2>1 DEF Holds
  <2> QED BY <1>1, <1>2, <2>2 DEF FreshClaim
<1>6. ASSUME NEW v \in Worker, NEW t \in Task, ClaimNext(v, t), Mine(w) # t PROVE Holds(w)
  BY <1>1, <1>6 DEF ClaimNext, EngineTypeOK, Holds
<1> QED BY <1>3, <1>4, <1>5, <1>6

\* And one worker holds it at a time.
LEMMA OneHolder ==
  ASSUME RunInv, NEW w \in Worker, NEW v \in Worker, At(w) # "idle", At(v) # "idle",
         Mine(w) = Mine(v), Holds(w), Holds(v)
  PROVE  w = v
  BY DEF RunInv, Employed, Holds, Held, Mine, At

\* What is spent stays spent.
LEMMA SpentStays ==
  ASSUME EngineTypeOK, RunInv, DeskInv, [Next]_vars, NEW t \in Task, Exists(t), Spent(t)
  PROVE  Spent(t)' /\ Exists(t)'
<1>1. Exists(t)' /\ profile'[t] = profile[t] BY Refines, EngineGrows
<1>2. recorded'[t] >= recorded[t] /\ recorded[t] \in Nat /\ recorded'[t] \in Nat
  <2>1. UNCHANGED recorded \/ \E u \in Task : RecordAttempt(u)
    BY Refines DEF EngineNext, EngineStep, engineVars, ledgerVars, CreateTask, Transition, ClaimNext, Heartbeat,
       LeaseExpires, Prepare, FinishCodex, FinishCapability, Consume, Finalize, CreateApproval,
       DecideApproval, ApprovalGoesCold, SetStop
  <2>2. recorded \in [Task -> 0..MaxRecords] /\ MaxRecords \in Nat BY EngineAssumption DEF EngineTypeOK
  <2>3. recorded[t] \in Nat BY <2>2
  <2>4. ASSUME NEW u \in Task, RecordAttempt(u)
        PROVE  recorded'[t] = IF t = u THEN recorded[t] + 1 ELSE recorded[t]
    BY <2>2, <2>4 DEF RecordAttempt
  <2>5. recorded'[t] = recorded[t] \/ recorded'[t] = recorded[t] + 1 BY <2>1, <2>4
  <2> QED BY <2>3, <2>5
<1>3. Booked(t, Codex) => Booked(t, Codex)'
  <2>1. Codex \in Lane BY DEF Lane
  <2>2. SameRow(t, Codex) \/ ~Booked(t, Codex) BY <2>1, RowsMove, Booking DEF NewRow
  <2> QED BY <2>2 DEF SameRow, Booked
<1> QED BY <1>1, <1>2, <1>3 DEF Spent

\* Whoever writes has the dispatch of its task to itself: everyone else past the
\* guard has lost the claim, and once the edits are written, everyone has.
EditInv ==
    /\ edits \in [Task -> Nat]
    /\ \A t \in Task : edits[t] <= 1
    /\ \A t \in Task : edits[t] > 0 => Exists(t) /\ Spent(t)
    /\ \A w \in Worker : Answering(run[w]) => Spent(Mine(w))
    /\ \A w \in Worker : Writing(w) => edits[Mine(w)] = 0
    /\ \A w, v \in Worker : Writing(w) /\ Past(run[v]) /\ v # w /\ Mine(v) = Mine(w) => ~Holds(v) /\ ~Writing(v)
    /\ \A v \in Worker : Past(run[v]) /\ edits[Mine(v)] > 0 => ~Holds(v)

\* A worker that is past the guard was so before, or its task was not spent.
LEMMA PastStays ==
  ASSUME EngineTypeOK, RunInv, DeskInv, [Next]_vars, NEW w \in Worker, Past(run'[w])
  PROVE  /\ At(w) # "idle" /\ Mine(w)' = Mine(w) /\ Mine(w) \in Task /\ Exists(Mine(w))
         /\ run'[w] = run[w] \/ Keeps(w)
         /\ Past(run[w]) \/ ~Spent(Mine(w))
<1>1. At(w)' # "idle" /\ At(w)' # "start" BY DEF Past, At
<1>2. run'[w] = run[w] \/ (WorkerActs(w) /\ At(w) # "idle" /\ Keeps(w)) BY <1>1, Moving
<1>3. At(w) # "idle" BY <1>1, <1>2 DEF At
<1>4. Mine(w)' = Mine(w) /\ Mine(w) \in Task /\ Exists(Mine(w)) BY <1>2, <1>3, SameWork
<1>5. Past(run[w]) \/ ~Spent(Mine(w)) BY <1>2, PastOn
<1> QED BY <1>2, <1>3, <1>4, <1>5

LEMMA WritingOn ==
  ASSUME EngineTypeOK, RunInv, [Next]_vars, NEW w \in Worker, Writing(w)', run'[w] # run[w]
  PROVE  WorkerActs(w) /\ Keeps(w) /\ Answering(run[w]) /\ Past(run[w]) /\ Holds(w) /\ At(w) # "idle"
<1>1. At(w)' = "apply_edits" /\ Now(w)' = "write" BY DEF Writing, Is, At, Now
<1>2. WorkerActs(w) BY <1>1, Moving
<1>3. Keeps(w) /\ At(w) # "idle" /\ TailMove(w) BY <1>1, <1>2, TailFrom DEF Concluding, Closing, At
<1>4. At(w) = "apply_edits" /\ Beats(Mine(w), Held(w)) BY <1>1, <1>3 DEF TailMove, After
<1>5. Held(w) # NoClaim BY <1>3, EngineAssumption DEF RunInv, Employed, At, Held
<1> QED BY <1>2, <1>3, <1>4, <1>5 DEF Beats, Holds, Answering, Past, At

LEMMA EditInvStep ==
  ASSUME EngineTypeOK, RunInv, DeskInv, RowInv, RowInv', EditInv, [Next]_vars
  PROVE  EditInv'
<1>1. /\ edits' \in [Task -> Nat]
      /\ \A t \in Task : edits'[t] # edits[t] =>
            /\ edits[t] = 0 /\ edits'[t] = 1
            /\ \E w \in Worker : Writing(w) /\ t = Mine(w) /\ WorkerActs(w) /\ ~Past(run'[w])
  <2>1. ASSUME NEW w \in Worker, Writing(w), edits' = [edits EXCEPT ![Mine(w)] = @ + 1],
               WorkerActs(w), ~Past(run'[w])
        PROVE  /\ edits' \in [Task -> Nat]
               /\ \A t \in Task : edits'[t] # edits[t] =>
                     /\ edits[t] = 0 /\ edits'[t] = 1
                     /\ Writing(w) /\ t = Mine(w) /\ WorkerActs(w) /\ ~Past(run'[w])
    <3>1. Mine(w) \in Task /\ edits[Mine(w)] = 0
      BY <2>1, AtWork DEF Writing, Is, EditInv
    <3> QED BY <2>1, <3>1 DEF EditInv
  <2>2. CASE UNCHANGED edits BY <2>2 DEF EditInv
  <2> QED BY <2>1, <2>2, EditsMove
<1>2. \A w \in Worker : Writing(w) => Answering(run[w]) /\ Past(run[w]) /\ At(w) # "idle" /\ Mine(w) \in Task /\ Exists(Mine(w))
  BY AtWork DEF Writing, Is, Answering, Past, At
<1>3. \A t \in Task : edits'[t] <= 1
  BY <1>1 DEF EditInv
<1>4. ASSUME NEW t \in Task, edits'[t] > 0 PROVE Exists(t)' /\ Spent(t)'
  <2>1. CASE edits[t] > 0 BY <2>1, SpentStays DEF EditInv
  <2>2. ASSUME NEW w \in Worker, Writing(w), t = Mine(w) PROVE Exists(t)' /\ Spent(t)'
    <3>1. Exists(t) /\ Spent(t) BY <1>2, <2>2 DEF EditInv
    <3> QED BY <3>1, SpentStays
  <2> QED BY <1>1, <1>4, <2>1, <2>2
<1>5. ASSUME NEW w \in Worker, Answering(run'[w]) PROVE Spent(Mine(w))'
  <2>1. Past(run'[w]) BY <1>5 DEF Answering, Past, PastSteps, CodexCarries
  <2>2. At(w) # "idle" /\ Mine(w)' = Mine(w) /\ Mine(w) \in Task /\ Exists(Mine(w)) /\ (run'[w] = run[w] \/ Keeps(w))
    BY <2>1, PastStays
  <2>3. profile'[Mine(w)] = profile[Mine(w)] BY <2>2, SameWork
  <2>4. CASE Kind(w) = Codex
    <3>1. Kind(w)' = Codex BY <2>2, <2>3, <2>4 DEF Kind
    <3>2. Carries(w)' BY <1>5, <3>1 DEF Carries, Carrying, Answering, CodexCarries
    <3>3. Booked(Mine(w), Kind(w))' BY <3>2 DEF RowInv
    <3> QED BY <3>1, <3>3 DEF Spent, Kind, Booked
  <2>5. CASE Kind(w) # Codex
    <3>1. CASE Answering(run[w])
      <4>1. Spent(Mine(w)) BY <3>1 DEF EditInv
      <4>2. PICK t \in Task : t = Mine(w) BY <2>2
      <4>3. Spent(t)' BY <2>2, <4>1, <4>2, SpentStays
      <4> QED BY <2>2, <4>2, <4>3 DEF Spent, Booked
    <3>2. CASE Records(w)
      <4>1. RecordAttempt(Mine(w)) BY <2>5, <3>2 DEF Records
      <4>2. recorded'[Mine(w)] > 0
        BY <2>2, <4>1, EngineAssumption DEF RecordAttempt, EngineTypeOK
      <4> QED BY <2>2, <2>3, <2>5, <4>2 DEF Spent, Kind
    <3>3. run'[w] = run[w] \/ WorkerActs(w)
      BY <2>1, Moving DEF Past, At
    <3> QED BY <1>5, <2>5, <3>1, <3>2, <3>3, AnswersOn
  <2> QED BY <2>4, <2>5
<1>6. ASSUME NEW w \in Worker, Writing(w)' PROVE edits'[Mine(w)'] = 0
  <2>1. Past(run'[w]) BY <1>6 DEF Writing, Is, Past
  <2>2. Mine(w)' = Mine(w) /\ Mine(w) \in Task BY <2>1, PastStays
  <2>3. edits[Mine(w)] = 0
    <3>1. CASE run'[w] = run[w] BY <1>6, <3>1 DEF Writing, Is, EditInv
    <3>2. CASE run'[w] # run[w]
      <4>1. Past(run[w]) /\ Holds(w) BY <1>6, <3>2, WritingOn
      <4> QED BY <2>2, <4>1 DEF EditInv
    <3> QED BY <3>1, <3>2
  <2>4. ASSUME NEW v \in Worker, Writing(v), Mine(w) = Mine(v), WorkerActs(v), ~Past(run'[v]) PROVE FALSE
    <3>1. w # v BY <2>1, <2>4
    <3>2. run'[w] = run[w] BY <2>4, <3>1, Others
    <3>3. Writing(w) BY <1>6, <3>2 DEF Writing, Is
    <3> QED BY <1>2, <2>4, <3>1, <3>3 DEF EditInv
  <2> QED BY <1>1, <2>2, <2>3, <2>4
<1>7. ASSUME NEW w \in Worker, NEW v \in Worker, Writing(w)', Past(run'[v]), v # w, Mine(v)' = Mine(w)'
      PROVE  ~Holds(v)' /\ ~Writing(v)'
  <2>1. Past(run'[w]) BY <1>7 DEF Writing, Is, Past
  <2>2. /\ At(w) # "idle" /\ At(v) # "idle" /\ Mine(v) = Mine(w) /\ Mine(w) \in Task /\ Exists(Mine(w))
        /\ run'[v] = run[v] \/ Keeps(v)
        /\ Past(run[v]) \/ ~Spent(Mine(v))
    BY <1>7, <2>1, PastStays
  <2>3. Answering(run[w])
    <3>1. CASE run'[w] = run[w] BY <1>2, <1>7, <3>1 DEF Writing, Is
    <3> QED BY <1>7, <3>1, WritingOn
  <2>4. Past(run[v]) BY <2>2, <2>3 DEF EditInv
  <2>5. Holds(v)' => Holds(v) BY <2>2, HoldsOn
  <2>6. CASE run'[w] = run[w]
    <3>1. Writing(w) BY <1>7, <2>6 DEF Writing, Is
    <3>2. ~Holds(v) /\ ~Writing(v) BY <1>7, <2>2, <2>4, <3>1 DEF EditInv
    <3>3. ~Writing(v)'
      <4>1. ASSUME Writing(v)', run'[v] = run[v] PROVE FALSE BY <3>2, <4>1 DEF Writing, Is
      <4> QED BY <3>2, <4>1, WritingOn
    <3> QED BY <2>5, <3>2, <3>3
  <2>7. CASE run'[w] # run[w]
    <3>1. Holds(w) /\ WorkerActs(w) /\ Past(run[w]) BY <1>7, <2>7, WritingOn
    <3>2. ~Holds(v) BY <1>7, <2>2, <3>1, OneHolder
    <3>3. run'[v] = run[v] BY <1>7, <3>1, Others
    <3>4. ~Writing(v)'
      <4>1. ASSUME Writing(v) PROVE FALSE BY <1>7, <2>2, <3>1, <4>1 DEF EditInv
      <4> QED BY <3>3, <4>1 DEF Writing, Is
    <3> QED BY <2>5, <3>2, <3>4
  <2> QED BY <2>6, <2>7
<1>8. ASSUME NEW v \in Worker, Past(run'[v]), edits'[Mine(v)'] > 0 PROVE ~Holds(v)'
  <2>1. /\ At(v) # "idle" /\ Mine(v)' = Mine(v) /\ Mine(v) \in Task /\ Exists(Mine(v))
        /\ run'[v] = run[v] \/ Keeps(v)
        /\ Past(run[v]) \/ ~Spent(Mine(v))
    BY <1>8, PastStays
  <2>2. Holds(v)' => Holds(v) BY <2>1, HoldsOn
  <2>3. CASE edits[Mine(v)] > 0 BY <2>1, <2>2, <2>3 DEF EditInv
  <2>4. ASSUME NEW w \in Worker, Writing(w), Mine(v) = Mine(w), ~Past(run'[w]) PROVE ~Holds(v)
    <3>1. v # w BY <1>8, <2>4
    <3>2. Past(run[v]) BY <1>2, <2>1, <2>4 DEF EditInv
    <3> QED BY <2>4, <3>1, <3>2 DEF EditInv
  <2>5. edits'[Mine(v)] > 0 BY <1>8, <2>1
  <2>6. edits[Mine(v)] > 0 \/ edits'[Mine(v)] # edits[Mine(v)] BY <2>5
  <2> QED BY <1>1, <2>1, <2>2, <2>3, <2>4, <2>6
<1> QED BY <1>1, <1>3, <1>4, <1>5, <1>6, <1>7, <1>8 DEF EditInv

LEMMA EditSafe == Spec => []EditInv
<1>1. Init => EditInv
  <2> SUFFICES ASSUME Init PROVE EditInv
    OBVIOUS
  <2>1. \A w \in Worker : ~Answering(run[w]) /\ ~Writing(w) /\ ~Past(run[w])
    BY DEF Init, WorkerInit, Idle, Answering, Writing, Is, Past
  <2>2. edits = [t \in Task |-> 0] BY DEF Init
  <2> QED BY <2>1, <2>2 DEF EditInv
<1>2. EngineTypeOK /\ RunInv /\ DeskInv /\ RowInv /\ RowInv' /\ EditInv /\ [Next]_vars => EditInv'
  BY EditInvStep
<1> QED BY <1>1, <1>2, DispatchSafe, PTL DEF Spec

\* The artifacts of a task are written to the workspace at most once, although an
\* inline provider may be called again and two workers may both believe in their
\* claim (token check, recorded attempt, replay guard and gate together).
THEOREM EditedOnce == Spec => []EditsAtMostOnce
<1>1. EditInv => EditsAtMostOnce BY DEF EditInv, EditsAtMostOnce
<1> QED BY <1>1, EditSafe, PTL

-----------------------------------------------------------------------------
(* A completion is earned                                                  *)

\* The answer of a provider is at hand.
Called(r, lane) ==
    /\ r.at = "provider"
    /\ \/ r.step = "answer" /\ lane # Manual
       \/ r.step \in {"token", "record", "recorded"} /\ r.got = "ok"
       \/ r.step = "done"

\* It has been recorded, and the worker is on its way to completed with it.
Obtained(r) == Answering(r) \/ Concluding(r)

\* The artifacts of a mutation are in the workspace.
Written(r, intent) ==
    \/ r.at \in DOMAIN After
    \/ intent # "read_only" /\ (r.at = "summarize" \/ (r.at = "move" /\ r.step = "completed"))

\* What a provider's answer leaves behind, and a capability's.
Earned(t) ==
    /\ profile[t].lane \notin Capability
    /\ launches[t] > 0
    /\ IF profile[t].lane = Codex THEN ledger[t][Codex].status = "completed" ELSE recorded[t] > 0

Stored(t) ==
    /\ profile[t].lane \in Capability
    /\ profile[t].intent = "read_only"
    /\ ledger[t][profile[t].lane].status = "completed"
    /\ ledger[t][profile[t].lane].sealed

Worth(t) == Stored(t) \/ (Earned(t) /\ (profile[t].intent # "read_only" => edits[t] > 0))

EarnInv ==
    /\ \A w \in Worker : Called(run[w], Kind(w)) /\ Kind(w) # Codex => launches[Mine(w)] > 0
    /\ \A w \in Worker : Obtained(run[w]) => Earned(Mine(w))
    /\ \A w \in Worker : Written(run[w], profile[Mine(w)].intent) => edits[Mine(w)] > 0
    /\ \A w \in Worker : At(w) = "capability" /\ Now(w) # "own" => profile[Mine(w)].intent = "read_only"
    /\ \A t \in Task : status[t] = "completed" => Worth(t)

LEMMA CalledOn ==
  ASSUME RunInv, EngineTypeOK, NEW w \in Worker, WorkerActs(w), Kind(w) # Codex, Called(run'[w], Kind(w))
  PROVE  Keeps(w) /\ At(w) # "idle" /\ (Called(run[w], Kind(w)) \/ Launches(w))
<1> USE DEF At, Now, Kind
<1>1. /\ At(w)' = "provider" /\ Now(w)' \in {"answer", "token", "record", "recorded", "done"}
      /\ Now(w)' = "answer" => Kind(w) # Manual
      /\ Now(w)' \in {"token", "record", "recorded"} => run'[w].got = "ok"
  BY DEF Called
<1>2. ProviderStep(w) BY <1>1, Inside
<1>3. At(w) = "provider" /\ Mine(w) \in Task BY <1>2, InProvider, AtWork
<1>4. Keeps(w) BY <1>1, <1>2, ProviderMoves DEF Lands, Idle
<1>5. \A s : Step(w, s) =>
        /\ s \in {"answer", "token", "record", "recorded", "done"}
        /\ s \in {"token", "record", "recorded"} => run[w].got = "ok"
  BY <1>1, Moves
<1>6. \A r \in Result : \A s : Got(w, r, s) =>
        /\ s \in {"answer", "token", "record", "recorded", "done"}
        /\ s \in {"token", "record", "recorded"} => r = "ok"
  BY <1>1, Moves
<1>7. {"ok", "failed", "unknown", "handed_off"} \subseteq Result BY DEF Result
<1>8. \A s : ~Leave(w, s) BY <1>1, Moves
<1>9. ~Return(w) BY <1>1 DEF RunInv, RunTyped, Return, Idle
<1>10. Now(w) \notin CodexSteps BY <1>3 DEF RunInv, OnLane, Provider
<1>11. Kind(w) \notin Capability BY <1>3, Places DEF RunInv, OnLane, Provider
<1>12. CASE ProvCall(w)
  <2>1. Step(w, "answer") BY <1>12 DEF ProvCall
  <2>2. Now(w)' = "answer" /\ Kind(w) # Manual BY <1>1, <2>1, Moves
  <2> QED BY <1>3, <1>4, <1>11, <1>12, <2>2
      DEF ProvCall, ProvIs, Is, Provider, Launches, Lane, engineVars, ledgerVars
<1>13. CASE ProvAnswer(w)
  <2>1. Now(w) = "answer" BY <1>13 DEF ProvAnswer, ProvIs, Is
  <2>2. Kind(w) # Manual BY <1>6, <1>7, <1>13 DEF ProvAnswer, Provider
  <2> QED BY <1>3, <1>4, <2>1, <2>2 DEF Called
<1>14. CASE ProvToken(w) \/ ProvRecord(w) \/ ProvRecorded(w)
  <2>1. Now(w) \in {"token", "record", "recorded"} BY <1>14 DEF ProvToken, ProvRecord, ProvRecorded, ProvIs, Is
  <2>2. run[w].got = "ok"
    BY <1>5, <1>8, <1>9, <1>14 DEF ProvToken, ProvRecord, ProvRecorded, Provider
  <2> QED BY <1>3, <1>4, <2>1, <2>2 DEF Called
<1>15. CASE ProvLease(w)
  <2>1. Now(w)' = Now(w) /\ run'[w].got = run[w].got BY <1>15 DEF ProvLease, RunInv, RunTyped, Record
  <2> QED BY <1>1, <1>3, <1>4, <2>1 DEF Called
<1>16. /\ ~ProvRow(w) /\ ~ProvWorkspace(w) /\ ~ProvControls(w) /\ ~ProvReplay(w)
       /\ ~ProvPrepare(w) /\ ~ProvRecover(w) /\ ~ProvRenew(w)
  <2>1. \A s \in {"workspace", "controls", "prepare", "replay", "renew", "recover", "quarantine", "call"} : ~Step(w, s)
    BY <1>5
  <2> QED BY <1>8, <1>9, <2>1 DEF ProvRow, ProvWorkspace, ProvControls, ProvReplay, ProvPrepare, ProvRecover, ProvRenew
<1>17. ~ProvQuarantine(w) /\ ~ProvSpawn(w) /\ ~ProvExec(w) /\ ~ProvLift(w)
  BY <1>10 DEF ProvQuarantine, ProvSpawn, ProvExec, ProvLift, ProvIs, Is, CodexSteps
<1>18. ~ProvRetry(w)
  <2>1. ASSUME run' = [run EXCEPT ![w].step = "flag", ![w].try = @ + 1, ![w].got = "none"] PROVE FALSE
    BY <1>1, <2>1 DEF RunInv, RunTyped, Record
  <2> QED BY <1>8, <2>1 DEF ProvRetry
<1> QED BY <1>2, <1>12, <1>13, <1>14, <1>15, <1>16, <1>17, <1>18 DEF ProviderStep

\* A provider's answer at the end of the pipeline was recorded on the way.
LEMMA ObtainedOn ==
  ASSUME RunInv, EngineTypeOK, NEW w \in Worker, WorkerActs(w), Obtained(run'[w])
  PROVE  Keeps(w) /\ At(w) # "idle" /\ (Obtained(run[w]) \/ Records(w))
<1>1. CASE Answering(run'[w]) BY <1>1, AnswersOn DEF Obtained
<1>2. CASE Concluding(run'[w])
  <2>1. Keeps(w) /\ At(w) # "idle" /\ TailMove(w) BY <1>2, TailFrom
  <2>2. Answering(run[w]) \/ Concluding(run[w])
    BY <2>1 DEF TailMove, Answering, Concluding, Closing, After, At, Now
  <2> QED BY <2>1, <2>2 DEF Obtained
<1> QED BY <1>1, <1>2 DEF Obtained

\* And the artifacts of a mutation were written.
LEMMA WrittenOn ==
  ASSUME RunInv, EngineTypeOK, NEW w \in Worker, WorkerActs(w), Written(run'[w], profile[Mine(w)].intent)
  PROVE  /\ Keeps(w) /\ At(w) # "idle"
         /\ \/ Written(run[w], profile[Mine(w)].intent)
            \/ edits' = [edits EXCEPT ![Mine(w)] = @ + 1]
<1>1. Concluding(run'[w]) BY DEF Written, Concluding, Closing, After
<1>2. Keeps(w) /\ At(w) # "idle" /\ TailMove(w) BY <1>1, TailFrom
<1> QED BY <1>2 DEF TailMove, Written, Closing, After, At, Now

\* Past its first check, a capability run is one that reads.
LEMMA ReadingOn ==
  ASSUME RunInv, EngineTypeOK, NEW w \in Worker, WorkerActs(w), At(w)' = "capability", Now(w)' # "own"
  PROVE  /\ Keeps(w) /\ At(w) = "capability"
         /\ Now(w) # "own" \/ profile[Mine(w)].intent = "read_only"
<1>1. CapabilityStep(w) BY Entering
<1>2. At(w) = "capability" BY <1>1, InCapability
<1>3. Keeps(w) BY <1>1, CapabilityMoves DEF Lands, Idle, At
<1>4. ASSUME Now(w) = "own" PROVE profile[Mine(w)].intent = "read_only"
  <2>1. CapOwn(w)
    BY <1>1, <1>4 DEF Now, CapabilityStep, CapIs, Is, CapOwn, CapFlag, CapRow, CapPrepare,
    CapRecover, CapRunning, CapOwnAgain, CapFlagAgain, CapRowAgain, CapCall, CapAnswer, CapOwnLast,
    CapFlagLast, CapRowLast, CapDiscard, CapRevoked, CapFinalize, CapSuperseded, CapDisown, CapCatch,
    CapCatchFlag, CapHalt, CapHalted, CapHaltUnowned, CapUnknown
  <2>2. ~Return(w) BY DEF RunInv, RunTyped, Return, Idle, At
  <2>3. ~Leave(w, "failed") BY Moves DEF At
  <2> QED BY <2>1, <2>2, <2>3 DEF CapOwn
<1> QED BY <1>2, <1>3, <1>4

\* A row that says completed is not touched again.
LEMMA CompletedRowStays ==
  ASSUME EngineTypeOK, RunInv, [Next]_vars, NEW t \in Task, NEW l \in Lane, ledger[t][l].status = "completed"
  PROVE  ledger'[t][l] = ledger[t][l]
<1>0. "completed" \notin Open \cup {"none", "dispatching"} BY DEF Open
<1>1. ASSUME NEW w \in Worker, Books(w) PROVE ledger'[t][l] = ledger[t][l]
  <2>1. Mine(w) \in Task /\ Kind(w) \in Lane /\ Held(w) \in Ownership
    BY <1>1, AtWork DEF Books, At, Named
  <2>2. PICK r \in BOOLEAN : r = (Kind(w) # Codex) OBVIOUS
  <2>3. Alone(Mine(w), Kind(w)) /\ ledger[Mine(w)][Kind(w)].status = "none"
    <3>1. Prepare(Mine(w), Kind(w), Held(w), r) BY <1>1, <2>2 DEF Books
    <3> QED BY <2>1, <3>1, RowWrites
  <2> QED BY <1>0, <2>3 DEF Alone
<1>2. ASSUME NEW w \in Worker, Concludes(w) PROVE ledger'[t][l] = ledger[t][l]
  <2>1. PICK s \in Terminal :
          \/ At(w) = "provider" /\ Kind(w) = Codex /\ FinishCodex(Mine(w), s)
          \/ At(w) = "capability" /\ FinishCapability(Mine(w), Kind(w), s)
    BY <1>2 DEF Concludes
  <2>2. Mine(w) \in Task BY <2>1, AtWork DEF At
  <2>3. Kind(w) \in Lane BY <2>1 DEF RunInv, OnLane, At, Kind, Cap, Lane
  <2>4. Alone(Mine(w), Kind(w)) /\ ledger[Mine(w)][Kind(w)].status \in Open BY <2>1, <2>2, <2>3, RowWrites
  <2> QED BY <1>0, <2>4 DEF Alone
<1>3. ASSUME NEW w \in Worker, Seals(w) PROVE ledger'[t][l] = ledger[t][l]
  <2>1. Mine(w) \in Task /\ Held(w) \in Ownership BY <1>3, AtWork DEF Seals, At, Named
  <2>2. Kind(w) \in Lane BY <1>3 DEF Seals, RunInv, OnLane, At, Kind, Cap, Lane
  <2>3. Alone(Mine(w), Kind(w)) /\ ledger[Mine(w)][Kind(w)].status \in Open
    BY <1>3, <2>1, <2>2, RowWrites DEF Seals
  <2> QED BY <1>0, <2>3 DEF Alone
<1>4. ASSUME NEW c \in Claim, Serve(c) PROVE ledger'[t][l] = ledger[t][l]
  <2>1. PICK u \in Task, m \in Capability : Consume(u, m) BY <1>4 DEF Serve
  <2>2. m \in Lane BY DEF Lane
  <2>3. Alone(u, m) /\ ledger[u][m].status = "dispatching" BY <2>1, <2>2, RowWrites
  <2> QED BY <1>0, <2>3 DEF Alone
<1> QED BY <1>1, <1>2, <1>3, <1>4, RuntimeLedgerStep

\* What has been earned is not lost.
LEMMA EarnedStays ==
  ASSUME EngineTypeOK, RunInv, DeskInv, LaunchInv, EditInv, [Next]_vars, NEW t \in Task, Exists(t)
  PROVE  /\ profile'[t] = profile[t] /\ Exists(t)'
         /\ launches[t] > 0 => launches'[t] > 0
         /\ recorded[t] > 0 => recorded'[t] > 0
         /\ edits[t] > 0 => edits'[t] > 0
         /\ Earned(t) => Earned(t)'
         /\ Worth(t) => Worth(t)'
<1>1. Exists(t)' /\ profile'[t] = profile[t] BY Refines, EngineGrows
<1>2. launches[t] > 0 => launches'[t] > 0
  <2>1. launches[t] \in Nat /\ launches'[t] \in Nat /\ launches[t] <= launches'[t]
    BY LaunchesGrow DEF LaunchInv
  <2> QED BY <2>1
<1>3. recorded[t] > 0 => recorded'[t] > 0
  <2>1. UNCHANGED recorded \/ \E u \in Task : RecordAttempt(u)
    BY Refines DEF EngineNext, EngineStep, engineVars, ledgerVars, CreateTask, Transition, ClaimNext, Heartbeat,
       LeaseExpires, Prepare, FinishCodex, FinishCapability, Consume, Finalize, CreateApproval,
       DecideApproval, ApprovalGoesCold, SetStop
  <2>2. recorded \in [Task -> 0..MaxRecords] /\ MaxRecords \in Nat BY EngineAssumption DEF EngineTypeOK
  <2>3. recorded[t] \in Nat BY <2>2
  <2>4. ASSUME NEW u \in Task, RecordAttempt(u)
        PROVE  recorded'[t] = IF t = u THEN recorded[t] + 1 ELSE recorded[t]
    BY <2>2, <2>4 DEF RecordAttempt
  <2>5. recorded'[t] = recorded[t] \/ recorded'[t] = recorded[t] + 1 BY <2>1, <2>4
  <2> QED BY <2>3, <2>5
<1>4. edits[t] > 0 => edits'[t] > 0
  <2>1. edits[t] \in Nat /\ edits \in [Task -> Nat] BY DEF EditInv
  <2>2. ASSUME NEW w \in Worker, edits' = [edits EXCEPT ![Mine(w)] = @ + 1]
        PROVE  edits'[t] = edits[t] \/ edits'[t] = edits[t] + 1
    BY <2>1, <2>2
  <2>3. edits'[t] = edits[t] \/ edits'[t] = edits[t] + 1 BY <2>2, EditsMove
  <2> QED BY <2>1, <2>3
<1>5. \A l \in Lane : ledger[t][l].status = "completed" => ledger'[t][l] = ledger[t][l]
  BY CompletedRowStays
<1>6. Earned(t) => Earned(t)' BY <1>1, <1>2, <1>3, <1>5 DEF Earned, Lane
<1>7. Stored(t) => Stored(t)' BY <1>1, <1>5 DEF Stored, Lane
<1> QED BY <1>1, <1>2, <1>3, <1>4, <1>6, <1>7 DEF Worth

\* A task becomes completed at the end of the pipeline, or with its result.
LEMMA Completing ==
  ASSUME EngineTypeOK, RunInv, DeskInv, [Next]_vars, NEW t \in Task,
         status'[t] = "completed", status[t] # "completed"
  PROVE  \E w \in Worker :
            /\ At(w) # "idle" /\ Mine(w) = t
            /\ (At(w) = "move" /\ Now(w) = "completed") \/ Seals(w)
<1>0. \A u \in Task : \A s, own : Transition(u, s, own) => t = u /\ s = "completed"
  BY DEF Transition, Moved, EngineTypeOK
<1>1. ASSUME NEW w \in Worker, WorkerActs(w)
      PROVE  /\ At(w) # "idle" /\ Mine(w) = t
             /\ (At(w) = "move" /\ Now(w) = "completed") \/ Seals(w)
  <2>1. \A u \in Task : ~ClaimNext(w, u) BY DEF ClaimNext, EngineTypeOK
  <2>2. ~UNCHANGED status OBVIOUS
  <2>3. At(w) # "idle" => Mine(w) \in Task BY AtWork DEF At
  <2>4. \A s : \A own : At(w) # "idle" /\ Transition(Mine(w), s, own) => Mine(w) = t /\ s = "completed"
    BY <1>0, <2>3
  <2>5. CASE WorkerStep(w)
    <3>1. CASE Move(w)
      <4>1. At(w) = "move" /\ Transition(Mine(w), Now(w), Held(w)) BY <3>1 DEF Move, At, Now
      <4> QED BY <2>4, <4>1
    <3>2. ~StopHalt(w)
      <4>1. StopHalt(w) => At(w) # "idle" /\ Transition(Mine(w), "cancelled", NoClaim)
        BY DEF StopHalt, At, Checked, Stages
      <4> QED BY <2>4, <4>1
    <3> QED BY <2>1, <2>2, <2>5, <3>1, <3>2 DEF WorkerStep, Poll, Take, Precheck, StopFlag, StopRow,
         engineVars, taskVars
  <2>6. CASE CapabilityStep(w)
    <3>1. At(w) = "capability" BY <2>6, InCapability
    <3>2. CASE CapFinalize(w)
      <4>1. Now(w) = "finalize" /\ Finalize(Mine(w), Kind(w), Held(w))
        BY <2>2, <3>2 DEF CapFinalize, CapIs, Is, Now, Cap, Kind, engineVars, taskVars
      <4>2. Mine(w) = t BY <3>1, <4>1 DEF Finalize, EngineTypeOK
      <4> QED BY <3>1, <4>1, <4>2 DEF Seals
    <3>3. ~CapRunning(w) /\ ~CapDisown(w) /\ ~CapHaltUnowned(w)
      <4>1. \A s : \A own : Transition(Mine(w), s, own) => s = "completed" BY <2>4, <3>1
      <4>2. ~Transition(Mine(w), "running", Held(w)) BY <4>1
      <4>3. ~Transition(Mine(w), "failed", NoClaim) /\ ~Transition(Mine(w), "cancelled", NoClaim) BY <4>1
      <4> QED BY <4>2, <4>3 DEF CapRunning, CapDisown, CapHaltUnowned
    <3>4. ~CapPrepare(w) BY <2>2 DEF CapPrepare, Prepare, engineVars, taskVars
    <3>5. \A o, n, x : ~Finish(w, o, n, x) BY <2>2 DEF Finish, FinishCapability, engineVars, taskVars
    <3> QED BY <2>2, <2>6, <3>2, <3>3, <3>4, <3>5 DEF CapabilityStep, Quiet, CapOwn, CapFlag, CapRow, CapRecover,
         CapOwnAgain, CapFlagAgain, CapRowAgain, CapCall, CapAnswer, CapOwnLast, CapFlagLast, CapRowLast,
         CapDiscard, CapRevoked, CapSuperseded, CapCatch, CapCatchFlag, CapHalt, CapHalted, CapUnknown,
         engineVars, taskVars
  <2>7. ~ProviderStep(w)
    <3>1. ProviderStep(w) => At(w) = "provider" BY InProvider
    <3>2. ASSUME At(w) = "provider" PROVE ~ProvRetry(w) BY <2>4, <3>2 DEF ProvRetry
    <3> QED BY <2>2, <3>1, <3>2 DEF ProviderStep, Calm, ProvRow, ProvWorkspace, ProvControls, ProvReplay, ProvPrepare, Prepare,
         ProvRecover, FinishCodex, ProvRenew, ProvLease, Heartbeat, ProvQuarantine, ProvSpawn, ProvExec, ProvLift,
         ProvCall, ProvAnswer, ProvToken, ProvRecord, RecordAttempt, ProvRecorded, engineVars, taskVars
  <2>8. ~Pipeline(w) /\ ~ApplyEdits(w)
    <3>1. ~PromptParks(w) BY <2>4 DEF PromptParks, Is, At
    <3>2. ~MarkRunning(w) BY <2>4 DEF MarkRunning, Is, At
    <3> QED BY <2>2, <3>1, <3>2 DEF Pipeline, ApplyEdits, EvaluateApproval, PromptFinds, PromptInserts,
         CreateApproval, GuardRow, GuardWorkspace, GuardControls, StageBeats, Heartbeat, AfterProvider, PassGate,
         engineVars, taskVars
  <2> QED BY <1>1, <2>5, <2>6, <2>7, <2>8 DEF WorkerActs, Works
<1>2. ~(\E u \in Task : Submit(u)) BY DEF Submit, CreateTask, EngineTypeOK
<1>3. ~Govern
  <2>1. ~Asking
    BY DEF Asking, Approve, Pause, Resume, Reject, CancelLooks, EmergencyStop, SetStop, engineVars, taskVars
  <2>2. ~Apply
    <3>1. desk # NoRequest => desk.task \in Task /\ desk.op \in {"approve", "reject", "pause", "resume"}
      BY DEF DeskInv, Request
    <3> QED BY <1>0, <3>1 DEF Apply, Target
  <2>3. ~(\E u \in Task : CancelApplies(u)) BY <1>0 DEF CancelApplies
  <2> QED BY <2>1, <2>2, <2>3 DEF Govern, Handling, FindPending, InsertRow, CreateApproval, DecideRow,
       DecideApproval, engineVars, taskVars
<1> QED BY <1>1, <1>2, <1>3 DEF Next, vars, engineVars, taskVars, Clock, ApprovalGoesCold, Lapse, LeaseExpires,
     Receive, Serve, Consume, Drop, Settle, OrphanExits, OperatorLifts, Fault

LEMMA EarnInvStep ==
  ASSUME EngineTypeOK, RunInv, DeskInv, LaunchInv, EditInv, EditInv', EarnInv, [Next]_vars
  PROVE  EarnInv'
<1>1. ASSUME NEW w \in Worker, At(w) # "idle", run'[w] = run[w] \/ Keeps(w)
      PROVE  /\ Mine(w)' = Mine(w) /\ Kind(w)' = Kind(w) /\ Mine(w) \in Task /\ Exists(Mine(w))
             /\ profile'[Mine(w)] = profile[Mine(w)]
             /\ launches[Mine(w)] > 0 => launches'[Mine(w)] > 0
             /\ edits[Mine(w)] > 0 => edits'[Mine(w)] > 0
             /\ Earned(Mine(w)) => Earned(Mine(w))'
  <2>1. Mine(w)' = Mine(w) /\ Kind(w)' = Kind(w) /\ Mine(w) \in Task /\ Exists(Mine(w))
        /\ profile'[Mine(w)] = profile[Mine(w)]
    BY <1>1, SameWork
  <2>2. PICK t \in Task : t = Mine(w) BY <2>1
  <2>3. Exists(t) BY <2>1, <2>2
  <2>4. /\ launches[t] > 0 => launches'[t] > 0
        /\ edits[t] > 0 => edits'[t] > 0
        /\ Earned(t) => Earned(t)'
    BY <2>3, EarnedStays
  <2>5. Earned(t)' => Earned(Mine(w))' BY <2>1, <2>2 DEF Earned
  <2>6. Earned(Mine(w)) => Earned(t) BY <2>2 DEF Earned
  <2> QED BY <2>1, <2>2, <2>4, <2>5, <2>6
<1>2. ASSUME NEW w \in Worker, At(w)' \notin {"idle", "start"}
      PROVE  At(w) # "idle" /\ (run'[w] = run[w] \/ (WorkerActs(w) /\ Keeps(w)))
  BY <1>2, Moving DEF At
<1>3. ASSUME NEW w \in Worker, Called(run'[w], Kind(w)'), Kind(w)' # Codex PROVE launches'[Mine(w)'] > 0
  <2>1. At(w) # "idle" /\ (run'[w] = run[w] \/ (WorkerActs(w) /\ Keeps(w)))
    BY <1>2, <1>3 DEF Called, At
  <2>2. Mine(w)' = Mine(w) /\ Kind(w)' = Kind(w) /\ Mine(w) \in Task BY <1>1, <2>1
  <2>3. Called(run[w], Kind(w)) \/ Launches(w) BY <1>3, <2>1, <2>2, CalledOn
  <2>4. CASE Called(run[w], Kind(w)) BY <1>1, <1>3, <2>1, <2>2, <2>4 DEF EarnInv
  <2>5. CASE Launches(w)
    <3>1. launches' = [launches EXCEPT ![Mine(w)] = @ + 1] BY <2>5 DEF Launches
    <3> QED BY <2>2, <3>1 DEF LaunchInv
  <2> QED BY <2>3, <2>4, <2>5
<1>4. ASSUME NEW w \in Worker, Obtained(run'[w]) PROVE Earned(Mine(w))'
  <2>1. At(w) # "idle" /\ (run'[w] = run[w] \/ (WorkerActs(w) /\ Keeps(w)))
    BY <1>2, <1>4 DEF Obtained, Answering, Concluding, Closing, At
  <2>2. Mine(w)' = Mine(w) /\ Mine(w) \in Task /\ Exists(Mine(w)) /\ profile'[Mine(w)] = profile[Mine(w)]
    BY <1>1, <2>1
  <2>3. CASE Obtained(run[w]) BY <1>1, <2>1, <2>3 DEF EarnInv
  <2>4. CASE Records(w)
    <3>1. At(w) = "provider" /\ Now(w) = "record" /\ run[w].got = "ok" BY <2>4 DEF Records
    <3>2. Kind(w) \notin Capability BY <3>1, Places DEF At, Kind, Provider, RunInv, OnLane
    <3>3. launches[Mine(w)] > 0
      <4>1. CASE Kind(w) = Codex BY <3>1, <4>1 DEF Knows, At, Now, LaunchInv
      <4>2. CASE Kind(w) # Codex BY <3>1, <4>2 DEF Called, At, Now, EarnInv
      <4> QED BY <4>1, <4>2
    <3>4. launches'[Mine(w)] > 0 BY <1>1, <2>1, <3>3
    <3>5. IF Kind(w) = Codex THEN ledger'[Mine(w)][Codex].status = "completed" ELSE recorded'[Mine(w)] > 0
      <4>1. CASE Kind(w) = Codex
        <5>1. FinishCodex(Mine(w), "completed") BY <2>4, <4>1 DEF Records
        <5>2. "completed" \in Terminal /\ Codex \in Lane BY DEF Terminal, Lane
        <5> QED BY <2>2, <4>1, <5>1, <5>2, RowWrites
      <4>2. CASE Kind(w) # Codex
        <5>1. RecordAttempt(Mine(w)) BY <2>4, <4>2 DEF Records
        <5> QED BY <2>2, <4>2, <5>1, EngineAssumption DEF RecordAttempt, EngineTypeOK
      <4> QED BY <4>1, <4>2
    <3> QED BY <2>2, <3>2, <3>4, <3>5 DEF Earned, Kind
  <2> QED BY <1>4, <2>1, <2>3, <2>4, ObtainedOn
<1>5. ASSUME NEW w \in Worker, Written(run'[w], profile'[Mine(w)'].intent) PROVE edits'[Mine(w)'] > 0
  <2>1. At(w) # "idle" /\ (run'[w] = run[w] \/ (WorkerActs(w) /\ Keeps(w)))
    BY <1>2, <1>5 DEF Written, After, At
  <2>2. Mine(w)' = Mine(w) /\ Mine(w) \in Task /\ profile'[Mine(w)] = profile[Mine(w)] BY <1>1, <2>1
  <2>3. CASE Written(run[w], profile[Mine(w)].intent) BY <1>1, <2>1, <2>2, <2>3 DEF EarnInv
  <2>4. CASE edits' = [edits EXCEPT ![Mine(w)] = @ + 1] BY <2>2, <2>4 DEF EditInv
  <2> QED BY <1>5, <2>1, <2>2, <2>3, <2>4, WrittenOn
<1>6. ASSUME NEW w \in Worker, At(w)' = "capability", Now(w)' # "own" PROVE profile'[Mine(w)'].intent = "read_only"
  <2>1. At(w) # "idle" /\ (run'[w] = run[w] \/ (WorkerActs(w) /\ Keeps(w))) BY <1>2, <1>6
  <2>2. Mine(w)' = Mine(w) /\ profile'[Mine(w)] = profile[Mine(w)] BY <1>1, <2>1
  <2>3. profile[Mine(w)].intent = "read_only"
    <3>1. CASE run'[w] = run[w] BY <1>6, <3>1 DEF At, Now, EarnInv
    <3>2. CASE WorkerActs(w) BY <1>6, <3>2, ReadingOn DEF EarnInv
    <3> QED BY <2>1, <3>1, <3>2
  <2> QED BY <2>2, <2>3
<1>7. ASSUME NEW t \in Task, status'[t] = "completed" PROVE Worth(t)'
  <2>1. CASE status[t] = "completed"
    <3>1. Exists(t) /\ Worth(t) BY <2>1 DEF Exists, EarnInv
    <3> QED BY <3>1, EarnedStays
  <2>2. ASSUME NEW w \in Worker, At(w) # "idle", Mine(w) = t, At(w) = "move", Now(w) = "completed" PROVE Worth(t)'
    <3>1. Exists(t) BY <2>2, AtWork DEF At
    <3>2. Obtained(run[w]) BY <2>2 DEF Obtained, Concluding, At, Now
    <3>3. Earned(t) BY <2>2, <3>2 DEF EarnInv
    <3>4. profile[t].intent # "read_only" => edits[t] > 0
      BY <2>2 DEF EarnInv, Written, At, Now
    <3>5. Worth(t) BY <3>3, <3>4 DEF Worth
    <3> QED BY <3>1, <3>5, EarnedStays
  <2>3. ASSUME NEW w \in Worker, At(w) # "idle", Mine(w) = t, Seals(w) PROVE Worth(t)'
    <3>1. At(w) = "capability" /\ Now(w) = "finalize" /\ Finalize(t, Kind(w), Held(w)) BY <2>3 DEF Seals
    <3>2. Kind(w) \in Capability /\ Kind(w) \in Lane /\ Kind(w) = profile[t].lane
      BY <2>3, <3>1 DEF RunInv, OnLane, At, Kind, Cap, Lane
    <3>3. profile[t].intent = "read_only" BY <2>3, <3>1 DEF EarnInv
    <3>4. ledger'[t][Kind(w)].status = "completed" /\ ledger'[t][Kind(w)].sealed /\ profile' = profile
      <4>1. ledger \in [Task -> [Lane -> Row]] /\ ledger[t] \in [Lane -> Row] /\ ledger[t][Kind(w)] \in Row
        BY <3>2 DEF EngineTypeOK
      <4>2. ledger' = [ledger EXCEPT ![t][Kind(w)].status = "completed", ![t][Kind(w)].sealed = TRUE]
            /\ profile' = profile
        BY <3>1 DEF Finalize
      <4> QED BY <3>2, <4>1, <4>2 DEF Row
    <3> QED BY <3>2, <3>3, <3>4 DEF Worth, Stored
  <2> QED BY <1>7, <2>1, <2>2, <2>3, Completing
<1> QED BY <1>3, <1>4, <1>5, <1>6, <1>7 DEF EarnInv

LEMMA EarnInvInit == Init => EarnInv
<1> SUFFICES ASSUME Init PROVE EarnInv
  OBVIOUS
<1>1. \A w \in Worker : At(w) = "idle" BY DEF Init, WorkerInit, Idle, At
<1>2. \A w \in Worker : ~Called(run[w], Kind(w)) /\ ~Obtained(run[w]) /\ ~Written(run[w], profile[Mine(w)].intent)
  BY <1>1 DEF At, Called, Obtained, Answering, Concluding, Closing, Written, After
<1>3. \A t \in Task : status[t] # "completed" BY DEF Init, EngineInit
<1> QED BY <1>1, <1>2, <1>3 DEF EarnInv

\* A task is reported completed only on a result of its own: stored in its
\* capability row, settled and billed for Codex, recorded for a provider in line;
\* and a mutation has been written to the workspace (processTask's exits).
THEOREM CompletionIsEarned == Spec => []CompletedIsEarned
<1>1. EngineTypeOK /\ RunInv /\ DeskInv /\ LaunchInv /\ EditInv /\ EditInv' /\ EarnInv /\ [Next]_vars => EarnInv'
  BY EarnInvStep
<1>2. EarnInv /\ LaunchInv /\ EditInv /\ UsageWithOutcome => CompletedIsEarned
  <2> SUFFICES ASSUME EarnInv, LaunchInv, EditInv, UsageWithOutcome, NEW t \in Task, status[t] = "completed"
               PROVE  /\ launches[t] > 0
                      /\ Lane1(t) \in Capability => Dispatch(t).sealed
                      /\ Lane1(t) = Codex => Dispatch(t).status = "completed" /\ t \in billed
                      /\ Lane1(t) = Inline => recorded[t] > 0
                      /\ profile[t].intent = "workspace_mutation" => edits[t] = 1
    BY DEF CompletedIsEarned
  <2> USE DEF Lane1, Dispatch
  <2>1. Worth(t) /\ Exists(t) BY DEF EarnInv, Exists
  <2>2. Codex \notin Capability /\ Inline \notin Lane BY EngineAssumption, ProviderAssumption
  <2>3. CASE Stored(t)
    <3>1. profile[t].lane \in Lane /\ profile[t].lane # Codex /\ profile[t].lane # Inline
      BY <2>2, <2>3 DEF Stored, Lane
    <3>2. Truth(launches[t], ledger[t][profile[t].lane], profile[t].lane) BY <2>1, <3>1 DEF LaunchInv
    <3>3. launches[t] > 0 BY <2>3, <3>2 DEF Stored, Truth
    <3> QED BY <2>3, <3>1, <3>3 DEF Stored
  <2>4. CASE Earned(t) /\ (profile[t].intent # "read_only" => edits[t] > 0)
    <3>1. Inline # Codex BY <2>2 DEF Lane
    <3>2. edits[t] \in Nat /\ edits[t] <= 1 BY DEF EditInv
    <3>3. profile[t].lane = Codex => t \in billed BY <2>4 DEF Earned, UsageWithOutcome, Terminal
    <3> QED BY <2>2, <2>4, <3>1, <3>2, <3>3 DEF Earned
  <2> QED BY <2>1, <2>3, <2>4 DEF Worth
<1> QED BY <1>1, <1>2, EarnInvInit, DispatchSafe, EditSafe, RuntimeBills, PTL DEF Spec

-----------------------------------------------------------------------------
(* Types                                                                   *)

\* What no other invariant says of the wire, the process, the quarantine and the
\* bounds.
WireTyped ==
    /\ sent \subseteq Claim /\ served \subseteq Claim /\ children \subseteq Claim
    /\ quarantine \in BOOLEAN
    /\ asks \in 0..MaxAsks
    /\ faults \in 0..MaxFaults

LEMMA WireTypedStep == ASSUME RunInv, WireTyped, [Next]_vars PROVE WireTyped'
<1> USE DEF WireTyped
<1>0. MaxAsks \in Nat /\ MaxFaults \in Nat BY ControlAssumption, HermesAssumption
<1>1. (sent \subseteq Claim)' /\ (served \subseteq Claim)'
  <2>1. ASSUME NEW w \in Worker, CapabilityStep(w) PROVE (sent \subseteq Claim)' /\ UNCHANGED served
    <3>1. At(w) = "capability" BY <2>1, InCapability
    <3>2. Held(w) \in Claim BY <3>1 DEF RunInv, Employed, At, Held
    <3>3. CapCall(w) \/ UNCHANGED <<sent, served>>
      BY <2>1 DEF CapabilityStep, Quiet, wireVars, Finish, CapOwn, CapFlag, CapRow, CapPrepare,
      CapRecover, CapRunning, CapOwnAgain, CapFlagAgain, CapRowAgain, CapAnswer, CapOwnLast,
      CapFlagLast, CapRowLast, CapDiscard, CapRevoked, CapFinalize, CapSuperseded, CapDisown, CapCatch,
      CapCatchFlag, CapHalt, CapHalted, CapHaltUnowned, CapUnknown
    <3> QED BY <3>2, <3>3 DEF CapCall
  <2>2. ASSUME NEW c \in Claim, Serve(c) \/ Drop(c) PROVE (sent \subseteq Claim)' /\ (served \subseteq Claim)'
    BY <2>2 DEF Serve, Drop
  <2>3. \/ \E w \in Worker : CapabilityStep(w)
        \/ \E c \in Claim : Serve(c) \/ Drop(c)
        \/ UNCHANGED <<sent, served>>
    BY DEF Next, vars, wireVars, WorkerActs, Works, Pipeline, EvaluateApproval, PromptFinds, PromptInserts, PromptParks,
       GuardRow, GuardWorkspace, GuardControls, MarkRunning, StageBeats, AfterProvider, PassGate, ApplyEdits, Outside,
       Submit, Clock, Lapse, Receive, Settle, Govern, Fault
  <2> QED BY <2>1, <2>2, <2>3
<1>2. (children \subseteq Claim)' /\ (quarantine \in BOOLEAN)'
  <2>1. ASSUME NEW w \in Worker, ProviderStep(w) PROVE (children \subseteq Claim)' /\ (quarantine \in BOOLEAN)'
    <3>1. At(w) = "provider" BY <2>1, InProvider
    <3>2. Held(w) \in Claim BY <3>1 DEF RunInv, Employed, At, Held
    <3> QED BY <2>1, <3>2 DEF ProviderStep, Calm, codexVars, ProvRow, ProvWorkspace, ProvControls, ProvReplay, ProvPrepare,
         ProvRecover, ProvRenew, ProvLease, ProvQuarantine, ProvSpawn, ProvExec, ProvLift, ProvCall, ProvAnswer,
         ProvToken, ProvRecord, ProvRecorded, ProvRetry
  <2>2. ASSUME Settle PROVE (children \subseteq Claim)' /\ (quarantine \in BOOLEAN)'
    BY <2>2 DEF Settle, OrphanExits, OperatorLifts
  <2>3. (\E w \in Worker : ProviderStep(w)) \/ Settle \/ UNCHANGED <<children, quarantine>>
    BY DEF Next, vars, codexVars, WorkerActs, Works, Pipeline, EvaluateApproval, PromptFinds, PromptInserts, PromptParks,
       GuardRow, GuardWorkspace, GuardControls, MarkRunning, StageBeats, AfterProvider, PassGate, ApplyEdits, Outside,
       Submit, Clock, Lapse, Receive, Govern, Fault
  <2> QED BY <2>1, <2>2, <2>3
<1>3. (asks \in 0..MaxAsks)'
  <2>1. Ask \/ UNCHANGED asks
    BY DEF Next, vars, controlVars, WorkerActs, Submit, Clock, Lapse, Receive, Settle, Govern, Fault, DeskAborts,
       Asking, Approve, Pause, Resume, Reject, CancelLooks, EmergencyStop,
       Handling, FindPending, InsertRow, DecideRow, Apply, CancelApplies
  <2> QED BY <1>0, <2>1 DEF Ask
<1>4. (faults \in 0..MaxFaults)'
  <2>1. (faults < MaxFaults /\ faults' = faults + 1) \/ UNCHANGED faults
    BY DEF Next, vars, WorkerActs, Submit, Clock, Lapse, Receive, Settle, Govern, Fault
  <2> QED BY <1>0, <2>1
<1> QED BY <1>1, <1>2, <1>3, <1>4

\* Every variable of the command runtime keeps its type.
THEOREM RuntimeTyped == Spec => []TypeOK
<1>1. Init => WireTyped
  <2> SUFFICES ASSUME Init PROVE WireTyped
    OBVIOUS
  <2>1. sent = {} /\ served = {} /\ children = {} /\ quarantine = FALSE
    BY DEF Init, WireInit, CodexInit, ControlInit
  <2>2. asks \in 0..MaxAsks /\ faults \in 0..MaxFaults
    BY ControlAssumption, HermesAssumption DEF Init, ControlInit
  <2>3. sent \subseteq Claim /\ served \subseteq Claim /\ children \subseteq Claim BY <2>1
  <2> QED BY <2>1, <2>2, <2>3 DEF WireTyped
<1>2. RunInv /\ WireTyped /\ [Next]_vars => WireTyped' BY WireTypedStep
<1>3. EngineTypeOK /\ RunInv /\ DeskInv /\ LaunchInv /\ EditInv /\ WireTyped => TypeOK
  <2> SUFFICES ASSUME EngineTypeOK, RunInv, DeskInv, LaunchInv, EditInv, WireTyped PROVE TypeOK
    OBVIOUS
  <2>1. ASSUME NEW w \in Worker
        PROVE  /\ run[w].at \in Checked \cup {"idle", "move", "prompt", "guard", "capability"}
               /\ run[w].task \in Task \cup {NoTask}
               /\ run[w].claim \in Ownership
               /\ (run[w].task = NoTask) <=> (run[w].claim = NoClaim)
               /\ run[w].try \in 1..MaxRetries
               /\ run[w].got \in Result
               /\ run[w].lost \in BOOLEAN
    <3>1. Record(run[w]) /\ Employed(w) BY DEF RunInv, RunTyped
    <3>2. (run[w].task = NoTask) <=> (run[w].claim = NoClaim)
      BY <3>1, WorkerAssumption, EngineAssumption DEF Employed
    <3> QED BY <3>1, <3>2 DEF Record, Points
  <2> QED BY <2>1 DEF TypeOK, DeskInv, LaunchInv, EditInv, WireTyped
<1> QED BY <1>1, <1>2, <1>3, DispatchSafe, EditSafe, PTL DEF Spec

-----------------------------------------------------------------------------
(* How often a provider is asked                                           *)

\* A worker that has the call of its present try still before it.
Early == {"start", "prompt", "guard", "inspect_workspace", "build_plan", "decompose", "select_provider"}
Asked == {"answer", "token", "record", "recorded", "retry", "done"}
Fresh(r) == r.at \in Early \/ (r.at = "provider" /\ r.step \notin Asked)

\* The calls that workers at a task may still make, each at one of their tries.
MayAsk(r, k) == r.try < k \/ (r.try = k /\ Fresh(r))
Credit(t) == {a \in Worker \X (1..MaxRetries) : Mine(a[1]) = t /\ MayAsk(run[a[1]], a[2])}

\* What was asked and what may still be asked is covered by the claims drawn.
CallInv ==
    \A t \in Task : ~Ledgered(t) =>
        /\ IsFiniteSet(Credit(t))
        /\ launches[t] + Cardinality(Credit(t)) <= MaxRetries * issued

LEMMA TryMoves ==
  ASSUME RunInv, NEW w \in Worker
  PROVE  /\ \A p : \A s : To(w, p, s) => run'[w].try = run[w].try /\ run'[w].at = p /\ run'[w].step = s
         /\ \A s : Step(w, s) => run'[w].try = run[w].try /\ run'[w].at = run[w].at /\ run'[w].step = s
         /\ \A s : Leave(w, s) => run'[w].try = run[w].try /\ run'[w].at = "move"
         /\ \A g : \A s : Got(w, g, s) => run'[w].try = run[w].try /\ run'[w].at = run[w].at /\ run'[w].step = s
BY DEF RunInv, RunTyped, Record, To, Step, Leave, Got

\* A worker at work that does not retry keeps the count of its tries.
TryStays(w) == run'[w].try = run[w].try /\ (Fresh(run'[w]) => Fresh(run[w]))

LEMMA WorkerFresh ==
  ASSUME RunInv, NEW w \in Worker, At(w) # "idle", ~Return(w), WorkerStep(w)
  PROVE  TryStays(w)
<1> USE DEF At
<1>1. CASE Precheck(w) \/ StopFlag(w) \/ StopRow(w)
  <2>1. \/ \E s : Leave(w, s)
        \/ \E s : Step(w, s) /\ run[w].step \in {"cancelled", "flag", "row"}
    BY <1>1 DEF Precheck, StopFlag, StopRow, Stopped, Is
  <2> QED BY <2>1, TryMoves DEF TryStays, Fresh, Early, Asked
<1>2. CASE StopHalt(w)
  <2>1. \E s : Leave(w, s) BY <1>2 DEF StopHalt, Stopped
  <2> QED BY <2>1, TryMoves DEF TryStays, Fresh, Early
<1>3. ~Poll(w) /\ ~Take(w) /\ ~Move(w) BY DEF Poll, Take, Move, Is
<1> QED BY <1>1, <1>2, <1>3 DEF WorkerStep

LEMMA PipelineFresh ==
  ASSUME RunInv, NEW w \in Worker, At(w) # "idle", ~Return(w), Pipeline(w) \/ ApplyEdits(w)
  PROVE  TryStays(w)
<1> USE DEF At
<1>1. (\E s : Leave(w, s)) => TryStays(w) BY TryMoves DEF TryStays, Fresh, Early
<1>2. run[w].at \in Early /\ (\E p, s : To(w, p, s)) => TryStays(w)
  BY TryMoves DEF TryStays, Fresh
<1>3. \A p, s : p \notin Early \cup {"provider"} /\ To(w, p, s) => TryStays(w)
  BY TryMoves DEF TryStays, Fresh
<1>4. \A s : Step(w, s) => \E p : To(w, p, s) BY DEF Step
<1>5. CASE EvaluateApproval(w)
  <2>1. run[w].at \in Early BY <1>5 DEF EvaluateApproval, Is, Early
  <2> QED BY <1>1, <1>2, <1>5, <2>1 DEF EvaluateApproval
<1>6. CASE PromptFinds(w) \/ PromptInserts(w) \/ PromptParks(w) \/ GuardRow(w) \/ GuardWorkspace(w) \/ GuardControls(w)
        \/ MarkRunning(w)
  <2>1. run[w].at \in Early
    BY <1>6 DEF PromptFinds, PromptInserts, PromptParks, GuardRow, GuardWorkspace, GuardControls, MarkRunning, Is, Early
  <2> QED BY <1>1, <1>2, <1>4, <1>6, <2>1
      DEF PromptFinds, PromptInserts, PromptParks, GuardRow, GuardWorkspace, GuardControls, MarkRunning
<1>7. CASE StageBeats(w)
  <2>1. run[w].at \in Stages
        /\ ((\E s : Leave(w, s)) \/ To(w, Following[run[w].at][1], Following[run[w].at][2]))
    BY <1>7 DEF StageBeats
  <2>2. run[w].at \in Early \/ Following[run[w].at][1] \notin Early \cup {"provider"}
    BY <2>1 DEF Stages, Early, Following
  <2> QED BY <1>1, <1>2, <1>3, <2>1, <2>2
<1>8. CASE AfterProvider(w) \/ PassGate(w) \/ ApplyEdits(w)
  <2>1. {"summarize", "gate", "apply_edits", "validate"} \cap (Early \cup {"provider"}) = {} BY DEF Early
  <2> QED BY <1>1, <1>3, <1>8, <2>1 DEF AfterProvider, PassGate, ApplyEdits
<1> QED BY <1>5, <1>6, <1>7, <1>8 DEF Pipeline

\* The call itself, and the retry after it.
Calls(w) == run'[w].try = run[w].try /\ Fresh(run[w]) /\ ~Fresh(run'[w])
Retries(w) == run'[w].try = run[w].try + 1 /\ ~Fresh(run[w])

LEMMA ProviderFresh ==
  ASSUME RunInv, NEW w \in Worker, ~Return(w), ProviderStep(w), Kind(w) \notin Lane
  PROVE  IF run[w].step = "call" THEN Calls(w) ELSE TryStays(w) \/ Retries(w)
<1> USE DEF At
<1>0. run[w].at = "provider" BY InProvider
<1>1. run[w].step \notin CodexSteps
  BY <1>0 DEF RunInv, OnLane, Provider, Kind, Lane
<1>2. (\E s : Leave(w, s)) => TryStays(w) BY TryMoves DEF TryStays, Fresh, Early
<1>3. CASE ProvCall(w)
  <2>1. run[w].step = "call" /\ Step(w, "answer") BY <1>3 DEF ProvCall, ProvIs, Is
  <2> QED BY <1>0, <2>1, TryMoves DEF Calls, Fresh, Early, Asked
<1>4. CASE ProvRow(w) \/ ProvWorkspace(w) \/ ProvControls(w) \/ ProvReplay(w) \/ ProvRenew(w)
  <2>1. run[w].step \in {"go", "workspace", "controls", "replay", "renew"}
    BY <1>4 DEF ProvRow, ProvWorkspace, ProvControls, ProvReplay, ProvRenew, ProvIs, Is
  <2>2. \E s : Step(w, s) \/ Leave(w, s)
    BY <1>4 DEF ProvRow, ProvWorkspace, ProvControls, ProvReplay, ProvRenew
  <2>3. Fresh(run[w]) BY <1>0, <2>1 DEF Fresh, Asked
  <2> QED BY <2>1, <2>2, <2>3, TryMoves DEF TryStays
<1>5. CASE ProvAnswer(w) \/ ProvToken(w) \/ ProvRecord(w) \/ ProvRecorded(w)
  <2>1. run[w].step \in Asked \ {"call"}
    BY <1>5 DEF ProvAnswer, ProvToken, ProvRecord, ProvRecorded, ProvIs, Is, Asked
  <2>2. \/ \E s : Leave(w, s)
        \/ \E s \in Asked : Step(w, s) \/ \E g : Got(w, g, s)
    BY <1>5 DEF ProvAnswer, ProvToken, ProvRecord, ProvRecorded, Asked
  <2> QED BY <1>0, <1>2, <2>1, <2>2, TryMoves DEF TryStays, Fresh, Early, Asked
<1>6. CASE ProvLease(w)
  <2>1. /\ run[w].step \in {"exec", "answer"} /\ run'[w].try = run[w].try
        /\ run'[w].at = run[w].at /\ run'[w].step = run[w].step
    BY <1>6 DEF ProvLease, RunInv, RunTyped, Record
  <2> QED BY <2>1 DEF TryStays, Fresh
<1>7. CASE ProvRetry(w)
  <2>1. run[w].step = "retry" BY <1>7 DEF ProvRetry, ProvIs, Is
  <2>2. run' = [run EXCEPT ![w].step = "flag", ![w].try = @ + 1, ![w].got = "none"]
          => run'[w].try = run[w].try + 1
    BY DEF RunInv, RunTyped, Record
  <2>3. ~Fresh(run[w]) BY <1>0, <2>1 DEF Fresh, Early, Asked
  <2> QED BY <1>2, <1>7, <2>1, <2>2, <2>3 DEF ProvRetry, Retries
<1>8. ~ProvPrepare(w) /\ ~ProvRecover(w) /\ ~ProvQuarantine(w) /\ ~ProvSpawn(w) /\ ~ProvExec(w) /\ ~ProvLift(w)
  BY <1>1 DEF ProvPrepare, ProvRecover, ProvQuarantine, ProvSpawn, ProvExec, ProvLift, ProvIs, Is, CodexSteps
<1> QED BY <1>3, <1>4, <1>5, <1>6, <1>7, <1>8 DEF ProviderStep

\* A worker that goes on with a task of an inline provider.
LEMMA FreshOn ==
  ASSUME RunInv, NEW w \in Worker, WorkerActs(w), At(w) # "idle", Keeps(w), Kind(w) \notin Lane
  PROVE  /\ TryStays(w) \/ Retries(w) \/ Calls(w)
         /\ Launches(w) => Calls(w)
<1>0. Kind(w) # Codex BY DEF Lane
<1>1. Mine(w) \in Task BY AtWork DEF At
<1>2. ~Return(w)
  BY <1>1, WorkerAssumption DEF Return, Keeps, Idle, Mine, RunInv, RunTyped
<1>3. At(w) # "capability" BY DEF RunInv, OnLane, Cap, Kind, Lane, At
<1>4. ~CapabilityStep(w) BY <1>3, InCapability
<1>5. CASE ProviderStep(w)
  <2>1. IF run[w].step = "call" THEN Calls(w) ELSE TryStays(w) \/ Retries(w)
    BY <1>2, <1>5, ProviderFresh
  <2> QED BY <1>0, <2>1 DEF Launches, Now
<1>6. CASE WorkerStep(w) \/ Pipeline(w) \/ ApplyEdits(w)
  <2>1. TryStays(w) BY <1>2, <1>6, WorkerFresh, PipelineFresh
  <2>2. ~Launches(w)
    <3>1. ASSUME Launches(w) PROVE FALSE
      <4>1. run[w].at = "provider" /\ run[w].step = "call" BY <1>0, <3>1 DEF Launches, At, Now
      <4>2. ~WorkerStep(w)
        BY <4>1 DEF WorkerStep, Poll, Take, Precheck, StopFlag, StopHalt, StopRow, Move, Is
      <4>3. ~Pipeline(w) /\ ~ApplyEdits(w)
        BY <4>1 DEF Pipeline, ApplyEdits, EvaluateApproval, PromptFinds, PromptInserts, PromptParks,
           GuardRow, GuardWorkspace, GuardControls, MarkRunning, StageBeats, AfterProvider, PassGate, Is, Stages
      <4> QED BY <1>6, <4>2, <4>3
    <3> QED BY <3>1
  <2> QED BY <2>1, <2>2
<1> QED BY <1>4, <1>5, <1>6 DEF WorkerActs, Works

\* What it may still ask does not grow, and shrinks with every call.
LEMMA CreditOn ==
  ASSUME RunInv, RunTyped', NEW w \in Worker, WorkerActs(w), At(w) # "idle", Keeps(w), Kind(w) \notin Lane
  PROVE  /\ \A k \in 1..MaxRetries : MayAsk(run'[w], k) => MayAsk(run[w], k)
         /\ Launches(w) => /\ run[w].try \in 1..MaxRetries
                           /\ MayAsk(run[w], run[w].try) /\ ~MayAsk(run'[w], run[w].try)
<1>1. run[w].try \in 1..MaxRetries /\ run'[w].try \in 1..MaxRetries BY DEF RunInv, RunTyped, Record
<1>2. TryStays(w) \/ Retries(w) \/ Calls(w) BY FreshOn
<1>3. Launches(w) => Calls(w) BY FreshOn
<1>4. MaxRetries \in Nat BY ProviderAssumption
<1>5. ASSUME NEW k \in 1..MaxRetries, MayAsk(run'[w], k) PROVE MayAsk(run[w], k)
  BY <1>1, <1>2, <1>4, <1>5 DEF TryStays, Retries, Calls, MayAsk
<1>6. Calls(w) => MayAsk(run[w], run[w].try) /\ ~MayAsk(run'[w], run[w].try)
  BY <1>1, <1>4 DEF Calls, MayAsk
<1> QED BY <1>1, <1>3, <1>5, <1>6

LEMMA OneMore ==
  ASSUME NEW r \in Nat, NEW i \in Nat, NEW j \in Nat, i <= j
  PROVE  /\ r * i \in Nat /\ r * j \in Nat /\ r * i <= r * j
         /\ j = i + 1 => r * j = r * i + r
<1>1. PICK k \in Nat : j = i + k
  <2>1. j - i \in Nat /\ j = i + (j - i) OBVIOUS
  <2> QED BY <2>1
<1>2. r * i \in Nat /\ r * k \in Nat /\ r * (i + k) = r * i + r * k OBVIOUS
<1>3. r * 1 = r OBVIOUS
<1> QED BY <1>1, <1>2, <1>3

\* Counting: a set that lost an element, one that did not grow, and one that grew
\* by the tries of one worker.
LEMMA OneLess ==
  ASSUME NEW S, IsFiniteSet(S), NEW T, NEW a \in S, T \subseteq S \ {a}
  PROVE  /\ IsFiniteSet(T) /\ Cardinality(T) \in Nat /\ Cardinality(S) \in Nat
         /\ Cardinality(T) + 1 <= Cardinality(S)
<1>1. IsFiniteSet(S \ {a}) /\ Cardinality(S \ {a}) = Cardinality(S) - 1 BY FS_RemoveElement
<1>2. IsFiniteSet(T) /\ Cardinality(T) <= Cardinality(S \ {a}) BY <1>1, FS_Subset
<1>3. Cardinality(T) \in Nat /\ Cardinality(S) \in Nat BY <1>2, FS_CardinalityType
<1> QED BY <1>1, <1>2, <1>3

LEMMA FewMore ==
  ASSUME NEW S, IsFiniteSet(S), NEW T, NEW w, T \subseteq S \cup ({w} \X (1..MaxRetries))
  PROVE  /\ IsFiniteSet(T) /\ Cardinality(T) \in Nat /\ Cardinality(S) \in Nat
         /\ Cardinality(T) <= Cardinality(S) + MaxRetries
<1> DEFINE more == {w} \X (1..MaxRetries)
<1>1. IsFiniteSet(more) /\ Cardinality(more) = MaxRetries
  <2>1. IsFiniteSet({w}) /\ Cardinality({w}) = 1 BY FS_Singleton
  <2>2. IsFiniteSet(1..MaxRetries) /\ Cardinality(1..MaxRetries) = MaxRetries
    BY ProviderAssumption, FS_Interval
  <2>3. IsFiniteSet(more) /\ Cardinality(more) = 1 * MaxRetries BY <2>1, <2>2, FS_Product
  <2> QED BY <2>3, ProviderAssumption
<1> HIDE DEF more
<1>2. T \subseteq S \cup more BY DEF more
<1>3. IsFiniteSet(S \cup more) /\ Cardinality(S \cup more) <= Cardinality(S) + Cardinality(more)
  <2>1. IsFiniteSet(S \cap more) BY FS_Subset
  <2>2. Cardinality(S \cap more) \in Nat BY <2>1, FS_CardinalityType
  <2>3. IsFiniteSet(S \cup more)
        /\ Cardinality(S \cup more) = Cardinality(S) + Cardinality(more) - Cardinality(S \cap more)
    BY <1>1, FS_Union
  <2>4. Cardinality(S) \in Nat /\ Cardinality(more) \in Nat BY <1>1, FS_CardinalityType
  <2> QED BY <2>2, <2>3, <2>4
<1>4. IsFiniteSet(T) /\ Cardinality(T) <= Cardinality(S \cup more) BY <1>2, <1>3, FS_Subset
<1>5. Cardinality(T) \in Nat /\ Cardinality(S) \in Nat /\ Cardinality(S \cup more) \in Nat
  BY <1>3, <1>4, FS_CardinalityType
<1> QED BY <1>1, <1>3, <1>4, <1>5, ProviderAssumption

\* A worker draws a claim, and does nothing else.
Drawn(w) == WorkerActs(w) /\ At(w)' = "start" /\ ClaimNext(w, run'[w].task) /\ run'[w].claim = FreshClaim(w)

LEMMA DrawsAlone ==
  ASSUME EngineTypeOK, RunInv, NEW w \in Worker, Drawn(w)
  PROVE  At(w) = "idle" /\ UNCHANGED launches
<1> USE DEF At
<1>1. issued \in Nat BY EngineAssumption DEF EngineTypeOK
<1>2. At(w) = "idle"
  <2>1. ASSUME At(w) # "idle", Keeps(w) PROVE FALSE
    <3>1. run[w].claim \in Claim /\ run[w].claim.token <= issued BY <2>1 DEF RunInv, Employed
    <3>2. run[w].claim.token = issued + 1 BY <2>1 DEF Drawn, Keeps, FreshClaim
    <3> QED BY <1>1, <3>1, <3>2
  <2> QED BY <2>1, WorksMoves DEF Drawn, Takes, Lands, Idle
<1>3. WorkerStep(w)
  <2>1. ~Pipeline(w) /\ ~ApplyEdits(w)
    BY <1>2 DEF Pipeline, ApplyEdits, EvaluateApproval, PromptFinds, PromptInserts,
       PromptParks, GuardRow, GuardWorkspace, GuardControls, MarkRunning, StageBeats, AfterProvider, PassGate, Is, Stages
  <2> QED BY <1>2, <2>1, InCapability, InProvider DEF Drawn, WorkerActs, Works
<1> QED BY <1>2, <1>3 DEF WorkerStep, Poll, Take, Precheck, StopFlag, StopHalt, StopRow, Move

\* Nobody may ask more of a task than before, unless it has just been taken.
LEMMA CreditMoves ==
  ASSUME EngineTypeOK, RunInv, RunInv', DeskInv, [Next]_vars, NEW t \in Task, ~Ledgered(t)', ~Ledgered(t)
  PROVE  \/ Credit(t)' \subseteq Credit(t)
         \/ /\ issued' = issued + 1
            /\ UNCHANGED launches
            /\ \E w \in Worker : Credit(t)' \subseteq Credit(t) \cup ({w} \X (1..MaxRetries))
<1>1. ASSUME NEW w \in Worker, NEW k \in 1..MaxRetries, At(w) # "idle", Keeps(w) \/ run'[w] = run[w],
             WorkerActs(w) \/ run'[w] = run[w], Mine(w)' = t, MayAsk(run'[w], k)
      PROVE  Mine(w) = t /\ MayAsk(run[w], k)
  <2>1. Mine(w) = t /\ Exists(t) BY <1>1, SameWork
  <2>2. Kind(w) \notin Lane BY <2>1 DEF Ledgered, Lane1, Kind
  <2>3. CASE run'[w] = run[w] BY <1>1, <2>1, <2>3
  <2>4. CASE WorkerActs(w) /\ run'[w] # run[w]
    <3>1. Keeps(w) /\ RunTyped' BY <1>1, <2>4 DEF RunInv
    <3> QED BY <1>1, <2>1, <2>2, <2>4, <3>1, CreditOn
  <2> QED BY <1>1, <2>3, <2>4
<1>2. ASSUME NEW w \in Worker, NEW k \in 1..MaxRetries, Mine(w)' = t, MayAsk(run'[w], k), ~Drawn(w)
      PROVE  Mine(w) = t /\ MayAsk(run[w], k)
  <2>1. At(w)' # "idle" BY <1>2, WorkerAssumption DEF RunInv, Employed, Mine, At
  <2>2. run'[w] = run[w] => At(w) # "idle" BY <2>1 DEF At
  <2> QED BY <1>1, <1>2, <2>1, <2>2, Moving DEF Drawn
<1>3. CASE \A w \in Worker : ~Drawn(w)
  <2>1. ASSUME NEW a \in Credit(t)' PROVE a \in Credit(t)
    <3>1. a[1] \in Worker /\ a[2] \in 1..MaxRetries /\ a \in Worker \X (1..MaxRetries)
          /\ Mine(a[1])' = t /\ MayAsk(run'[a[1]], a[2])
      BY <2>1 DEF Credit
    <3>2. Mine(a[1]) = t /\ MayAsk(run[a[1]], a[2]) BY <1>2, <1>3, <3>1
    <3> QED BY <3>1, <3>2 DEF Credit
  <2> QED BY <2>1
<1>4. ASSUME NEW w \in Worker, Drawn(w)
      PROVE  /\ issued' = issued + 1
             /\ UNCHANGED launches
             /\ Credit(t)' \subseteq Credit(t) \cup ({w} \X (1..MaxRetries))
  <2>1. issued' = issued + 1 /\ UNCHANGED launches BY <1>4, DrawsAlone DEF Drawn, ClaimNext
  <2>2. ASSUME NEW a \in Credit(t)', a \notin {w} \X (1..MaxRetries) PROVE a \in Credit(t)
    <3>1. a[1] \in Worker /\ a[2] \in 1..MaxRetries /\ a = <<a[1], a[2]>>
          /\ Mine(a[1])' = t /\ MayAsk(run'[a[1]], a[2])
      BY <2>2 DEF Credit
    <3>2. a[1] # w BY <2>2, <3>1
    <3>3. run'[a[1]] = run[a[1]] BY <1>4, <3>1, <3>2, Others DEF Drawn
    <3>4. Mine(a[1])' = Mine(a[1]) BY <3>3 DEF Mine
    <3>5. Mine(a[1]) = t /\ MayAsk(run[a[1]], a[2]) BY <3>1, <3>3, <3>4
    <3> QED BY <3>1, <3>5 DEF Credit
  <2> QED BY <2>1, <2>2
<1> QED BY <1>3, <1>4

\* A call of a task's provider that goes through no ledger row takes one of the
\* calls that were left.
LEMMA CreditSpent ==
  ASSUME EngineTypeOK, RunInv, RunInv', DeskInv, [Next]_vars, NEW t \in Task, ~Ledgered(t)', ~Ledgered(t),
         launches \in [Task -> Nat], NEW w \in Worker, WorkerActs(w), Launches(w), Mine(w) = t
  PROVE  \E a \in Credit(t) : Credit(t)' \subseteq Credit(t) \ {a}
<1> DEFINE k == run[w].try
           a == <<w, k>>
<1>1. At(w) # "idle" BY DEF Launches
<1>2. Exists(t) BY <1>1, AtWork DEF At
<1>3. Kind(w) \notin Lane BY <1>2 DEF Ledgered, Lane1, Kind
<1>4. Credit(t)' \subseteq Credit(t)
  <2>1. launches' # launches BY <1>2 DEF Launches
  <2> QED BY <2>1, CreditMoves
<1>5. k \in 1..MaxRetries /\ MayAsk(run[w], k)
  <2>1. run[w].at = "provider" /\ run[w].step = "call" BY <1>3 DEF Launches, At, Now, Lane
  <2>2. Fresh(run[w]) BY <2>1 DEF Fresh, Asked
  <2> QED BY <2>2 DEF MayAsk, RunInv, RunTyped, Record
<1>6. ~(Mine(w)' = t /\ MayAsk(run'[w], k))
  <2>1. CASE Keeps(w)
    <3>1. RunTyped' BY DEF RunInv
    <3> QED BY <1>1, <1>3, <2>1, <3>1, CreditOn
  <2>2. CASE run'[w] = Idle BY <2>2, WorkerAssumption DEF Mine, Idle
  <2> QED BY <1>1, <2>1, <2>2, WorksMoves DEF Takes, Lands, At
<1>7. a \in Credit(t) /\ a \notin Credit(t)'
  <2>1. a = <<w, k>> /\ a[1] = w /\ a[2] = k /\ a \in Worker \X (1..MaxRetries) BY <1>5
  <2> QED BY <1>5, <1>6, <2>1 DEF Credit
<1> QED BY <1>4, <1>7

LEMMA CallInvStep ==
  ASSUME EngineTypeOK, RunInv, RunInv', DeskInv, RowInv, LaunchInv, CallInv, [Next]_vars
  PROVE  CallInv'
<1> SUFFICES ASSUME NEW t \in Task, ~Ledgered(t)'
             PROVE  /\ IsFiniteSet(Credit(t)')
                    /\ launches'[t] + Cardinality(Credit(t)') <= MaxRetries * issued'
  BY DEF CallInv
<1>0. /\ issued \in Nat /\ issued' \in Nat /\ issued <= issued'
      /\ \A u \in Task : Exists(u) => Exists(u)' /\ profile'[u] = profile[u]
  BY Refines, EngineGrows
<1>1. ~Ledgered(t) BY <1>0 DEF Ledgered, Lane1
<1>2. launches \in [Task -> Nat] /\ launches[t] \in Nat BY DEF LaunchInv
<1>3. MaxRetries \in Nat BY ProviderAssumption
<1> DEFINE n == launches[t]  m == launches'[t]
           old == Credit(t)  new == Credit(t)'
           i == issued       j == issued'
           had == MaxRetries * i  has == MaxRetries * j
<1>4. IsFiniteSet(old) /\ n + Cardinality(old) <= had BY <1>1 DEF CallInv
<1>5. n \in Nat /\ i \in Nat /\ j \in Nat /\ i <= j BY <1>0, <1>2
<1>6. had \in Nat /\ has \in Nat /\ had <= has /\ (j = i + 1 => has = had + MaxRetries)
  <2> HIDE DEF i, j
  <2> QED BY <1>3, <1>5, OneMore
<1>7. ASSUME NEW w \in Worker, WorkerActs(w), Launches(w), Mine(w) = t
      PROVE  IsFiniteSet(new) /\ m + Cardinality(new) <= has
  <2>1. m = n + 1 BY <1>2, <1>7 DEF Launches
  <2>2. PICK a \in old : new \subseteq old \ {a} BY <1>1, <1>2, <1>7, CreditSpent
  <2> HIDE DEF old, new, n, m, i, j, had, has
  <2> QED BY <1>4, <1>5, <1>6, <2>1, <2>2, OneLess
<1>8. ASSUME m = n PROVE IsFiniteSet(new) /\ m + Cardinality(new) <= has
  <2>1. CASE new \subseteq old
    <3>1. IsFiniteSet(new) /\ Cardinality(new) <= Cardinality(old)
          /\ Cardinality(new) \in Nat /\ Cardinality(old) \in Nat
      BY <1>4, <2>1, FS_Subset, FS_CardinalityType
    <3> HIDE DEF old, new, n, m, i, j, had, has
    <3> QED BY <1>4, <1>5, <1>6, <1>8, <3>1
  <2>2. ASSUME j = i + 1, NEW w \in Worker, new \subseteq old \cup ({w} \X (1..MaxRetries))
        PROVE  IsFiniteSet(new) /\ m + Cardinality(new) <= has
    <3> HIDE DEF old, new, n, m, i, j, had, has
    <3>1. /\ IsFiniteSet(new) /\ Cardinality(new) \in Nat /\ Cardinality(old) \in Nat
          /\ Cardinality(new) <= Cardinality(old) + MaxRetries
      BY <1>4, <2>2, FewMore
    <3> QED BY <1>3, <1>4, <1>5, <1>6, <1>8, <2>2, <3>1
  <2> QED BY <1>1, <2>1, <2>2, CreditMoves
<1>9. m = n \/ \E w \in Worker : WorkerActs(w) /\ Launches(w) /\ Mine(w) = t
  <2>1. ASSUME NEW w \in Worker, Launches(w), Mine(w) # t PROVE m = n
    BY <1>2, <2>1 DEF Launches
  <2>2. ASSUME NEW c \in Claim, Serve(c) PROVE m = n
    <3>1. PICK u \in Task, l \in Capability :
            Consume(u, l) /\ launches' = [launches EXCEPT ![u] = @ + 1]
      BY <2>2 DEF Serve
    <3>2. Booked(u, l) /\ l \in Lane BY <3>1 DEF Consume, Booked, Lane
    <3>3. Ledgered(u) BY <3>2 DEF RowInv, Ledgered, Lane1
    <3> QED BY <1>1, <1>2, <3>1, <3>3
  <2> QED BY <2>1, <2>2, LaunchMoves
<1> QED BY <1>7, <1>8, <1>9

LEMMA CallInvInit == Init => CallInv
<1> SUFFICES ASSUME Init, NEW t \in Task
             PROVE  /\ IsFiniteSet(Credit(t))
                    /\ launches[t] + Cardinality(Credit(t)) <= MaxRetries * issued
  BY DEF CallInv
<1>1. Credit(t) = {} BY WorkerAssumption DEF Init, WorkerInit, Idle, Credit, Mine
<1>2. launches[t] = 0 /\ issued = 0 BY DEF Init, WorkerInit, EngineInit
<1>3. IsFiniteSet(Credit(t)) /\ Cardinality(Credit(t)) = 0 BY <1>1, FS_EmptySet
<1> QED BY <1>2, <1>3, ProviderAssumption

\* A provider that goes through no ledger row is asked at most MAX_RETRIES times for
\* every claim drawn, whatever lapsed, died or was retried.  The claims drawn cover
\* what was asked together with what the workers may still ask: a call spends the
\* try it was made in, a retry goes on to a later one, and only a fresh claim brings
\* new tries.
THEOREM CallsBounded == Spec => []CallsAreBounded
<1>1. EngineTypeOK /\ RunInv /\ RunInv' /\ DeskInv /\ RowInv /\ LaunchInv /\ CallInv /\ [Next]_vars => CallInv'
  BY CallInvStep
<1>2. EngineTypeOK /\ LaunchInv /\ CallInv => CallsAreBounded
  <2> SUFFICES ASSUME EngineTypeOK, LaunchInv, CallInv, NEW t \in Task, ~Ledgered(t)
               PROVE  launches[t] <= MaxRetries * issued
    BY DEF CallsAreBounded
  <2>1. IsFiniteSet(Credit(t)) /\ launches[t] + Cardinality(Credit(t)) <= MaxRetries * issued
    BY DEF CallInv
  <2>2. Cardinality(Credit(t)) \in Nat BY <2>1, FS_CardinalityType
  <2>3. launches[t] \in Nat /\ issued \in Nat /\ MaxRetries \in Nat
    BY EngineAssumption, ProviderAssumption DEF LaunchInv, EngineTypeOK
  <2>4. MaxRetries * issued \in Nat BY <2>3
  <2> QED BY <2>1, <2>2, <2>3, <2>4
<1> QED BY <1>1, <1>2, CallInvInit, DispatchSafe, PTL DEF Spec

-----------------------------------------------------------------------------
(* Claims fence                                                            *)

\* A task has one holder of its claim at a time, among all who are at work on it.
OneClaimant ==
    \A v, w \in Worker :
        (At(v) # "idle" /\ At(w) # "idle" /\ Mine(v) = Mine(w) /\ Holds(v) /\ Holds(w)) => v = w

\* A worker that has lost its claim does not come to hold it again: it works on
\* without it, or ends its tick.
LostForGood == \A w \in Worker : (At(w) # "idle" /\ ~Holds(w)) => (At(w)' = "idle" \/ ~Holds(w)')

\* However many workers believe in a claim of one task (a lease lapses under a
\* worker that is still alive), the tasks row names one of them, and every statement
\* fenced by worker_id and claim_token (transition, heartbeat, finalize) is his.
THEOREM OneClaim == Spec => []OneClaimant
<1>1. RunInv => OneClaimant BY OneHolder DEF OneClaimant
<1> QED BY <1>1, DispatchSafe, PTL

\* A claim is never handed out twice, so that losing it is final: requeued, retried
\* or cancelled, a task never comes back to a worker that was given up.
THEOREM LossIsFinal == Spec => [][LostForGood]_vars
<1>1. EngineTypeOK /\ RunInv /\ DeskInv /\ [Next]_vars => LostForGood
  <2> SUFFICES ASSUME EngineTypeOK, RunInv, DeskInv, [Next]_vars,
                      NEW w \in Worker, At(w) # "idle", ~Holds(w), At(w)' # "idle", Holds(w)'
               PROVE  FALSE
    BY DEF LostForGood
  <2>1. ~(run'[w] = run[w] \/ Keeps(w)) BY HoldsOn
  <2>2. Drawn(w) BY <2>1, Moving DEF Drawn
  <2> QED BY <2>2, DrawsAlone
<1> QED BY <1>1, DispatchSafe, PTL DEF Spec

=============================================================================
