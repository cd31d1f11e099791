---------------------------- MODULE HermesProofs ----------------------------
(***************************************************************************)
(* What the command runtime promises, proved for every set of tasks,       *)
(* workers and profiles and every bound.  Its workers and handlers call     *)
(* the engine only as EngineSpec allows (Refines), so what TaskEngineProofs *)
(* proves of the tables holds of the runtime.                               *)
(***************************************************************************)
EXTENDS Hermes, TaskEngineProofs

Routed == Stages \cup {"guard", "provider", "gate"}
CodexSteps == {"prepare", "recover", "quarantine", "spawn", "exec", "lift"}
Points == Checked \cup {"idle", "move", "prompt", "guard", "capability"}

\* A step may have any name.
Record(r) ==
    /\ DOMAIN r = {"at", "step", "task", "claim", "try", "got", "lost"}
    /\ r.at \in Points /\ r.task \in Task \cup {NoTask} /\ r.claim \in Ownership
    /\ r.try \in 1..MaxRetries /\ r.got \in Result /\ r.lost \in BOOLEAN

RunTyped == DOMAIN run = Worker /\ \A w \in Worker : Record(run[w])

\* A worker at work has a task that exists and a claim that was drawn for it.
Employed(w) ==
    IF run[w].at = "idle" THEN run[w].task = NoTask /\ run[w].claim = NoClaim
    ELSE /\ run[w].task \in Task /\ Exists(run[w].task)
         /\ run[w].claim \in Claim /\ run[w].claim.token <= issued
         /\ run[w].claim.worker = w

\* A worker is only where the lane of its task leads.
OnLane(w) ==
    /\ run[w].at = "capability" => Cap(w) \in Capability
    /\ run[w].at \in Routed => Provider(w) \notin Capability
    /\ run[w].at = "provider" /\ run[w].step \in CodexSteps => Provider(w) = Codex
    /\ run[w].at = "provider" /\ run[w].step \in {"replay", "call", "answer"} => Provider(w) # Codex

\* What a worker is about to write.
Writes(w) ==
    /\ run[w].at = "move" => run[w].step \in Requested
    /\ run[w].at = "provider" /\ run[w].step \in {"lift", "token", "record"} =>
          /\ run[w].got # "none"
          /\ run[w].got = "handed_off" => Provider(w) # Codex

RunInv ==
    /\ RunTyped
    /\ \A w \in Worker : Employed(w) /\ OnLane(w) /\ Writes(w)

DeskInv == desk \in Request \cup {NoRequest} /\ cancelling \subseteq Task

-----------------------------------------------------------------------------
(* The engine's operations                                                 *)

LEMMA EngineOps ==
  ASSUME NEW t \in Task
  PROVE  /\ \A p \in Profile : CreateTask(t, p) => EngineNext
         /\ \A s \in Requested, own \in Named : Transition(t, s, own) => EngineNext
         /\ \A w \in Worker : ClaimNext(w, t) => EngineNext
         /\ \A own \in Named : Heartbeat(t, own) => EngineNext
         /\ LeaseExpires(t) => EngineNext
         /\ \A l \in Lane, own \in Named, r \in BOOLEAN : Prepare(t, l, own, r) => EngineNext
         /\ \A s \in Terminal : FinishCodex(t, s) => EngineNext
         /\ \A c \in Capability, s \in Terminal : FinishCapability(t, c, s) => EngineNext
         /\ \A c \in Capability : Consume(t, c) => EngineNext
         /\ \A c \in Capability, own \in Named : Finalize(t, c, own) => EngineNext
         /\ RecordAttempt(t) => EngineNext
         /\ \A ttl \in BOOLEAN : CreateApproval(t, ttl) => EngineNext
         /\ \A d \in Decision : DecideApproval(t, d) => EngineNext
         /\ ApprovalGoesCold(t) => EngineNext
  BY DEF EngineNext, EngineStep

\* What is named by a worker at work is known to the engine.
LEMMA AtWork ==
  ASSUME RunInv, NEW w \in Worker, run[w].at # "idle"
  PROVE  /\ Mine(w) \in Task /\ Held(w) \in Named /\ NoClaim \in Named
         /\ Exists(Mine(w))
  BY DEF RunInv, Employed, Mine, Held, Named, Ownership

-----------------------------------------------------------------------------
(* Every step is a step of the engine, or leaves it alone                  *)

LEMMA WorkerRefines ==
  ASSUME RunInv, NEW w \in Worker, WorkerStep(w)
  PROVE  [EngineNext]_engineVars
<1>1. CASE Take(w) BY <1>1, EngineOps DEF Take
<1>2. CASE StopHalt(w)
  <2>1. run[w].at # "idle" BY <1>2 DEF StopHalt, Checked, Stages
  <2> QED BY <1>2, <2>1, AtWork, EngineOps DEF StopHalt, Requested, Status
<1>3. CASE Move(w)
  <2>1. run[w].at # "idle" /\ run[w].step \in Requested BY <1>3 DEF Move, RunInv, Writes
  <2> QED BY <1>3, <2>1, AtWork, EngineOps DEF Move
<1>4. CASE Poll(w) \/ Precheck(w) \/ StopFlag(w) \/ StopRow(w)
  BY <1>4 DEF Poll, Precheck, StopFlag, StopRow
<1> QED BY <1>1, <1>2, <1>3, <1>4 DEF WorkerStep

LEMMA CapabilityRefines ==
  ASSUME RunInv, NEW w \in Worker, CapabilityStep(w)
  PROVE  [EngineNext]_engineVars
<1>1. run[w].at = "capability" BY DEF CapabilityStep, CapIs, Is, CapOwn, CapFlag, CapRow, CapPrepare,
  CapRecover, CapRunning, CapOwnAgain, CapFlagAgain, CapRowAgain, CapCall, CapAnswer, CapOwnLast,
  CapFlagLast, CapRowLast, CapDiscard, CapRevoked, CapFinalize, CapSuperseded, CapDisown, CapCatch,
  CapCatchFlag, CapHalt, CapHalted, CapHaltUnowned, CapUnknown
<1>2. /\ Mine(w) \in Task /\ Held(w) \in Named /\ NoClaim \in Named
      /\ Cap(w) \in Capability /\ Cap(w) \in Lane
  BY <1>1, AtWork DEF RunInv, OnLane, Lane
<1>3. {"completed", "outcome_unknown"} \subseteq Terminal /\ {"running", "failed", "cancelled"} \subseteq Requested
  BY DEF Terminal, Requested, Status
<1>5. CASE CapRecover(w) \/ CapDiscard(w) \/ CapRevoked(w) \/ CapSuperseded(w) \/ CapHalt(w) \/ CapUnknown(w)
  BY <1>2, <1>3, <1>5, EngineOps DEF Finish, CapRecover, CapDiscard, CapRevoked, CapSuperseded, CapHalt, CapUnknown
<1>6. CASE CapPrepare(w) BY <1>2, <1>6, EngineOps DEF CapPrepare
<1>7. CASE CapRunning(w) \/ CapDisown(w) \/ CapHaltUnowned(w)
  BY <1>2, <1>3, <1>7, EngineOps DEF CapRunning, CapDisown, CapHaltUnowned
<1>8. CASE CapFinalize(w) BY <1>2, <1>8, EngineOps DEF CapFinalize
<1>9. CASE CapOwn(w) \/ CapFlag(w) \/ CapRow(w) \/ CapOwnAgain(w) \/ CapFlagAgain(w) \/ CapRowAgain(w)
        \/ CapCall(w) \/ CapAnswer(w) \/ CapOwnLast(w) \/ CapFlagLast(w) \/ CapRowLast(w)
        \/ CapCatch(w) \/ CapCatchFlag(w) \/ CapHalted(w)
  BY <1>9 DEF Quiet, CapOwn, CapFlag, CapRow, CapOwnAgain, CapFlagAgain, CapRowAgain, CapCall,
     CapAnswer, CapOwnLast, CapFlagLast, CapRowLast, CapCatch, CapCatchFlag, CapHalted
<1> QED BY <1>5, <1>6, <1>7, <1>8, <1>9 DEF CapabilityStep

LEMMA ProviderRefines ==
  ASSUME RunInv, NEW w \in Worker, ProviderStep(w)
  PROVE  [EngineNext]_engineVars
<1>1. run[w].at = "provider" BY DEF ProviderStep, ProvIs, Is, ProvRow, ProvWorkspace, ProvControls, ProvReplay,
  ProvPrepare, ProvRecover, ProvRenew, ProvLease, ProvQuarantine, ProvSpawn, ProvExec, ProvLift, ProvCall,
  ProvAnswer, ProvToken, ProvRecord, ProvRecorded, ProvRetry
<1>2. Mine(w) \in Task /\ Held(w) \in Named /\ NoClaim \in Named /\ Codex \in Lane
  BY <1>1, AtWork DEF Lane
<1>3. CASE ProvPrepare(w) BY <1>2, <1>3, EngineOps DEF ProvPrepare
<1>4. CASE ProvRecover(w) BY <1>2, <1>4, EngineOps DEF ProvRecover, Terminal
<1>5. CASE ProvRenew(w) \/ ProvLease(w) BY <1>2, <1>5, EngineOps DEF ProvRenew, ProvLease
<1>6. CASE ProvRecord(w)
  <2>1. CASE Provider(w) = Codex
    <3>1. run[w].got \in Result /\ run[w].got \notin {"none", "handed_off"}
      BY <1>1, <1>6, <2>1 DEF RunInv, RunTyped, Record, Writes, ProvRecord, ProvIs, Is
    <3>2. Outcome(w) \in Terminal BY <3>1 DEF Outcome, Result, Terminal
    <3> QED BY <1>2, <1>6, <2>1, <3>2, EngineOps DEF ProvRecord
  <2>2. CASE Provider(w) # Codex BY <1>2, <1>6, <2>2, EngineOps DEF ProvRecord
  <2> QED BY <2>1, <2>2
<1>7. CASE ProvRetry(w) BY <1>2, <1>7, EngineOps DEF ProvRetry, Requested, Status
<1>8. CASE ProvRow(w) \/ ProvWorkspace(w) \/ ProvControls(w) \/ ProvReplay(w) \/ ProvQuarantine(w) \/ ProvSpawn(w)
        \/ ProvExec(w) \/ ProvLift(w) \/ ProvCall(w) \/ ProvAnswer(w) \/ ProvToken(w) \/ ProvRecorded(w)
  BY <1>8 DEF Calm, ProvRow, ProvWorkspace, ProvControls, ProvReplay, ProvQuarantine, ProvSpawn, ProvExec,
     ProvLift, ProvCall, ProvAnswer, ProvToken, ProvRecorded
<1> QED BY <1>3, <1>4, <1>5, <1>6, <1>7, <1>8 DEF ProviderStep

LEMMA PipelineRefines ==
  ASSUME RunInv, NEW w \in Worker, Pipeline(w) \/ ApplyEdits(w)
  PROVE  [EngineNext]_engineVars
<1>1. run[w].at # "idle" BY DEF Pipeline, ApplyEdits, EvaluateApproval, PromptFinds, PromptInserts,
  PromptParks, GuardRow, GuardWorkspace, GuardControls, MarkRunning, StageBeats, AfterProvider, PassGate, Is, Stages
<1>2. Mine(w) \in Task /\ Held(w) \in Named /\ NoClaim \in Named BY <1>1, AtWork
<1>3. CASE PromptInserts(w) BY <1>2, <1>3, EngineOps DEF PromptInserts
<1>4. CASE PromptParks(w) \/ MarkRunning(w)
  BY <1>2, <1>4, EngineOps DEF PromptParks, MarkRunning, Requested, Status
<1>5. CASE StageBeats(w) BY <1>2, <1>5, EngineOps DEF StageBeats
<1>6. CASE EvaluateApproval(w) \/ PromptFinds(w) \/ GuardRow(w) \/ GuardWorkspace(w) \/ GuardControls(w)
        \/ AfterProvider(w) \/ PassGate(w) \/ ApplyEdits(w)
  BY <1>6 DEF EvaluateApproval, PromptFinds, GuardRow, GuardWorkspace, GuardControls, AfterProvider, PassGate,
     ApplyEdits
<1> QED BY <1>3, <1>4, <1>5, <1>6 DEF Pipeline

LEMMA GovernRefines ==
  ASSUME DeskInv, Govern
  PROVE  [EngineNext]_engineVars
<1>1. NoClaim \in Named BY DEF Named, Ownership
<1>2. CASE Asking
  BY <1>2 DEF Asking, Approve, Pause, Resume, Reject, CancelLooks, EmergencyStop, EngineNext
<1>3. CASE Handling
  <2>1. desk # NoRequest => desk.task \in Task /\ Target[desk.op] \in Requested
    BY DEF DeskInv, Request, Target, Requested, Status
  <2>2. CASE FindPending BY <2>2 DEF FindPending
  <2>3. CASE InsertRow BY <2>1, <2>3, EngineOps DEF InsertRow, In
  <2>4. CASE DecideRow("approve", "approved") \/ DecideRow("reject", "rejected")
    BY <2>1, <2>4, EngineOps DEF DecideRow, In, Decision
  <2>5. CASE Apply BY <1>1, <2>1, <2>5, EngineOps DEF Apply
  <2>6. CASE \E t \in Task : CancelApplies(t)
    BY <1>1, <2>6, EngineOps DEF CancelApplies, Requested, Status
  <2> QED BY <1>3, <2>2, <2>3, <2>4, <2>5, <2>6 DEF Handling
<1> QED BY <1>2, <1>3 DEF Govern

LEMMA Refines == RunInv /\ DeskInv /\ [Next]_vars => [EngineNext]_engineVars
<1> SUFFICES ASSUME RunInv, DeskInv, [Next]_vars PROVE [EngineNext]_engineVars
  OBVIOUS
<1>1. ASSUME NEW w \in Worker, WorkerActs(w) PROVE [EngineNext]_engineVars
  BY <1>1, WorkerRefines, CapabilityRefines, ProviderRefines, PipelineRefines DEF WorkerActs, Works
<1>2. ASSUME NEW t \in Task, Submit(t) \/ Clock(t) \/ Lapse(t) PROVE [EngineNext]_engineVars
  BY <1>2, EngineOps DEF Submit, Clock, Lapse
<1>3. ASSUME NEW c \in Claim, Receive(c) PROVE [EngineNext]_engineVars
  BY <1>3, EngineOps DEF Receive, Serve, Drop
<1>4. CASE Settle BY <1>4 DEF Settle, OrphanExits, OperatorLifts
<1>5. CASE Govern BY <1>5, GovernRefines
<1>6. CASE Fault BY <1>6 DEF Fault
<1>7. CASE UNCHANGED vars BY <1>7 DEF vars
<1> QED BY <1>1, <1>2, <1>3, <1>4, <1>5, <1>6, <1>7 DEF Next

-----------------------------------------------------------------------------
(* Where workers go                                                        *)

\* A step of worker w moves w alone.
Only(w) ==
    /\ RunTyped'
    /\ \A v \in Worker \ {w} : run'[v] = run[v]

Keeps(w) == run'[w].task = run[w].task /\ run'[w].claim = run[w].claim

\* A step that gives w a new record changes no other.
LEMMA Rewritten ==
  ASSUME RunTyped, NEW w \in Worker, NEW r, Record(r), run' = [run EXCEPT ![w] = r]
  PROVE  Only(w) /\ run'[w] = r
<1>1. DOMAIN run = Worker BY DEF RunTyped
<1>2. run'[w] = r /\ DOMAIN run' = Worker /\ \A v \in Worker \ {w} : run'[v] = run[v] BY <1>1
<1> QED BY <1>2 DEF RunTyped, Only

LEMMA Moves ==
  ASSUME RunInv, NEW w \in Worker
  PROVE  /\ \A p \in Points : \A s : To(w, p, s) =>
               /\ Only(w) /\ Keeps(w) /\ run'[w].at = p /\ run'[w].step = s
               /\ run'[w].got = run[w].got
         /\ \A s : Step(w, s) =>
               /\ Only(w) /\ Keeps(w) /\ run'[w].at = run[w].at /\ run'[w].step = s
               /\ run'[w].got = run[w].got
         /\ \A s : Leave(w, s) =>
               /\ Only(w) /\ Keeps(w) /\ run'[w].at = "move" /\ run'[w].step = s
         /\ \A r \in Result : \A s : Got(w, r, s) =>
               /\ Only(w) /\ Keeps(w) /\ run'[w].at = run[w].at /\ run'[w].step = s
               /\ run'[w].got = r
<1>1. RunTyped /\ Record(run[w]) BY DEF RunInv, RunTyped
<1>2. \A p \in Points : \A s : Record([run[w] EXCEPT !.at = p, !.step = s]) BY <1>1 DEF Record
<1>3. \A r \in Result : \A s : Record([run[w] EXCEPT !.got = r, !.step = s]) BY <1>1 DEF Record
<1>4. ASSUME NEW p \in Points, NEW s, To(w, p, s)
      PROVE  /\ Only(w) /\ Keeps(w) /\ run'[w].at = p /\ run'[w].step = s
             /\ run'[w].got = run[w].got
  <2> DEFINE r == [run[w] EXCEPT !.at = p, !.step = s]
  <2>1. run' = [run EXCEPT ![w] = r] BY <1>1, <1>4 DEF To, RunTyped
  <2>2. Record(r) BY <1>2
  <2>3. r.at = p /\ r.step = s /\ r.task = run[w].task /\ r.claim = run[w].claim /\ r.got = run[w].got
    BY <1>1 DEF Record
  <2> HIDE DEF r
  <2> QED BY <1>1, <2>1, <2>2, <2>3, Rewritten DEF Keeps
<1>5. ASSUME NEW g \in Result, NEW s, Got(w, g, s)
      PROVE  /\ Only(w) /\ Keeps(w) /\ run'[w].at = run[w].at /\ run'[w].step = s
             /\ run'[w].got = g
  <2> DEFINE r == [run[w] EXCEPT !.got = g, !.step = s]
  <2>1. run' = [run EXCEPT ![w] = r] BY <1>1, <1>5 DEF Got, RunTyped
  <2>2. Record(r) BY <1>3
  <2>3. r.at = run[w].at /\ r.step = s /\ r.task = run[w].task /\ r.claim = run[w].claim /\ r.got = g
    BY <1>1 DEF Record
  <2> HIDE DEF r
  <2> QED BY <1>1, <2>1, <2>2, <2>3, Rewritten DEF Keeps
<1>6. run[w].at \in Points /\ "move" \in Points BY <1>1 DEF Record, Points
<1> QED BY <1>4, <1>5, <1>6 DEF Step, Leave

\* Where a worker at work may get to, the lane of its task being what it is.
Legal(w) ==
    LET r == run'[w] IN
    /\ r.at # "idle"
    /\ r.at = "capability" => Cap(w) \in Capability
    /\ r.at \in Routed => Provider(w) \notin Capability
    /\ r.at = "provider" /\ r.step \in CodexSteps => Provider(w) = Codex
    /\ r.at = "provider" /\ r.step \in {"replay", "call", "answer"} => Provider(w) # Codex
    /\ r.at = "move" => r.step \in Requested
    /\ r.at = "provider" /\ r.step \in {"lift", "token", "record"} =>
          /\ r.got # "none"
          /\ r.got = "handed_off" => Provider(w) # Codex

Lands(w) == Only(w) /\ (run'[w] = Idle \/ (run[w].at # "idle" /\ Keeps(w) /\ Legal(w)))

LEMMA Returns == ASSUME RunInv, NEW w \in Worker, Return(w) PROVE Lands(w)
<1>1. 1 \in 1..MaxRetries BY ProviderAssumption
<1>2. Record(Idle) BY <1>1 DEF Idle, Record, Points, Ownership, Result
<1> QED BY <1>2, Rewritten DEF Return, Lands, RunInv

\* A worker that leaves has a status to write that transition accepts.
LEMMA Leaves ==
  ASSUME RunInv, NEW w \in Worker, run[w].at # "idle"
  PROVE  \A s \in Requested : Leave(w, s) => Lands(w)
<1>1. "move" \notin Routed \cup {"capability", "provider", "idle"} BY DEF Routed, Stages
<1> QED BY <1>1, Moves DEF Lands, Legal

LEMMA Places ==
  /\ {"start", "prompt", "guard", "capability", "provider", "gate", "move"} \subseteq Points
  /\ Stages \subseteq Points /\ Stages \subseteq Routed
  /\ {"guard", "provider", "gate"} \subseteq Routed
  /\ {"start", "prompt", "capability", "move", "idle"} \cap Routed = {}
  /\ {"start", "prompt", "capability", "move", "idle", "provider", "guard", "gate"} \cap Stages = {}
  /\ {"running", "failed", "cancelled", "outcome_unknown", "completed", "waiting_for_approval",
       "waiting_for_manual_response"} \subseteq Requested
  BY DEF Points, Checked, Routed, Stages, Requested, Status

Takes(w) ==
    /\ run[w].at = "idle" /\ Only(w)
    /\ run'[w].at \in {"idle", "start"}
    /\ IF run'[w].at = "idle" THEN run'[w].task = NoTask /\ run'[w].claim = NoClaim
       ELSE /\ run'[w].task \in Task /\ ClaimNext(w, run'[w].task)
            /\ run'[w].claim = FreshClaim(w)

LEMMA PollMoves ==
  ASSUME RunInv, NEW w \in Worker, Poll(w)
  PROVE  Takes(w)
<1>1. run[w].at = "idle" /\ run[w].task = NoTask /\ run[w].claim = NoClaim
  BY DEF Poll, Is, RunInv, Employed
<1> QED BY <1>1, Moves DEF Poll, Takes, Keeps

LEMMA TakeMoves ==
  ASSUME RunInv, EngineTypeOK, NEW w \in Worker, Take(w)
  PROVE  Takes(w) \/ Lands(w)
<1>1. CASE Return(w) BY <1>1, Returns
<1>2. ASSUME NEW t \in Task, ClaimNext(w, t),
             run' = [run EXCEPT ![w].at = "start", ![w].step = "cancelled",
                                ![w].task = t, ![w].claim = FreshClaim(w)]
      PROVE  Takes(w)
  <2>1. FreshClaim(w) \in Ownership BY <1>2, FreshClaimTyped DEF ClaimNext, Ownership
  <2>2. RunTyped /\ Record(run[w]) BY DEF RunInv, RunTyped
  <2> DEFINE r == [run[w] EXCEPT !.at = "start", !.step = "cancelled", !.task = t,
                                 !.claim = FreshClaim(w)]
  <2>3. run' = [run EXCEPT ![w] = r] BY <1>2, <2>2 DEF RunTyped
  <2>4. Record(r) /\ r.at = "start" /\ r.task = t /\ r.claim = FreshClaim(w)
    BY <2>1, <2>2, Places DEF Record
  <2>5. run[w].at = "idle" BY DEF Take, Is
  <2> HIDE DEF r
  <2> QED BY <1>2, <2>2, <2>3, <2>4, <2>5, Rewritten DEF Takes
<1> QED BY <1>1, <1>2 DEF Take

LEMMA WorkerMoves ==
  ASSUME RunInv, EngineTypeOK, NEW w \in Worker, WorkerStep(w)
  PROVE  Takes(w) \/ Lands(w)
<1>1. CASE Precheck(w)
  <2>1. run[w].at = "start" BY <1>1 DEF Precheck, Is
  <2> QED BY <1>1, <2>1, Returns, Moves, Places DEF Precheck, Lands, Legal
<1>2. CASE StopFlag(w)
  <2>1. run[w].at \in Checked /\ run[w].at \notin {"idle", "capability", "move"}
        /\ (Step(w, "halt") \/ Step(w, "row"))
    BY <1>2 DEF StopFlag, Checked, Stages
  <2> QED BY <2>1, Moves DEF Lands, Legal, RunInv, OnLane, CodexSteps, Cap, Provider
<1>3. CASE StopHalt(w) \/ StopRow(w)
  <2>1. run[w].at \in Checked /\ run[w].at \notin {"idle", "capability", "move"}
        /\ (Return(w) \/ Leave(w, "failed") \/ Step(w, "go"))
    BY <1>3 DEF StopHalt, StopRow, Stopped, Checked, Stages
  <2>2. Step(w, "go") => Lands(w) BY <2>1, Moves DEF Lands, Legal, RunInv, OnLane, CodexSteps, Cap, Provider
  <2> QED BY <2>1, <2>2, Returns, Leaves, Places
<1>4. CASE Move(w) BY <1>4, Returns DEF Move
<1> QED BY <1>1, <1>2, <1>3, <1>4, PollMoves, TakeMoves DEF WorkerStep

LEMMA CapabilityMoves ==
  ASSUME RunInv, NEW w \in Worker, CapabilityStep(w)
  PROVE  Lands(w)
<1>1. run[w].at = "capability" /\ Cap(w) \in Capability
  BY DEF CapabilityStep, RunInv, OnLane, CapIs, Is, CapOwn, CapFlag, CapRow, CapPrepare,
  CapRecover, CapRunning, CapOwnAgain, CapFlagAgain, CapRowAgain, CapCall, CapAnswer, CapOwnLast,
  CapFlagLast, CapRowLast, CapDiscard, CapRevoked, CapFinalize, CapSuperseded, CapDisown, CapCatch,
  CapCatchFlag, CapHalt, CapHalted, CapHaltUnowned, CapUnknown
<1>2. \A s : Step(w, s) => Lands(w)
  BY <1>1, Moves, Places DEF Lands, Legal
<1>3. Return(w) => Lands(w) BY Returns
<1>4. \A s \in {"failed", "cancelled", "outcome_unknown"} : Leave(w, s) => Lands(w)
  BY <1>1, Leaves, Places
<1>5. CASE CapOwn(w) \/ CapFlag(w) \/ CapRow(w) \/ CapPrepare(w) \/ CapRecover(w) \/ CapRunning(w)
        \/ CapOwnAgain(w) \/ CapFlagAgain(w) \/ CapRowAgain(w) \/ CapCall(w) \/ CapAnswer(w)
        \/ CapOwnLast(w) \/ CapFlagLast(w)
  BY <1>2, <1>3, <1>4, <1>5 DEF Finish, CapOwn, CapFlag, CapRow, CapPrepare, CapRecover, CapRunning,
     CapOwnAgain, CapFlagAgain, CapRowAgain, CapCall, CapAnswer, CapOwnLast, CapFlagLast
<1>6. CASE CapRowLast(w) \/ CapDiscard(w) \/ CapRevoked(w) \/ CapFinalize(w) \/ CapSuperseded(w)
        \/ CapDisown(w) \/ CapCatch(w) \/ CapCatchFlag(w) \/ CapHalt(w) \/ CapHalted(w)
        \/ CapHaltUnowned(w) \/ CapUnknown(w)
  BY <1>2, <1>3, <1>4, <1>6 DEF Finish, CapRowLast, CapDiscard, CapRevoked, CapFinalize, CapSuperseded,
     CapDisown, CapCatch, CapCatchFlag, CapHalt, CapHalted, CapHaltUnowned, CapUnknown
<1> QED BY <1>5, <1>6 DEF CapabilityStep

LEMMA ProviderMoves ==
  ASSUME RunInv, NEW w \in Worker, ProviderStep(w)
  PROVE  Lands(w)
<1>1. run[w].at = "provider" /\ Provider(w) \notin Capability /\ Codex \notin Capability
  BY EngineAssumption DEF ProviderStep, RunInv, OnLane, Routed, ProvIs, Is, ProvRow, ProvWorkspace, ProvControls,
  ProvReplay, ProvPrepare, ProvRecover, ProvRenew, ProvLease, ProvQuarantine, ProvSpawn, ProvExec,
  ProvLift, ProvCall, ProvAnswer, ProvToken, ProvRecord, ProvRecorded, ProvRetry
<1>2. \A s : Step(w, s) =>
         Only(w) /\ Keeps(w) /\ run'[w].at = "provider" /\ run'[w].step = s /\ run'[w].got = run[w].got
  BY <1>1, Moves
<1>3. \A r \in Result : \A s : Got(w, r, s) =>
         Only(w) /\ Keeps(w) /\ run'[w].at = "provider" /\ run'[w].step = s /\ run'[w].got = r
  BY <1>1, Moves
<1>4. \A s \in {"failed", "cancelled", "outcome_unknown", "waiting_for_manual_response"} :
         Leave(w, s) => Lands(w)
  BY <1>1, Leaves, Places
<1>5. {"ok", "failed", "unknown", "handed_off"} \subseteq Result BY DEF Result
<1>6. CASE ProvRow(w) \/ ProvWorkspace(w) \/ ProvControls(w) \/ ProvReplay(w) \/ ProvPrepare(w) \/ ProvRecover(w)
        \/ ProvRenew(w)
  <2>1. \A s \in {"workspace", "controls", "renew"} : Step(w, s) => Lands(w)
    BY <1>1, <1>2 DEF Lands, Legal, CodexSteps
  <2>2. Provider(w) = Codex => \A s \in {"prepare", "recover", "quarantine"} : Step(w, s) => Lands(w)
    BY <1>1, <1>2 DEF Lands, Legal, CodexSteps
  <2>3. Provider(w) # Codex => \A s \in {"replay", "call"} : Step(w, s) => Lands(w)
    BY <1>1, <1>2 DEF Lands, Legal, CodexSteps
  <2>4. ProvPrepare(w) => Provider(w) = Codex
    BY DEF ProvPrepare, ProvIs, Is, RunInv, OnLane, CodexSteps
  <2>5. CASE ProvRow(w) \/ ProvWorkspace(w) \/ ProvControls(w) \/ ProvReplay(w)
    BY <1>4, <2>1, <2>2, <2>3, <2>5 DEF ProvRow, ProvWorkspace, ProvControls, ProvReplay
  <2>6. CASE ProvPrepare(w) \/ ProvRecover(w) \/ ProvRenew(w)
    BY <1>4, <2>1, <2>2, <2>3, <2>4, <2>6, Returns DEF ProvPrepare, ProvRecover, ProvRenew
  <2> QED BY <1>6, <2>5, <2>6
<1>7. CASE ProvLease(w)
  <2> DEFINE lost == run[w].lost \/ (~Beats(Mine(w), Held(w)) /\ status[Mine(w)] # "cancelled")
             r == [run[w] EXCEPT !.lost = lost]
  <2>1. RunTyped /\ Record(run[w]) BY DEF RunInv, RunTyped
  <2>2. run' = [run EXCEPT ![w] = r] BY <1>7, <2>1 DEF ProvLease, RunTyped
  <2>3. lost \in BOOLEAN BY <2>1 DEF Record
  <2>4. Record(r) /\ r.at = run[w].at /\ r.step = run[w].step /\ r.task = run[w].task
        /\ r.claim = run[w].claim /\ r.got = run[w].got
    <3> HIDE DEF lost
    <3> QED BY <2>1, <2>3 DEF Record
  <2>5. Only(w) /\ run'[w] = r
    <3> HIDE DEF r
    <3> QED BY <2>1, <2>2, <2>4, Rewritten
  <2> HIDE DEF r
  <2> QED BY <1>1, <1>7, <2>4, <2>5 DEF Lands, Keeps, Legal, CodexSteps, RunInv, OnLane, ProvLease,
       Provider, Mine
<1>8. CASE ProvQuarantine(w) \/ ProvSpawn(w) \/ ProvExec(w) \/ ProvLift(w)
  BY <1>1, <1>2, <1>3, <1>5, <1>8 DEF Lands, Legal, CodexSteps, RunInv, OnLane, Writes, ProvIs, Is,
     ProvQuarantine, ProvSpawn, ProvExec, ProvLift
<1>9. CASE ProvCall(w) \/ ProvAnswer(w) \/ ProvToken(w) \/ ProvRecord(w)
  BY <1>1, <1>2, <1>3, <1>4, <1>5, <1>9, Returns DEF Lands, Legal, CodexSteps, RunInv, OnLane, Writes, ProvIs, Is,
     ProvCall, ProvAnswer, ProvToken, ProvRecord
<1>10. CASE ProvRecorded(w)
  BY <1>1, <1>2, <1>4, <1>10 DEF Lands, Legal, CodexSteps, ProvRecorded
<1>11. CASE ProvRetry(w)
  <2>1. CASE Leave(w, "failed") BY <1>4, <2>1
  <2>2. CASE run' = [run EXCEPT ![w].step = "flag", ![w].try = @ + 1, ![w].got = "none"]
             /\ run[w].try < MaxRetries
    <3> DEFINE r == [run[w] EXCEPT !.step = "flag", !.try = @ + 1, !.got = "none"]
    <3>1. RunTyped /\ Record(run[w]) BY DEF RunInv, RunTyped
    <3>2. run' = [run EXCEPT ![w] = r] BY <2>2, <3>1 DEF RunTyped
    <3>3. run[w].try + 1 \in 1..MaxRetries BY <2>2, <3>1, ProviderAssumption DEF Record
    <3>4. Record(r) /\ r.at = run[w].at /\ r.step = "flag" /\ r.task = run[w].task
          /\ r.claim = run[w].claim
      BY <3>1, <3>3 DEF Record, Result
    <3>5. Only(w) /\ run'[w] = r
      <4> HIDE DEF r
      <4> QED BY <3>1, <3>2, <3>4, Rewritten
    <3> HIDE DEF r
    <3> QED BY <1>1, <3>4, <3>5 DEF Lands, Keeps, Legal, CodexSteps
  <2> QED BY <1>11, <2>1, <2>2 DEF ProvRetry
<1> QED BY <1>6, <1>7, <1>8, <1>9, <1>10, <1>11 DEF ProviderStep

LEMMA PipelineMoves ==
  ASSUME RunInv, NEW w \in Worker, Pipeline(w) \/ ApplyEdits(w)
  PROVE  Lands(w)
<1>1. run[w].at # "idle" BY DEF Pipeline, ApplyEdits, EvaluateApproval, PromptFinds, PromptInserts,
  PromptParks, GuardRow, GuardWorkspace, GuardControls, MarkRunning, StageBeats, AfterProvider, PassGate, Is, Stages
<1>2. \A s \in {"failed", "cancelled", "completed"} : Leave(w, s) => Lands(w)
  BY <1>1, Leaves, Places
<1>3. CASE EvaluateApproval(w)
  <2>1. CASE To(w, "prompt", "find") BY <1>1, <2>1, Moves, Places DEF Lands, Legal
  <2>2. CASE profile[Mine(w)].lane \in Capability /\ To(w, "capability", "own")
    BY <1>1, <2>2, Moves, Places DEF Lands, Legal, Cap
  <2>3. CASE profile[Mine(w)].lane \notin Capability /\ To(w, "guard", "row")
    BY <1>1, <2>3, Moves, Places DEF Lands, Legal, Provider
  <2> QED BY <1>2, <1>3, <2>1, <2>2, <2>3 DEF EvaluateApproval
<1>4. CASE PromptFinds(w) \/ PromptInserts(w) \/ PromptParks(w)
  BY <1>1, <1>4, Moves, Places, Returns DEF Lands, Legal, PromptFinds, PromptInserts, PromptParks, Is
<1>5. CASE GuardRow(w) \/ GuardWorkspace(w) \/ GuardControls(w)
  BY <1>1, <1>2, <1>5, Moves, Places DEF Lands, Legal, GuardRow, GuardWorkspace, GuardControls, Is, RunInv, OnLane
<1>6. CASE MarkRunning(w)
  <2>1. Provider(w) \notin Capability BY <1>6, Places DEF MarkRunning, Is, RunInv, OnLane
  <2>2. "inspect_workspace" \in Stages /\ "decompose" \in Stages BY DEF Stages
  <2>3. PICK p \in Stages : To(w, p, "flag") BY <1>6, <2>2 DEF MarkRunning
  <2> QED BY <1>1, <2>1, <2>3, Moves, Places DEF Lands, Legal
<1>7. CASE StageBeats(w)
  <2>1. Provider(w) \notin Capability BY <1>7, Places DEF StageBeats, RunInv, OnLane
  <2>2. CASE Leave(w, "failed") BY <1>2, <2>2
  <2>3. CASE To(w, Following[run[w].at][1], Following[run[w].at][2])
    <3>1. \/ \E p \in Stages \cup {"guard"}, s \in {"flag", "planned", "write"} : To(w, p, s)
          \/ To(w, "provider", "flag")
          \/ To(w, "move", "completed")
      BY <1>7, <2>3 DEF StageBeats, Stages, Following
    <3>2. CASE To(w, "move", "completed") BY <1>2, <3>2 DEF Leave
    <3>3. CASE To(w, "provider", "flag")
      BY <1>1, <2>1, <3>3, Moves, Places DEF Lands, Legal, CodexSteps
    <3>4. CASE \E p \in Stages \cup {"guard"}, s \in {"flag", "planned", "write"} : To(w, p, s)
      <4>1. PICK p \in Stages \cup {"guard"}, s \in {"flag", "planned", "write"} : To(w, p, s) BY <3>4
      <4>2. p \in Points /\ p \notin {"idle", "capability", "provider", "move"} BY Places
      <4> QED BY <1>1, <2>1, <4>1, <4>2, Moves DEF Lands, Legal
    <3> QED BY <3>1, <3>2, <3>3, <3>4
  <2> QED BY <1>7, <2>2, <2>3 DEF StageBeats
<1>8. CASE AfterProvider(w)
  <2>1. Provider(w) \notin Capability BY <1>8, Places DEF AfterProvider, Is, RunInv, OnLane
  <2>2. "summarize" \in Stages BY DEF Stages
  <2>3. \/ Leave(w, "failed")
        \/ \E p \in Stages \cup {"gate"} : To(w, p, "flag")
    BY <1>8, <2>2 DEF AfterProvider
  <2>4. ASSUME NEW p \in Stages \cup {"gate"}, To(w, p, "flag") PROVE Lands(w)
    <3>1. p \in Points /\ p \notin {"idle", "capability", "provider", "move"} BY Places
    <3> QED BY <1>1, <2>1, <2>4, <3>1, Moves DEF Lands, Legal
  <2> QED BY <1>2, <2>3, <2>4
<1>9. CASE PassGate(w) \/ ApplyEdits(w)
  <2>1. Provider(w) \notin Capability BY <1>9, Places DEF PassGate, ApplyEdits, Is, RunInv, OnLane, Stages, Routed
  <2>2. {"apply_edits", "validate"} \subseteq Stages BY DEF Stages
  <2>3. \/ Leave(w, "failed")
        \/ \E p \in Stages : To(w, p, "flag")
    BY <1>9, <2>2 DEF PassGate, ApplyEdits
  <2>4. ASSUME NEW p \in Stages, To(w, p, "flag") PROVE Lands(w)
    <3>1. p \in Points /\ p \notin {"idle", "capability", "provider", "move"} BY Places
    <3> QED BY <1>1, <2>1, <2>4, <3>1, Moves DEF Lands, Legal
  <2> QED BY <1>2, <2>3, <2>4
<1> QED BY <1>3, <1>4, <1>5, <1>6, <1>7, <1>8, <1>9 DEF Pipeline

LEMMA WorksMoves ==
  ASSUME RunInv, EngineTypeOK, NEW w \in Worker, WorkerActs(w)
  PROVE  Takes(w) \/ Lands(w)
  BY WorkerMoves, CapabilityMoves, ProviderMoves, PipelineMoves DEF WorkerActs, Works

-----------------------------------------------------------------------------
(* The invariant of the callers                                            *)

\* Claims are drawn upwards, and a task that exists keeps what it was made of.
LEMMA EngineGrows ==
  ASSUME EngineTypeOK, [EngineNext]_engineVars
  PROVE  /\ issued \in Nat /\ issued' \in Nat /\ issued <= issued'
         /\ \A t \in Task : Exists(t) => Exists(t)' /\ profile'[t] = profile[t]
<1> USE EngineAssumption DEF EngineTypeOK, taskVars, ledgerVars, Exists
<1>1. ASSUME NEW t \in Task, NEW p \in Profile, CreateTask(t, p)
      PROVE  UNCHANGED issued /\ \A u \in Task : Exists(u) => Exists(u)' /\ profile'[u] = profile[u]
  BY <1>1 DEF CreateTask
<1>2. ASSUME NEW t \in Task, NEW s \in Requested, NEW own \in Named, Transition(t, s, own)
      PROVE  UNCHANGED <<issued, profile>> /\ \A u \in Task : Exists(u) => Exists(u)'
  BY <1>2 DEF Transition, Moved, Requested
<1>3. ASSUME NEW t \in Task, NEW w \in Worker, ClaimNext(w, t)
      PROVE  issued' = issued + 1 /\ UNCHANGED profile /\ \A u \in Task : Exists(u) => Exists(u)'
  BY <1>3 DEF ClaimNext
<1>4. ASSUME NEW t \in Task, NEW c \in Capability, NEW own \in Named, Finalize(t, c, own)
      PROVE  UNCHANGED <<issued, profile>> /\ \A u \in Task : Exists(u) => Exists(u)'
  BY <1>4 DEF Finalize
<1>5. \/ \E t \in Task, p \in Profile : CreateTask(t, p)
      \/ \E t \in Task, s \in Requested, own \in Named : Transition(t, s, own)
      \/ \E t \in Task, w \in Worker : ClaimNext(w, t)
      \/ \E t \in Task, c \in Capability, own \in Named : Finalize(t, c, own)
      \/ UNCHANGED <<issued, profile, status>>
  BY DEF EngineNext, EngineStep, engineVars, Heartbeat, LeaseExpires, Prepare, FinishCodex,
         FinishCapability, Consume, RecordAttempt, CreateApproval, DecideApproval,
         ApprovalGoesCold, SetStop
<1> QED BY <1>1, <1>2, <1>3, <1>4, <1>5

\* A worker that stays where it is stays right while the engine moves on.
LEMMA Unmoved ==
  ASSUME RunInv, EngineTypeOK, [EngineNext]_engineVars, NEW v \in Worker, run'[v] = run[v]
  PROVE  (Employed(v) /\ OnLane(v) /\ Writes(v))'
<1>1. run[v].at # "idle" => run[v].task \in Task /\ Exists(run[v].task)' /\ profile'[run[v].task] = profile[run[v].task]
  BY EngineGrows DEF RunInv, Employed
<1>2. Employed(v)'
  <2>1. run[v].claim \in Claim => run[v].claim.token \in Nat BY DEF Claim
  <2> QED BY <1>1, <2>1, EngineGrows DEF RunInv, Employed
<1>3. (OnLane(v) /\ Writes(v))'
  <2>1. run[v].at \in Routed \cup {"capability", "provider"} => run[v].at # "idle" BY DEF Routed, Stages
  <2>2. "provider" \in Routed BY DEF Routed
  <2> QED BY <1>1, <2>1, <2>2 DEF RunInv, OnLane, Writes, Cap, Provider, Mine
<1> QED BY <1>2, <1>3

LEMMA RunInvStep ==
  ASSUME RunInv, EngineTypeOK, DeskInv, [Next]_vars
  PROVE  RunInv'
<1>0. [EngineNext]_engineVars BY Refines
<1>1. ASSUME NEW w \in Worker, Lands(w) PROVE RunInv'
  <2>1. (Employed(w) /\ OnLane(w) /\ Writes(w))'
    <3>1. CASE run'[w] = Idle
      <4>1. "idle" \notin Routed BY DEF Routed, Stages
      <4> QED BY <3>1, <4>1 DEF Idle, Employed, OnLane, Writes
    <3>2. CASE run[w].at # "idle" /\ Keeps(w) /\ Legal(w)
      <4>1. run[w].task \in Task /\ status'[run[w].task] # "absent"
            /\ profile'[run[w].task] = profile[run[w].task]
        BY <1>0, <3>2, EngineGrows DEF RunInv, Employed, Exists
      <4>2. run[w].claim \in Claim /\ run[w].claim.token <= issued' /\ run[w].claim.worker = w
        <5>1. run[w].claim \in Claim => run[w].claim.token \in Nat BY DEF Claim
        <5> QED BY <1>0, <3>2, <5>1, EngineGrows DEF RunInv, Employed
      <4> QED BY <3>2, <4>1, <4>2 DEF Keeps, Legal, Exists, Employed, OnLane, Writes, Cap, Provider, Mine
    <3> QED BY <1>1, <3>1, <3>2 DEF Lands
  <2>2. RunTyped' /\ \A v \in Worker \ {w} : run'[v] = run[v] BY <1>1 DEF Lands, Only
  <2> QED BY <1>0, <2>1, <2>2, Unmoved DEF RunInv
<1>2. ASSUME NEW w \in Worker, Takes(w) PROVE RunInv'
  <2>1. (Employed(w) /\ OnLane(w) /\ Writes(w))'
    <3>1. run'[w].at \notin Routed \cup {"capability", "provider", "move"}
      BY <1>2 DEF Takes, Routed, Stages
    <3>2. CASE run'[w].at = "idle" BY <1>2, <3>1, <3>2 DEF Takes, Employed, OnLane, Writes
    <3>3. CASE run'[w].at # "idle"
      <4>1. PICK t \in Task : t = run'[w].task /\ ClaimNext(w, t) /\ run'[w].claim = FreshClaim(w)
        BY <1>2, <3>3 DEF Takes
      <4>2. FreshClaim(w) \in Claim BY <4>1, FreshClaimTyped DEF ClaimNext
      <4>3. issued' = issued + 1 /\ issued \in Nat /\ status'[t] = "planning"
        BY <4>1 DEF ClaimNext, EngineTypeOK
      <4> QED BY <3>1, <3>3, <4>1, <4>2, <4>3 DEF Employed, OnLane, Writes, FreshClaim, Exists
    <3> QED BY <3>2, <3>3
  <2>2. RunTyped' /\ \A v \in Worker \ {w} : run'[v] = run[v] BY <1>2 DEF Takes, Only
  <2> QED BY <1>0, <2>1, <2>2, Unmoved DEF RunInv
<1>3. CASE UNCHANGED run BY <1>0, <1>3, Unmoved DEF RunInv, RunTyped, Record
<1>4. ASSUME NEW w \in Worker, Dies(w) PROVE RunInv'
  BY <1>1, <1>4, Returns DEF Dies
<1>5. \/ \E w \in Worker : WorkerActs(w) \/ Dies(w)
      \/ UNCHANGED run
  BY DEF Next, vars, workerVars, Submit, Clock, Lapse, Receive, Serve, Drop, Settle, OrphanExits,
     OperatorLifts, Govern, Fault
<1> QED BY <1>1, <1>2, <1>3, <1>4, <1>5, WorksMoves

LEMMA DeskInvStep == ASSUME DeskInv, [Next]_vars PROVE DeskInv'
<1>1. CASE Govern
  <2>1. CASE Asking
    BY <1>1, <2>1 DEF Govern, DeskInv, Asking, Approve, Pause, Resume, Reject, CancelLooks, EmergencyStop,
       Opens, Request
  <2>2. CASE Handling
    BY <1>1, <2>2 DEF DeskInv, Handling, FindPending, InsertRow, DecideRow, Apply, CancelApplies, Onto,
       Replies, In, Request
  <2> QED BY <1>1, <2>1, <2>2 DEF Govern
<1>2. CASE Fault BY <1>2 DEF Fault, DeskAborts, Replies, DeskInv, controlVars
<1>3. CASE UNCHANGED controlVars BY <1>3 DEF controlVars, DeskInv
<1>4. Govern \/ Fault \/ UNCHANGED controlVars
  BY DEF Next, vars, WorkerActs, Submit, Clock, Lapse, Receive, Settle
<1> QED BY <1>1, <1>2, <1>3, <1>4

LEMMA HermesInit == Init => EngineTypeOK /\ RunInv /\ DeskInv
<1> SUFFICES ASSUME Init PROVE EngineTypeOK /\ RunInv /\ DeskInv
  OBVIOUS
<1>1. EngineTypeOK BY InitTyped DEF Init
<1>2. run = [w \in Worker |-> Idle] BY DEF Init, WorkerInit
<1>3. 1 \in 1..MaxRetries BY ProviderAssumption
<1>4. Record(Idle) BY <1>3 DEF Idle, Record, Points, Ownership, Result
<1>5. RunInv
  <2>1. "idle" \notin Routed BY DEF Routed, Stages
  <2> QED BY <1>2, <1>4, <2>1 DEF RunInv, RunTyped, Idle, Employed, OnLane, Writes
<1> QED BY <1>1, <1>5 DEF Init, ControlInit, DeskInv

\* The invariant of the callers and the type of the tables under them.
THEOREM CallersSafe == Spec => [](EngineTypeOK /\ RunInv /\ DeskInv)
<1>1. EngineTypeOK /\ RunInv /\ DeskInv /\ [Next]_vars => (EngineTypeOK /\ RunInv /\ DeskInv)'
  BY Refines, TypeStep, RunInvStep, DeskInvStep
<1> QED BY <1>1, HermesInit, PTL DEF Spec

\* The workers, the API and the channels call the engine only as EngineSpec
\* allows: under claims that were drawn, into statuses that may be requested, on
\* the lane of the task (processTask, executeRegisteredCapability, taskRoute).
THEOREM EngineRefined == Spec => TablesRefined
<1>1. Init => EngineInit BY DEF Init
<1>2. RunInv /\ DeskInv /\ [Next]_vars => [EngineNext]_engineVars BY Refines
<1> QED BY <1>1, <1>2, CallersSafe, PTL DEF Spec, EngineSpec, TablesRefined

\* So what the tables promise to any caller, the runtime keeps: a cancellation.
THEOREM RuntimeCancels == Spec => CancelledIsFinal
  BY EngineRefined, CancellationAbsorbs, PTL DEF TablesRefined

\* A decision on an approval.
THEOREM RuntimeDecides == Spec => DecisionStands
  BY EngineRefined, DecisionsStand, PTL DEF TablesRefined

\* The usage of a Codex dispatch with its outcome.
THEOREM RuntimeBills == Spec => []UsageWithOutcome
  BY EngineRefined, UsageSettles, PTL DEF TablesRefined

\* A capability result with the completion of its task.
THEOREM RuntimeSeals == Spec => SealCompletesTask
  BY EngineRefined, SealsComplete, PTL DEF TablesRefined

\* And the dispatch ledger.
THEOREM RuntimeLedger == Spec => LedgerRefinement
  BY EngineRefined, LedgerRefined, PTL DEF TablesRefined

=============================================================================
