----------------------------- MODULE TaskEngine -----------------------------
(***************************************************************************)
(* The durable task tables of Blackspire Command and the operations that  *)
(* packages/task-engine/tasks.js exports on them.  The API server, every  *)
(* worker and the Telegram bot are separate processes that share one      *)
(* SQLite database: a single statement, and a body run by transaction(),  *)
(* is one atomic step; nothing wider is.                                  *)
(*                                                                        *)
(* Here the callers are arbitrary: any operation may be called at any     *)
(* time with any claim, current, stale or none.  What holds here is what  *)
(* the tables promise whatever their callers do.  Module Hermes puts the  *)
(* real callers on top and is checked to be one of these behaviours.      *)
(*                                                                        *)
(* Append-only history that no operation reads back (audit_events,        *)
(* task_evidence, subtasks, command_results) is left out; task_events and *)
(* the deliveries they fan out to are module Outbox.                      *)
(***************************************************************************)
EXTENDS Naturals, Sequences

CONSTANTS
    Task,         \* task ids; one id stands for one idempotency key
    Worker,       \* worker ids
    Capability,   \* registered capability ids
    Codex,        \* the ledger lane of the Codex CLI
    Profile,      \* immutable columns a task can be created with
    NoProfile,    \* profile of a task that does not exist yet
    NoClaim,      \* ownership null: an unfenced call, or a row never claimed
    MaxClaims,    \* bound: claim tokens drawn
    MaxApprovals, \* bound: approval rows per task
    MaxRecords    \* bound: recorded inline provider successes per task

Lane == Capability \cup {Codex}
Claim == [worker : Worker, token : 1..MaxClaims]
Ownership == Claim \cup {NoClaim}

ASSUME EngineAssumption ==
    /\ MaxClaims \in Nat
    /\ MaxApprovals \in Nat
    /\ MaxRecords \in Nat
    /\ NoClaim \notin Claim
    /\ Codex \notin Capability
    /\ NoProfile \notin Profile

Status == {"absent", "queued", "planning", "running", "waiting_for_approval",
           "waiting_for_manual_response", "outcome_unknown", "completed",
           "failed", "cancelled"}

\* claimNext and heartbeat also name "validating", a status no code assigns.
Active == {"planning", "running"}

Open == {"dispatching", "started"}
Terminal == {"completed", "failed", "outcome_unknown"}

Row == [status : {"none"} \cup Open \cup Terminal,
        by : Ownership,        \* claim digest kept in the request packet
        receiver : BOOLEAN,    \* the packet carries a receiver authority
        sealed : BOOLEAN]      \* the response packet holds the result

NoRow == [status |-> "none", by |-> NoClaim, receiver |-> FALSE, sealed |-> FALSE]

Decision == {"approved", "rejected"}
Approval == [status : {"pending", "expired"} \cup Decision,
             ttl : BOOLEAN,    \* expires_at is set
             cold : BOOLEAN]   \* expires_at has passed

VARIABLES
    status,     \* tasks.status
    profile,    \* the columns a task is created with and never changes
    owner,      \* tasks.worker_id with tasks.claim_token
    stale,      \* tasks.heartbeat_at is older than staleAfterSeconds
    created,    \* the tasks in created_at order
    issued,     \* claim tokens drawn so far
    ledger,     \* provider_attempts rows written before a dispatch
    billed,     \* tasks whose Codex attempt has its provider_usage row
    recorded,   \* provider_attempts rows written after an inline success
    approvals,  \* approvals rows, oldest first
    stop        \* system_flags.emergency_stop = 'active'

taskVars == <<status, profile, owner, stale, created, issued>>
ledgerVars == <<ledger, billed, recorded>>
engineVars == <<taskVars, ledgerVars, approvals, stop>>

EngineTypeOK ==
    /\ status \in [Task -> Status]
    /\ profile \in [Task -> Profile \cup {NoProfile}]
    /\ owner \in [Task -> Ownership]
    /\ stale \in [Task -> BOOLEAN]
    /\ created \in Seq(Task)
    /\ issued \in 0..MaxClaims
    /\ ledger \in [Task -> [Lane -> Row]]
    /\ billed \in SUBSET Task
    /\ recorded \in [Task -> 0..MaxRecords]
    /\ approvals \in [Task -> Seq(Approval)]
    /\ stop \in BOOLEAN

EngineInit ==
    /\ status = [t \in Task |-> "absent"]
    /\ profile = [t \in Task |-> NoProfile]
    /\ owner = [t \in Task |-> NoClaim]
    /\ stale = [t \in Task |-> FALSE]
    /\ created = <<>>
    /\ issued = 0
    /\ ledger = [t \in Task |-> [l \in Lane |-> NoRow]]
    /\ billed = {}
    /\ recorded = [t \in Task |-> 0]
    /\ approvals = [t \in Task |-> <<>>]
    /\ stop = FALSE

Exists(t) == status[t] # "absent"

-----------------------------------------------------------------------------
(* Task rows                                                              *)

\* A second call with the same idempotency key returns the existing row or
\* throws on a binding mismatch: neither changes anything.
CreateTask(t, p) ==
    /\ ~Exists(t)
    /\ status' = [status EXCEPT ![t] = IF p.decision = "denied" THEN "failed" ELSE "queued"]
    /\ profile' = [profile EXCEPT ![t] = p]
    /\ created' = Append(created, t)
    /\ UNCHANGED <<owner, stale, issued, ledgerVars, approvals, stop>>

\* Mutant: a late worker revives a cancelled task.
MayMoveRevives(t, s, own) == Exists(t) /\ (own = NoClaim \/ own = owner[t])

\* The predicate of transition's UPDATE: cancelled is left by no update, and a
\* caller that names a claim must hold it.
MayMove(t, s, own) ==
    /\ Exists(t)
    /\ s = "cancelled" \/ status[t] # "cancelled"
    /\ own = NoClaim \/ own = owner[t]

\* The tasks' statuses after transition(t, s, patch, own).
Moved(t, s, own) == IF MayMove(t, s, own) THEN [status EXCEPT ![t] = s] ELSE status

Transition(t, s, own) ==
    /\ Exists(t)
    /\ status' = Moved(t, s, own)
    /\ UNCHANGED <<profile, owner, stale, created, issued, ledgerVars, approvals, stop>>

\* Mutant: a task whose worker is gone is never claimed again.
ClaimableOnce(t) == status[t] = "queued"

Claimable(t) == status[t] = "queued" \/ (status[t] \in Active /\ stale[t])

\* ORDER BY created_at LIMIT 1
OldestClaimable(t) ==
    \E i \in 1..Len(created) :
        /\ created[i] = t
        /\ Claimable(t)
        /\ \A j \in 1..(i - 1) : ~Claimable(created[j])

FreshClaim(w) == [worker |-> w, token |-> issued + 1]

ClaimNext(w, t) ==
    /\ issued < MaxClaims
    /\ OldestClaimable(t)
    /\ issued' = issued + 1
    /\ owner' = [owner EXCEPT ![t] = FreshClaim(w)]
    /\ status' = [status EXCEPT ![t] = "planning"]
    /\ stale' = [stale EXCEPT ![t] = FALSE]
    /\ UNCHANGED <<profile, created, ledgerVars, approvals, stop>>

\* An owned heartbeat needs the claim and an active status; one without a claim
\* renews whatever the row is.
Beats(t, own) == Exists(t) /\ (own = NoClaim \/ (own = owner[t] /\ status[t] \in Active))

Heartbeat(t, own) ==
    /\ stale' = IF Beats(t, own) THEN [stale EXCEPT ![t] = FALSE] ELSE stale
    /\ UNCHANGED <<status, profile, owner, created, issued, ledgerVars, approvals, stop>>

\* staleAfterSeconds pass without a heartbeat.
LeaseExpires(t) ==
    /\ status[t] \in Active
    /\ ~stale[t]
    /\ stale' = [stale EXCEPT ![t] = TRUE]
    /\ UNCHANGED <<status, profile, owner, created, issued, ledgerVars, approvals, stop>>

-----------------------------------------------------------------------------
(* Dispatch ledger                                                        *)

InFlight(t, l) == ledger[t][l].status \in Open

\* Of prepareCodexDispatch and prepareCapabilityDispatch: a row that is there
\* is returned with owned = FALSE.
Prepare(t, l, own, receiver) ==
    /\ Exists(t)
    /\ ledger[t][l].status = "none"
    /\ receiver => l # Codex
    /\ ledger' = [ledger EXCEPT ![t][l] =
                    [status |-> "dispatching", by |-> own, receiver |-> receiver, sealed |-> FALSE]]
    /\ UNCHANGED <<taskVars, billed, recorded, approvals, stop>>

\* Mutant: the usage row is left to a later statement.
FinishCodexUnbilled(t, s) ==
    /\ InFlight(t, Codex)
    /\ ledger' = [ledger EXCEPT ![t][Codex].status = s]
    /\ UNCHANGED <<taskVars, billed, recorded, approvals, stop>>

\* The attempt's outcome and its usage row commit together.  Any other call
\* returns the recorded outcome or throws.
FinishCodex(t, s) ==
    /\ InFlight(t, Codex)
    /\ ledger' = [ledger EXCEPT ![t][Codex].status = s]
    /\ billed' = billed \cup {t}
    /\ UNCHANGED <<taskVars, recorded, approvals, stop>>

\* Mutant: a settled row is settled again by a late answer.
FinishCapabilityAgain(t, c, s) ==
    /\ ledger[t][c].status # "none"
    /\ ledger' = [ledger EXCEPT ![t][c].status = s]
    /\ UNCHANGED <<taskVars, billed, recorded, approvals, stop>>

FinishCapability(t, c, s) ==
    /\ InFlight(t, c)
    /\ ledger' = [ledger EXCEPT ![t][c].status = s]
    /\ UNCHANGED <<taskVars, billed, recorded, approvals, stop>>

\* consumeReceiverAuthority: the receiving API turns a persisted authority into
\* one started dispatch, in one transaction with every check.
Consume(t, c) ==
    /\ status[t] = "running"
    /\ ledger[t][c].status = "dispatching"
    /\ ledger[t][c].receiver
    /\ owner[t] = ledger[t][c].by
    /\ ~stop
    /\ ledger' = [ledger EXCEPT ![t][c].status = "started"]
    /\ UNCHANGED <<taskVars, billed, recorded, approvals, stop>>

\* Mutant: the fence forgets the stop flag.
MayFinalizeStopped(t, c, own) ==
    /\ status[t] = "running"
    /\ own # NoClaim
    /\ owner[t] = own
    /\ ledger[t][c].by = own
    /\ IF ledger[t][c].receiver THEN ledger[t][c].status = "started"
                                ELSE InFlight(t, c)

\* The fence of finalizeCapabilitySuccess.
MayFinalize(t, c, own) ==
    /\ status[t] = "running"
    /\ own # NoClaim
    /\ owner[t] = own
    /\ ledger[t][c].by = own
    /\ ~stop
    /\ IF ledger[t][c].receiver THEN ledger[t][c].status = "started"
                                ELSE InFlight(t, c)

Finalize(t, c, own) ==
    /\ MayFinalize(t, c, own)
    /\ ledger' = [ledger EXCEPT ![t][c].status = "completed", ![t][c].sealed = TRUE]
    /\ status' = [status EXCEPT ![t] = "completed"]
    /\ UNCHANGED <<profile, owner, stale, created, issued, billed, recorded, approvals, stop>>

\* A provider without a pre-dispatch row is recorded when it has answered.
RecordAttempt(t) ==
    /\ Exists(t)
    /\ recorded[t] < MaxRecords
    /\ recorded' = [recorded EXCEPT ![t] = @ + 1]
    /\ UNCHANGED <<taskVars, ledger, billed, approvals, stop>>

-----------------------------------------------------------------------------
(* Approvals and the emergency stop                                       *)

\* The INSERT of createApproval.  The SELECT before it is a statement of its
\* own, so nothing here says that no row is pending.
CreateApproval(t, ttl) ==
    /\ Exists(t)
    /\ Len(approvals[t]) < MaxApprovals
    /\ approvals' = [approvals EXCEPT ![t] =
                        Append(@, [status |-> "pending", ttl |-> ttl, cold |-> FALSE])]
    /\ UNCHANGED <<taskVars, ledgerVars, stop>>

\* Mutant: the newest row is decided, pending or not.
NewestRow(t, i) == i = Len(approvals[t])

\* The newest pending row, as decideApproval selects it.
NewestPending(t, i) ==
    /\ approvals[t][i].status = "pending"
    /\ \A j \in (i + 1)..Len(approvals[t]) : approvals[t][j].status # "pending"

NonePending(t) == \A i \in 1..Len(approvals[t]) : approvals[t][i].status # "pending"

DecideApproval(t, d) ==
    /\ \E i \in 1..Len(approvals[t]) :
        /\ NewestPending(t, i)
        /\ approvals' = [approvals EXCEPT ![t][i].status =
                            IF approvals[t][i].cold THEN "expired" ELSE d]
    /\ UNCHANGED <<taskVars, ledgerVars, stop>>

\* Time passes expires_at of a row that has one.
ApprovalGoesCold(t) ==
    /\ \E i \in 1..Len(approvals[t]) :
        /\ approvals[t][i].ttl
        /\ ~approvals[t][i].cold
        /\ approvals' = [approvals EXCEPT ![t][i].cold = TRUE]
    /\ UNCHANGED <<taskVars, ledgerVars, stop>>

SetStop(on) ==
    /\ stop # on
    /\ stop' = on
    /\ UNCHANGED <<taskVars, ledgerVars, approvals>>

-----------------------------------------------------------------------------
\* A caller names no claim, or one that claimNext has returned.
Named == {own \in Ownership : own = NoClaim \/ own.token <= issued}

\* Only claimNext assigns "planning".
Requested == Status \ {"absent", "planning"}

EngineStep(t) ==
    \/ \E p \in Profile : CreateTask(t, p)
    \/ \E s \in Requested, own \in Named : Transition(t, s, own)
    \/ \E w \in Worker : ClaimNext(w, t)
    \/ \E own \in Named : Heartbeat(t, own)
    \/ LeaseExpires(t)
    \/ \E l \in Lane, own \in Named, r \in BOOLEAN : Prepare(t, l, own, r)
    \/ \E s \in Terminal : FinishCodex(t, s)
    \/ \E c \in Capability, s \in Terminal : FinishCapability(t, c, s)
    \/ \E c \in Capability : Consume(t, c)
    \/ \E c \in Capability, own \in Named : Finalize(t, c, own)
    \/ RecordAttempt(t)
    \/ \E ttl \in BOOLEAN : CreateApproval(t, ttl)
    \/ \E d \in Decision : DecideApproval(t, d)
    \/ ApprovalGoesCold(t)

EngineNext == (\E t \in Task : EngineStep(t)) \/ (\E on \in BOOLEAN : SetStop(on))

EngineSpec == EngineInit /\ [][EngineNext]_engineVars

-----------------------------------------------------------------------------
(* What the tables promise, whoever calls                                 *)

\* "Cancellation is absorbing": once a task is cancelled, no transition, claim,
\* finalization or late worker moves it again (the predicate of transition,
\* tasks.js, against every other write of tasks.status).
CancelledIsFinal ==
    [][\A t \in Task : status[t] = "cancelled" => status'[t] = "cancelled"]_engineVars

\* The Codex attempt and its usage row are settled together: a settled attempt
\* is billed, and nothing is billed that is still in flight, in every order of
\* recovery and late answers (finishCodexDispatchWithUsage, tasks.js).
UsageWithOutcome ==
    \A t \in Task : t \in billed <=> ledger[t][Codex].status \in Terminal

\* A result is stored only in the row of the claim that dispatched it, for a
\* dispatch the receiver accepted if it needed accepting, and only together
\* with the completion of the task under that same claim while no stop is set
\* (finalizeCapabilitySuccess: row and task commit in one transaction).
SealCompletesTask ==
    [][\A t \in Task, l \in Lane :
        (ledger'[t][l].sealed /\ ~ledger[t][l].sealed) =>
            /\ status'[t] = "completed"
            /\ owner'[t] = ledger[t][l].by
            /\ ledger[t][l].receiver => ledger[t][l].status = "started"
            /\ ~stop]_engineVars

\* An administrator's decision on an approval row stands: no later decision,
\* expiry or fresh prompt rewrites a row that has left pending.
DecisionStands ==
    [][\A t \in Task : \A i \in 1..Len(approvals[t]) :
        approvals[t][i].status # "pending" =>
            approvals'[t][i].status = approvals[t][i].status]_engineVars

\* The pre-dispatch rows are one dispatch ledger: each dispatch is reserved once,
\* started at most once, settled once, and never armed again, and a Codex
\* settlement is billed (the INSERT and UPDATE guards of prepare*, finish*,
\* consumeReceiverAuthority and finalizeCapabilitySuccess).
Ledger == INSTANCE DispatchLedger WITH
    Key <- Task \X Lane,
    Billed <- Task \X {Codex},
    phase <- [k \in Task \X Lane |-> ledger[k[1]][k[2]].status],
    bills <- billed \X {Codex}

LedgerRefinement == Ledger!LedgerSpec

=============================================================================
