-------------------------- MODULE ReleaseAdmission --------------------------
(***************************************************************************)
(* The admission of durable work around a release                          *)
(* (packages/shared/release-admission.js) and the post-merge half of the   *)
(* release that decides it (packages/zola-release/postmerge-admission.js   *)
(* and held-acceptance-authority.js).  The commander, one process at a     *)
(* time, publishes control files under the exclusive admission lock and    *)
(* journals what it does; the API and the worker hold the same lock shared *)
(* while they work.  A file in force and a journal row are never written   *)
(* at once: the commander may fail or die between any two writes, and the  *)
(* services may restart at any time.  runReleaseSequence calls the stages   *)
(* in order and never a confirmed one again.                               *)
(***************************************************************************)
EXTENDS Naturals, Sequences

CONSTANTS
    Operations,      \* the acceptance operations, in order
    MaxGeneration,   \* bound on starts of a service
    MaxFaults        \* bound on failed calls and deaths of the commander

ASSUME OperationsAssumption ==
    Operations \in Seq(STRING) /\ \E i \in DOMAIN Operations : Operations[i] = "six_live_reads"
ASSUME BoundsAssumption == MaxGeneration \in Nat /\ MaxFaults \in Nat

Roles == {"api", "worker"}

VARIABLES
    admission,   \* state.json: mode, release and the generations stamped on it
    marker,      \* pending.json: which hold it is of, or "absent"
    secret, acceptance, active,  \* whether the files of the permit exist
    rows,        \* the rows of the release journal
    claims,      \* the generations the permit names, in its mint row
    completed,   \* acceptance operations with a result row
    pending,     \* whether the next one has an intent row
    expired,     \* whether the permit has expired
    generation,  \* of each service, 0 while it is stopped
    started,     \* generations given out
    lease,       \* what each service holds the shared lock for
    step,        \* where the commander is; it holds the lock unless "idle"
    session,     \* its permit session: "none", "fresh" or "resumed"
    faults

files == <<admission, marker, secret, acceptance, active>>
journal == <<rows, claims, completed, pending>>
services == <<generation, started, lease>>
vars == <<files, journal, services, session, expired, step, faults>>

Stopped == [role \in Roles |-> 0]      \* also: no generations stamped
Generations == [Roles -> 0..MaxGeneration]
Held(release, stamp) == [mode |-> "held", release |-> release, stamp |-> stamp]
Open(stamp) == [mode |-> "open", release |-> "main", stamp |-> stamp]

RowTypes == {"hold_intent", "hold_result", "mint_intent", "minted", "consume_intent",
             "consumed", "open_intent", "open_prepared", "open_result"}
Steps == {"idle", "holdIntent", "holdState", "holdMarker", "holdResult", "remark", "restate",
          "mintIntent", "mintSecret", "mintAcceptance", "mintState", "minted", "activate",
          "deactivate", "operationResult", "dropAcceptance", "dropSecret", "consumed",
          "openIntent", "openState", "openPrepared", "unmark", "openResult"}

\* The type of every variable.
TypeOK ==
    /\ admission \in [mode : {"held", "open"}, release : {"candidate", "main"}, stamp : Generations]
    /\ marker \in {"hold", "postmerge", "absent"}
    /\ secret \in BOOLEAN /\ acceptance \in BOOLEAN /\ active \in BOOLEAN
    /\ rows \subseteq RowTypes
    /\ claims \in Generations
    /\ completed \in 0..Len(Operations)
    /\ pending \in BOOLEAN /\ expired \in BOOLEAN
    /\ generation \in Generations /\ started \in 0..MaxGeneration
    /\ lease \in [Roles -> {"none", "ordinary", "heldRead"}]
    /\ step \in Steps
    /\ session \in {"none", "fresh", "resumed"}
    /\ faults \in 0..MaxFaults

\* The candidate is held, its services may have been started, nothing after the merge.
Init ==
    /\ admission = Held("candidate", Stopped)
    /\ marker = "hold"
    /\ secret = FALSE /\ acceptance = FALSE /\ active = FALSE
    /\ rows = {} /\ claims = Stopped /\ completed = 0 /\ pending = FALSE
    /\ expired = FALSE
    /\ generation = Stopped /\ started = 0
    /\ lease = [role \in Roles |-> "none"]
    /\ step = "idle"
    /\ session = "none"
    /\ faults = 0

-----------------------------------------------------------------------------
(* The services and their leases.                                          *)

\* A service starts, or dies and is started again: its leases die with it.
StartService(role) ==
    /\ started < MaxGeneration
    /\ started' = started + 1
    /\ generation' = [generation EXCEPT ![role] = started']
    /\ lease' = [lease EXCEPT ![role] = "none"]
    /\ UNCHANGED <<files, journal, session, expired, step, faults>>

StopService(role) ==
    /\ generation[role] # 0
    /\ generation' = [generation EXCEPT ![role] = 0]
    /\ lease' = [lease EXCEPT ![role] = "none"]
    /\ UNCHANGED <<files, journal, session, expired, step, faults, started>>

\* Mutant: the shared lock is granted while a control file is being published.
AcquireShared(role, kind) ==
    /\ generation[role] # 0
    /\ lease[role] = "none"
    /\ lease' = [lease EXCEPT ![role] = kind]
    /\ UNCHANGED <<files, journal, session, expired, step, faults, generation, started>>

Acquire(role, kind) ==
    /\ step = "idle"
    /\ generation[role] # 0
    /\ lease[role] = "none"
    /\ lease' = [lease EXCEPT ![role] = kind]
    /\ UNCHANGED <<files, journal, session, expired, step, faults, generation, started>>

\* Mutant: the stamp is compared with the release, not with the live generations.
AdmitAnyGeneration(role) ==
    /\ marker = "absent"
    /\ admission.mode = "open"
    /\ Acquire(role, "ordinary")

\* take(): durable work of the task engine, the API, the worker and the bot.
AdmitWork(role) ==
    /\ marker = "absent"
    /\ admission = Open(generation)
    /\ Acquire(role, "ordinary")

\* withScopedReadAdmission: the six reads, while HELD and with the marker.
AdmitHeldRead(role) ==
    /\ acceptance /\ active /\ ~expired
    /\ admission = Held("main", claims)
    /\ generation = claims
    /\ Acquire(role, "heldRead")

ReleaseLease(role) ==
    /\ lease[role] # "none"
    /\ lease' = [lease EXCEPT ![role] = "none"]
    /\ UNCHANGED <<files, journal, session, expired, step, faults, generation, started>>

Expire ==
    /\ "mint_intent" \in rows /\ ~expired
    /\ expired' = TRUE
    /\ UNCHANGED <<files, journal, services, session, step, faults>>

-----------------------------------------------------------------------------
(* The commander.  Each call takes the exclusive lock and its steps follow. *)

LockFree == step = "idle" /\ \A role \in Roles : lease[role] = "none"

AddRow(row) == rows' = rows \cup {row}

\* One durable write of the commander.
Write(from, to, write) ==
    /\ step = from /\ step' = to
    /\ write
    /\ UNCHANGED <<services, expired, faults>>

\* beginPostMergeHeldEpoch, with stopAndVerify before and after its writes.
BeginHold ==
    /\ LockFree
    /\ rows \cap {"hold_intent", "open_intent"} = {}
    /\ admission = Held("candidate", Stopped)
    /\ generation' = Stopped
    /\ step' = "holdIntent"
    /\ UNCHANGED <<files, journal, session, expired, faults, started, lease>>

\* A call that finds the intent of an earlier one.
ResumeHold ==
    /\ LockFree
    /\ "hold_intent" \in rows /\ "mint_intent" \notin rows
    /\ admission \in {Held("candidate", Stopped), Held("main", Stopped)}
    /\ step' = "remark"
    /\ UNCHANGED <<files, journal, services, session, expired, faults>>

HoldIntent == Write("holdIntent", "holdState",
    AddRow("hold_intent") /\ UNCHANGED <<files, session, claims, completed, pending>>)

HoldState(from, to) == Write(from, to,
    /\ admission' = Held("main", Stopped)
    /\ UNCHANGED <<marker, secret, acceptance, active, journal, session>>)

HoldMarker(from, to) == Write(from, to,
    /\ marker' = "postmerge"
    /\ UNCHANGED <<admission, secret, acceptance, active, journal, session>>)

HoldResult ==
    /\ step = "holdResult" /\ step' = "idle"
    /\ generation' = Stopped
    /\ AddRow("hold_result")
    /\ UNCHANGED <<files, session, claims, completed, pending, expired, faults, started, lease>>

Hold == \/ BeginHold \/ ResumeHold \/ HoldIntent \/ HoldResult
        \/ HoldState("holdState", "holdMarker") \/ HoldMarker("holdMarker", "holdResult")
        \/ HoldMarker("remark", "restate") \/ HoldState("restate", "holdResult")

\* mintHeldAcceptancePermit, for the generations the caller has just observed alive.
Mint ==
    /\ LockFree
    /\ "hold_result" \in rows /\ "mint_intent" \notin rows
    /\ admission \in {Held("main", Stopped), Held("main", generation)}
    /\ \A role \in Roles : generation[role] # 0
    /\ ~acceptance /\ ~secret /\ ~active
    /\ step' = "mintIntent"
    /\ claims' = generation
    /\ UNCHANGED <<files, rows, completed, pending, services, session, expired, faults>>

MintIntent == Write("mintIntent", "mintSecret",
    AddRow("mint_intent") /\ UNCHANGED <<files, session, claims, completed, pending>>)

MintSecret == Write("mintSecret", "mintAcceptance",
    secret' = TRUE /\ UNCHANGED <<admission, marker, acceptance, active, journal, session>>)

MintAcceptance == Write("mintAcceptance", "mintState",
    acceptance' = TRUE /\ UNCHANGED <<admission, marker, secret, active, journal, session>>)

MintState == Write("mintState", "minted",
    /\ admission' = Held("main", claims)
    /\ UNCHANGED <<marker, secret, acceptance, active, journal, session>>)

\* A mint whose last row was lost is confirmed; nothing is minted again.
ConfirmMint ==
    /\ LockFree
    /\ "mint_intent" \in rows /\ "minted" \notin rows
    /\ secret /\ acceptance /\ ~expired
    /\ admission = Held("main", claims)
    /\ step' = "minted"
    /\ UNCHANGED <<files, journal, services, session, expired, faults>>

Minted == Write("minted", "idle",
    AddRow("minted") /\ UNCHANGED <<files, session, claims, completed, pending>>)

\* What consume and every call of a session check before they act.  The generations
\* that production compares are those of the state file: a restart is not noticed here.
PermitHolds == ~expired /\ admission = Held("main", claims)

Consume ==
    /\ LockFree
    /\ "minted" \in rows /\ "consumed" \notin rows
    /\ PermitHolds /\ secret /\ acceptance
    /\ session = "none"
    /\ session' = IF "consume_intent" \in rows THEN "resumed" ELSE "fresh"
    /\ AddRow("consume_intent")
    /\ UNCHANGED <<files, claims, completed, pending, services, expired, step, faults>>

NextIn(operations) == completed < Len(Operations) /\ Operations[completed + 1] \in operations

\* authorizeHeldAcceptanceOperation: a pending operation only in a resumed session.
Authorize ==
    /\ LockFree
    /\ session # "none" /\ PermitHolds
    /\ completed < Len(Operations)
    /\ pending => session = "resumed"
    /\ pending' = TRUE
    /\ step' = IF NextIn({"six_live_reads"}) THEN "activate" ELSE "idle"
    /\ UNCHANGED <<files, rows, claims, completed, services, session, expired, faults>>

Activate == Write("activate", "idle",
    active' = TRUE /\ UNCHANGED <<admission, marker, secret, acceptance, journal, session>>)

\* Mutant: an operation is completed under the shared lock.
CompleteShared ==
    /\ step = "idle"
    /\ session # "none" /\ PermitHolds
    /\ "consumed" \notin rows /\ pending
    /\ NextIn({"worker_readiness", "generation_fence"}) => generation = claims
    /\ step' = IF NextIn({"six_live_reads"}) THEN "deactivate" ELSE "operationResult"
    /\ UNCHANGED <<files, journal, services, session, expired, faults>>

\* completeHeldAcceptanceOperation, with evidence that is accepted: two of the
\* operations observe the services alive and compare their generations.
Complete ==
    /\ LockFree
    /\ session # "none" /\ PermitHolds
    /\ "consumed" \notin rows /\ pending
    /\ NextIn({"worker_readiness", "generation_fence"}) => generation = claims
    /\ step' = IF NextIn({"six_live_reads"}) THEN "deactivate" ELSE "operationResult"
    /\ UNCHANGED <<files, journal, services, session, expired, faults>>

Deactivate == Write("deactivate", "operationResult",
    active' = FALSE /\ UNCHANGED <<admission, marker, secret, acceptance, journal, session>>)

OperationResult == Write("operationResult", "idle",
    /\ completed' = completed + 1
    /\ pending' = FALSE
    /\ UNCHANGED <<files, rows, claims, session>>)

\* Mutant: the permit is finished whatever operations were answered.
FinishPermitEarly ==
    /\ LockFree
    /\ session # "none" /\ PermitHolds /\ acceptance /\ ~active
    /\ ~pending
    /\ step' = "dropAcceptance"
    /\ UNCHANGED <<files, journal, services, session, expired, faults>>

\* finishHeldAcceptancePermit: the files go before the row is written.
FinishPermit ==
    /\ LockFree
    /\ session # "none" /\ PermitHolds /\ acceptance /\ ~active
    /\ ~pending /\ completed = Len(Operations)
    /\ step' = "dropAcceptance"
    /\ UNCHANGED <<files, journal, services, session, expired, faults>>

\* Mutant: the row is written before the secret is removed.
DropAcceptanceLast == Write("dropAcceptance", "consumed",
    acceptance' = FALSE /\ UNCHANGED <<admission, marker, secret, active, journal, session>>)

DropAcceptance == Write("dropAcceptance", "dropSecret",
    acceptance' = FALSE /\ UNCHANGED <<admission, marker, secret, active, journal, session>>)

DropSecret == Write("dropSecret", "consumed",
    secret' = FALSE /\ UNCHANGED <<admission, marker, acceptance, active, journal, session>>)

Consumed == Write("consumed", "idle",
    /\ AddRow("consumed")
    /\ session' = "none"
    /\ UNCHANGED <<files, claims, completed, pending>>)

Acceptance == Mint \/ MintIntent \/ MintSecret \/ MintAcceptance \/ MintState \/ ConfirmMint
              \/ Minted \/ Consume \/ Authorize \/ Activate \/ Complete \/ Deactivate
              \/ OperationResult \/ FinishPermit \/ DropAcceptance \/ DropSecret \/ Consumed

\* prepareGuardedOpen and publishGuardedOpen, from the beginning or where an earlier
\* call stopped.  Production takes the evidence from the journal.
PublishOpen ==
    /\ LockFree
    /\ "consumed" \in rows /\ "open_result" \notin rows
    /\ marker # "absent"
    /\ \/ admission.mode = "held" /\ admission.release = "main"
       \/ admission = Open(claims)
    /\ step' = IF "open_intent" \in rows
               THEN IF admission.mode = "open" THEN "openPrepared" ELSE "openState"
               ELSE "openIntent"
    /\ UNCHANGED <<files, journal, services, session, expired, faults>>

OpenIntent == Write("openIntent", IF admission.mode = "open" THEN "openPrepared" ELSE "openState",
    AddRow("open_intent") /\ UNCHANGED <<files, session, claims, completed, pending>>)

\* Mutant: the marker goes as soon as the open state is written.
OpenStateUnmarked == Write("openState", "unmark",
    /\ admission' = Open(claims)
    /\ UNCHANGED <<marker, secret, acceptance, active, journal, session>>)

OpenState == Write("openState", "openPrepared",
    /\ admission' = Open(claims)
    /\ UNCHANGED <<marker, secret, acceptance, active, journal, session>>)

OpenPrepared == Write("openPrepared", "unmark",
    AddRow("open_prepared") /\ UNCHANGED <<files, session, claims, completed, pending>>)

Unmark == Write("unmark", "openResult",
    marker' = "absent" /\ UNCHANGED <<admission, secret, acceptance, active, journal, session>>)

\* An opening whose marker is gone and whose last row was lost is only recorded.
ConfirmOpen ==
    /\ LockFree
    /\ "consumed" \in rows /\ "open_prepared" \in rows /\ "open_result" \notin rows
    /\ marker = "absent" /\ admission = Open(claims)
    /\ step' = "openResult"
    /\ UNCHANGED <<files, journal, services, session, expired, faults>>

OpenResult == Write("openResult", "idle",
    AddRow("open_result") /\ UNCHANGED <<files, session, claims, completed, pending>>)

Opening == PublishOpen \/ OpenIntent \/ OpenState \/ OpenPrepared \/ Unmark
           \/ ConfirmOpen \/ OpenResult

\* A call fails between two writes: the lock is released, the session stays.
Abort ==
    /\ step # "idle" /\ faults < MaxFaults
    /\ faults' = faults + 1
    /\ step' = "idle"
    /\ UNCHANGED <<files, journal, services, session, expired>>

\* The commander dies.
Die ==
    /\ faults < MaxFaults
    /\ faults' = faults + 1
    /\ step' = "idle" /\ session' = "none"
    /\ UNCHANGED <<files, journal, services, expired>>

Service == \E role \in Roles :
    StartService(role) \/ StopService(role) \/ AdmitWork(role) \/ AdmitHeldRead(role) \/ ReleaseLease(role)

Next == Service \/ Expire \/ Hold \/ Acceptance \/ Opening \/ Abort \/ Die

Spec == Init /\ [][Next]_vars
-----------------------------------------------------------------------------
(* Properties.                                                             *)

\* Intake is open only once one permit was consumed with every acceptance operation
\* answered, and for exactly the generations it was minted for, whichever calls
\* failed, died and were resumed (postmerge-admission.js 89-123).
OpenIsEarned ==
    admission.mode = "open" => /\ {"hold_intent", "minted", "consumed", "open_intent"} \subseteq rows
                               /\ completed = Len(Operations)
                               /\ admission = Open(claims)

\* Durable work runs only in a service whose generation went through acceptance:
\* not in one started since, and not while the opening may still fail
\* (release-admission.js 207-246).
WorkerWasAccepted ==
    \A role \in Roles : lease[role] = "ordinary" =>
       /\ generation[role] = claims[role]
       /\ marker = "absent" /\ "open_prepared" \in rows

\* A read admitted while HELD belongs to the operation that is pending: when the
\* operation has its result or the permit is consumed, no such read runs any more
\* (release-admission.js 118-172, held-acceptance-authority.js 170-199).
HeldReadIsPending ==
    \A role \in Roles : lease[role] = "heldRead" =>
       /\ admission.mode = "held" /\ acceptance /\ active
       /\ pending /\ NextIn({"six_live_reads"}) /\ "consumed" \notin rows

\* Once the marker is gone the journal already holds what publishGuardedOpen needs to
\* record the opening after a death (postmerge-admission.js 101-107).
OpeningIsOnRecord ==
    marker = "absent" => admission.mode = "open" /\ {"open_intent", "open_prepared"} \subseteq rows

\* When the permit is consumed, and so whenever intake opens, nothing of it is left
\* that could admit a read (held-acceptance-authority.js 201-219).
PermitIsSpent == "consumed" \in rows => ~secret /\ ~acceptance /\ ~active

\* "Publication needs exclusive ownership of the SAME stable inode; it cannot cross
\* admitted work" (release-admission.js 2-4): no control file changes under a lease.
PublicationCrossesNoWork ==
    [][UNCHANGED files \/ \A role \in Roles : lease[role] = "none"]_vars
=============================================================================
