--------------------------- MODULE GatewayUpgrade ---------------------------
(***************************************************************************)
(* The replacement of the configuration of the buyer writer gateway        *)
(* (packages/buyer-writer/gateway-configuration-upgrade*.js and the script *)
(* that drives them): one process at a time, under a file lock, upgrades,  *)
(* reconciles or rolls back an operation.  An operation leaves a journal,  *)
(* a state file, a backup and a candidate; every write may fail, every     *)
(* proof that the services rest may be refused, and the process may die    *)
(* between any two of them.                                                *)
(***************************************************************************)
EXTENDS Naturals, Sequences

CONSTANTS
    Ops,        \* operations; each has a new configuration of its own
    Old,        \* the configuration in force before any of them
    None,       \* nobody holds the lock
    MaxFaults   \* bound on failed calls, refused proofs and deaths

ASSUME OpsAssumption == Old \notin Ops /\ None \notin Ops /\ Old # None
ASSUME FaultsAssumption == MaxFaults \in Nat

VARIABLES
    config,         \* the configuration on disk: Old or an operation
    journal,        \* per operation, the rows of its journal
    state,          \* per operation, the phase in its state file
    backup,         \* per operation, whether its backup of Old exists
    candidate,      \* per operation, whether its candidate file exists
    manualRestore,  \* per operation, whether its manual restore file exists
    holder,         \* the operation whose process holds the lock, or None
    pc,             \* where that process is
    published,      \* the flag of executeUpgrade
    outcome,        \* per operation, the answer of its last process
    faults

files == <<config, state, backup, candidate, manualRestore>>
vars == <<files, journal, holder, pc, published, outcome, faults>>

Rows == {"started", "quiesced", "prepared", "configuration-published",
         "configuration-verified", "completed", "rolled-back", "fail-closed"}
Phases == {"absent", "INTENT", "PREPARED", "PUBLISHED", "RESTORED",
           "COMPLETED", "ROLLED_BACK"}
UpgradeSteps == {"prefix", "started", "quiet", "quiesced", "intent", "backup",
    "candidate", "preparedState", "prepared", "publish", "publishedState",
    "configuration-published", "verify", "configuration-verified", "commit",
    "completed", "restore", "restoredState", "checkRestored", "rollback",
    "rolled-back", "fail-closed"}
Steps == UpgradeSteps \cup {"idle", "copy", "rename", "closeRollback",
    "bridge", "forward", "commitForward", "backward", "commitBackward"}
Outcomes == {"none", "UPGRADED", "ROLLED_BACK", "rollbackSafe", "stopped"}

\* The type of every variable.
TypeOK ==
    /\ config \in Ops \cup {Old}
    /\ journal \in [Ops -> Seq(Rows \cup {"torn"})]
    /\ state \in [Ops -> Phases]
    /\ backup \in [Ops -> BOOLEAN]
    /\ candidate \in [Ops -> BOOLEAN]
    /\ manualRestore \in [Ops -> BOOLEAN]
    /\ holder \in Ops \cup {None}
    /\ pc \in Steps
    /\ published \in BOOLEAN
    /\ outcome \in [Ops -> Outcomes]
    /\ faults \in 0..MaxFaults

Init ==
    /\ config = Old
    /\ journal = [op \in Ops |-> << >>]
    /\ state = [op \in Ops |-> "absent"]
    /\ backup = [op \in Ops |-> FALSE]
    /\ candidate = [op \in Ops |-> FALSE]
    /\ manualRestore = [op \in Ops |-> FALSE]
    /\ holder = None
    /\ pc = "idle"
    /\ published = FALSE
    /\ outcome = [op \in Ops |-> "none"]
    /\ faults = 0

-----------------------------------------------------------------------------
(* The journal: what inspectJournal accepts, and what an append may do.    *)

\* The rows that may follow a row.  After a fail-closed row of an attempt that
\* prepared nothing, only a new start may follow.
Follows(row) ==
    CASE row = "started" -> {"quiesced", "fail-closed"}
      [] row = "quiesced" -> {"prepared", "rolled-back", "fail-closed"}
      [] row = "prepared" -> {"configuration-published", "rolled-back", "fail-closed"}
      [] row = "configuration-published" ->
           {"configuration-verified", "rolled-back", "fail-closed"}
      [] row = "configuration-verified" -> {"completed", "rolled-back", "fail-closed"}
      [] OTHER -> {}

Durable(rows) == \E i \in DOMAIN rows : rows[i] = "prepared"

Legal(rows) ==
    \A i \in DOMAIN rows :
       IF i = 1 THEN rows[i] = "started"
       ELSE IF rows[i - 1] = "fail-closed" /\ ~Durable(SubSeq(rows, 1, i - 1))
       THEN rows[i] = "started"
       ELSE rows[i] \in Follows(rows[i - 1])

Prior(rows) == IF rows = << >> THEN "none" ELSE rows[Len(rows)]

Fault == faults < MaxFaults /\ faults' = faults + 1

Goto(step) == pc' = step /\ UNCHANGED <<holder, published, outcome, faults>>

\* A call failed, or was refused: the process goes on at its handler.
Handle(step) == pc' = step /\ Fault /\ UNCHANGED <<holder, published, outcome>>

\* The process ends with an answer and releases the lock.
Answer(value) ==
    /\ outcome' = [outcome EXCEPT ![holder] = value]
    /\ holder' = None
    /\ pc' = "idle"
    /\ UNCHANGED published

Finish(value) == Answer(value) /\ UNCHANGED faults

GiveUp == Answer("stopped") /\ Fault

\* Appending a row: it is written and "good" follows, or the append fails before,
\* after or in the middle of the line and "bad" follows.
Record(row, good, bad) ==
    /\ \/ journal' = [journal EXCEPT ![holder] = Append(@, row)] /\ good
       \/ /\ \E rest \in {<< >>, <<row>>, <<"torn">>} :
                journal' = [journal EXCEPT ![holder] = @ \o rest]
          /\ bad
    /\ UNCHANGED files

\* atomicState(): a new state file replaces the old one, or nothing changes.
WriteState(phase, good, bad) ==
    /\ \/ state' = [state EXCEPT ![holder] = phase] /\ good
       \/ UNCHANGED state /\ bad
    /\ UNCHANGED <<config, backup, candidate, manualRestore, journal>>

\* A call that only looks: assertQuiesced, verifyReplacement.
Check(condition, good, bad) ==
    /\ (condition /\ good) \/ bad
    /\ UNCHANGED <<files, journal>>

Take(op, step) ==
    /\ holder = None
    /\ holder' = op
    /\ pc' = step
    /\ published' = FALSE
    /\ outcome' = [outcome EXCEPT ![op] = "none"]
    /\ UNCHANGED <<files, journal, faults>>

-----------------------------------------------------------------------------
(* --upgrade: executeUpgrade with the file controls.                       *)

\* Mutant: an operation that has a state file is begun again.
StartUpgradeAgain(op) ==
    /\ config = Old
    /\ Legal(journal[op])
    /\ Take(op, IF Prior(journal[op]) \in {"started", "quiesced"} THEN "prefix" ELSE "started")

\* A first attempt, or one after attempts that died before their state file.
StartUpgrade(op) ==
    /\ config = Old
    /\ state[op] = "absent" /\ ~backup[op] /\ ~candidate[op]
    /\ Legal(journal[op])
    /\ \A i \in DOMAIN journal[op] :
          journal[op][i] \in {"started", "quiesced", "fail-closed"}
    /\ Take(op, IF Prior(journal[op]) \in {"started", "quiesced"} THEN "prefix" ELSE "started")

\* recoverBuyerWriterGatewayConfigurationJournalPrefix closes such an attempt.
ClosePrefix == pc = "prefix" /\ Record("fail-closed", Goto("started"), GiveUp)

RecordStarted == pc = "started" /\ Record("started", Goto("quiet"), Handle("fail-closed"))

AssertQuiesced == pc = "quiet" /\ Check(TRUE, Goto("quiesced"), Handle("fail-closed"))

RecordQuiesced == pc = "quiesced" /\ Record("quiesced", Goto("intent"), Handle("fail-closed"))

\* prepareReplacement, one durable write at a time.
WriteIntent == pc = "intent" /\ WriteState("INTENT", Goto("backup"), Handle("fail-closed"))

CopyBackup ==
    /\ pc = "backup"
    /\ \/ backup' = [backup EXCEPT ![holder] = TRUE] /\ Goto("candidate")
       \/ UNCHANGED backup /\ Handle("fail-closed")
    /\ UNCHANGED <<config, state, candidate, manualRestore, journal>>

WriteCandidate ==
    /\ pc = "candidate"
    /\ \/ candidate' = [candidate EXCEPT ![holder] = TRUE] /\ Goto("preparedState")
       \/ UNCHANGED candidate /\ Handle("fail-closed")
    /\ UNCHANGED <<config, state, backup, manualRestore, journal>>

WritePrepared ==
    pc = "preparedState" /\ WriteState("PREPARED", Goto("prepared"), Handle("fail-closed"))

RecordPrepared == pc = "prepared" /\ Record("prepared", Goto("publish"), Handle("restore"))

\* publishReplacement: the proofs that the services rest, the rename, the state.
PublishCandidate ==
    /\ pc = "publish"
    /\ \/ /\ config = Old
          /\ config' = holder
          /\ candidate' = [candidate EXCEPT ![holder] = FALSE]
          /\ Goto("publishedState")
       \/ UNCHANGED <<config, candidate>> /\ Handle("restore")
    /\ UNCHANGED <<state, backup, manualRestore, journal>>

WritePublished ==
    /\ pc = "publishedState"
    /\ WriteState("PUBLISHED",
         pc' = "configuration-published" /\ published' = TRUE /\ UNCHANGED <<holder, outcome, faults>>,
         Handle("restore"))

RecordPublished ==
    /\ pc = "configuration-published"
    /\ Record("configuration-published", Goto("verify"), Handle("restore"))

VerifyNew ==
    pc = "verify" /\ Check(config = holder, Goto("configuration-verified"), Handle("restore"))

RecordVerified ==
    /\ pc = "configuration-verified"
    /\ Record("configuration-verified", Goto("commit"), Handle("restore"))

Commit ==
    /\ pc = "commit"
    /\ config = holder
    /\ WriteState("COMPLETED", Goto("completed"), Handle("restore"))

\* An upgrade whose last row failed is undone like any other.
RecordCompleted ==
    pc = "completed" /\ Record("completed", Finish("UPGRADED"), Handle("restore"))

\* The handler of executeUpgrade, restoreOld when published: restoreReplacement,
\* verifyReplacement, finalizeReplacement and a row.
RestoreOld ==
    /\ pc = "restore"
    /\ \/ backup[holder] /\ config' = Old /\ Goto("restoredState")
       \/ UNCHANGED config /\ Handle("fail-closed")
    /\ UNCHANGED <<state, backup, candidate, manualRestore, journal>>

WriteRestored ==
    pc = "restoredState" /\ WriteState("RESTORED", Goto("checkRestored"), Handle("fail-closed"))

\* A verification that answers false ends an unpublished attempt without a row:
\* only a call that throws reaches the fail-closed one.
CheckRestored ==
    /\ pc = "checkRestored"
    /\ Check(config = Old, Goto("rollback"), IF published THEN Handle("fail-closed") ELSE GiveUp)

FinalizeRollback ==
    pc = "rollback" /\ WriteState("ROLLED_BACK", Goto("rolled-back"), Handle("fail-closed"))

RecordRolledBack ==
    pc = "rolled-back" /\ Record("rolled-back", Finish("rollbackSafe"), Handle("fail-closed"))

\* The last row of a failure; that it could not be written is ignored.
RecordFailClosed ==
    pc = "fail-closed" /\ Record("fail-closed", Finish("stopped"), GiveUp)

-----------------------------------------------------------------------------
(* --rollback: rollbackBuyerWriterGatewayConfigurationFile.                *)

\* Mutant: whatever configuration is in force.
StartRollbackOfAny(op) ==
    /\ state[op] \in {"INTENT", "PREPARED", "PUBLISHED", "COMPLETED"}
    /\ config = op \/ state[op] # "INTENT" => backup[op]
    /\ config = op => ~manualRestore[op]
    /\ Take(op, IF config = Old THEN "closeRollback" ELSE "copy")

StartRollback(op) ==
    /\ state[op] \in {"INTENT", "PREPARED", "PUBLISHED", "COMPLETED"}
    /\ config \in {Old, op}
    /\ config = op \/ state[op] # "INTENT" => backup[op]
    /\ config = op => ~manualRestore[op]
    /\ Take(op, IF config = Old THEN "closeRollback" ELSE "copy")

CopyManualRestore ==
    /\ pc = "copy"
    /\ \/ manualRestore' = [manualRestore EXCEPT ![holder] = TRUE] /\ Goto("rename")
       \/ UNCHANGED manualRestore /\ GiveUp
    /\ UNCHANGED <<config, state, backup, candidate, journal>>

\* Mutant: the state says so although the rename was refused.
RenameManualRestoreAnyway ==
    /\ pc = "rename"
    /\ manualRestore' = [manualRestore EXCEPT ![holder] = FALSE]
    /\ config' \in {Old, config} /\ Goto("closeRollback")
    /\ UNCHANGED <<state, backup, candidate, journal>>

\* The second proof that the services rest; refused, the copy is removed.
RenameManualRestore ==
    /\ pc = "rename"
    /\ manualRestore' = [manualRestore EXCEPT ![holder] = FALSE]
    /\ \/ config' = Old /\ Goto("closeRollback")
       \/ UNCHANGED config /\ GiveUp
    /\ UNCHANGED <<state, backup, candidate, journal>>

CloseRollback ==
    pc = "closeRollback" /\ WriteState("ROLLED_BACK", Finish("ROLLED_BACK"), GiveUp)

-----------------------------------------------------------------------------
(* --reconcile: reconcileBuyerWriterGatewayConfigurationFile.              *)

\* What the journal still lacks once the new configuration is in force.
Missing(row) ==
    CASE row = "prepared" -> "configuration-published"
      [] row = "configuration-published" -> "configuration-verified"
      [] row = "configuration-verified" -> "completed"
      [] OTHER -> "none"

\* The new configuration is in force: go forward.
Forward(op) ==
    /\ config = op
    /\ state[op] \notin {"INTENT", "ROLLED_BACK"}
    /\ \/ Prior(journal[op]) = "completed" /\ state[op] \in {"PUBLISHED", "COMPLETED"}
       \/ Missing(Prior(journal[op])) # "none"
    /\ Take(op, IF Prior(journal[op]) = "completed" THEN "commitForward" ELSE "forward")

\* Mutant: the hash of the file in force is not compared.
BackwardBlindly(op) ==
    /\ Prior(journal[op]) # "completed"
    /\ state[op] # "COMPLETED"
    /\ Take(op, IF state[op] = "PREPARED" /\ Prior(journal[op]) = "quiesced" THEN "bridge"
                ELSE IF Prior(journal[op]) = "rolled-back" THEN "commitBackward"
                ELSE "backward")

\* The old configuration is in force: close the operation as rolled back.
Backward(op) ==
    /\ config = Old
    /\ Prior(journal[op]) # "completed"
    /\ state[op] # "COMPLETED"
    /\ Take(op, IF state[op] = "PREPARED" /\ Prior(journal[op]) = "quiesced" THEN "bridge"
                ELSE IF Prior(journal[op]) = "rolled-back" THEN "commitBackward"
                ELSE "backward")

StartReconcile(op) ==
    /\ state[op] \in {"INTENT", "PREPARED", "PUBLISHED", "COMPLETED", "ROLLED_BACK"}
    /\ journal[op] # << >> /\ Legal(journal[op]) /\ Prior(journal[op]) # "fail-closed"
    /\ state[op] # "INTENT" => backup[op]
    /\ Forward(op) \/ Backward(op)

CompleteJournal ==
    /\ pc = "forward"
    /\ LET row == Missing(Prior(journal[holder])) IN
          Record(row, Goto(IF row = "completed" THEN "commitForward" ELSE "forward"), GiveUp)

BridgePrepared == pc = "bridge" /\ Record("prepared", Goto("backward"), GiveUp)

RecordBackward == pc = "backward" /\ Record("rolled-back", Goto("commitBackward"), GiveUp)

\* The last proof that the services rest, and the state file.
CommitForward ==
    pc = "commitForward" /\ WriteState("COMPLETED", Finish("UPGRADED"), GiveUp)

CommitBackward ==
    pc = "commitBackward" /\ WriteState("ROLLED_BACK", Finish("ROLLED_BACK"), GiveUp)

-----------------------------------------------------------------------------

\* The process dies: the lock goes with it, its files stay.
Die ==
    /\ holder # None
    /\ Fault
    /\ holder' = None
    /\ pc' = "idle"
    /\ UNCHANGED <<files, journal, published, outcome>>

Start == \E op \in Ops : StartUpgrade(op) \/ StartRollback(op) \/ StartReconcile(op)

Prepare == ClosePrefix \/ RecordStarted \/ AssertQuiesced \/ RecordQuiesced \/ WriteIntent
           \/ CopyBackup \/ WriteCandidate \/ WritePrepared \/ RecordPrepared

Publish == PublishCandidate \/ WritePublished \/ RecordPublished \/ VerifyNew
           \/ RecordVerified \/ Commit \/ RecordCompleted

Undo == RestoreOld \/ WriteRestored \/ CheckRestored \/ FinalizeRollback
        \/ RecordRolledBack \/ RecordFailClosed

Rollback == CopyManualRestore \/ RenameManualRestore \/ CloseRollback

Reconcile == CompleteJournal \/ BridgePrepared \/ RecordBackward \/ CommitForward
             \/ CommitBackward

Next == Start \/ Prepare \/ Publish \/ Undo \/ Rollback \/ Reconcile \/ Die

Spec == Init /\ [][Next]_vars

-----------------------------------------------------------------------------
(* Properties.                                                             *)

\* While an operation's configuration is in force, its backup and a state file
\* from which rollbackBuyerWriterGatewayConfigurationFile starts are on disk,
\* whatever died or failed before (files.js 254-311).  A rollback can still be
\* refused, by a copy that an earlier one left behind when it died.
NewIsUndoable ==
    config # Old => /\ backup[config]
                    /\ state[config] \in {"PREPARED", "PUBLISHED", "COMPLETED"}

\* An answer stays true until a process of its operation runs again, whatever
\* other operations do: UPGRADED leaves the new configuration in force with a
\* closed journal, ROLLED_BACK and a failure marked rollbackSafe leave it out of
\* force for good (upgrade.js 119-160, files.js 289-388).
AnswersHold ==
    \A op \in Ops :
       /\ outcome[op] = "UPGRADED" =>
             config = op /\ state[op] = "COMPLETED" /\ Prior(journal[op]) = "completed"
       /\ outcome[op] \in {"ROLLED_BACK", "rollbackSafe"} =>
             config # op /\ state[op] = "ROLLED_BACK"

\* A journal that says rolled-back is never that of the configuration in force,
\* not even between two writes or after a death (upgrade.js 84-95, files.js 366-380).
RolledBackIsOff ==
    \A op \in Ops : (\E i \in DOMAIN journal[op] : journal[op][i] = "rolled-back") => config # op

\* The files implement a switch that turns on at most once: every step of a
\* process, a death included, is a step of ConfigSwitch or leaves it alone.
Stage(op) ==
    IF config = op THEN "on"
    ELSE IF \/ state[op] \in {"RESTORED", "ROLLED_BACK"}
            \/ state[op] \in {"PREPARED", "PUBLISHED", "COMPLETED"} /\ ~candidate[op]
    THEN "off" ELSE "pending"

Switch == INSTANCE ConfigSwitch WITH stage <- [op \in Ops |-> Stage(op)]

ImplementsSwitch == Switch!SwitchSpec
=============================================================================
