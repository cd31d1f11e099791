------------------------ MODULE GatewayUpgradeProofs ------------------------
(***************************************************************************)
(* The safety of GatewayUpgrade, and that it implements ConfigSwitch,      *)
(* proved for every set of operations and every number of faults.          *)
(*                                                                         *)
(* What is on disk is safe only because of where a process may be: PcInv   *)
(* says for each step of a process which configuration is in force and     *)
(* what its operation has on disk.  A process that fails or dies leaves    *)
(* the files as PcInv says they are, and Disk is what remains true of them *)
(* when nobody is there.                                                   *)
(***************************************************************************)
EXTENDS GatewayUpgrade, TLAPS

Undoable == {"PREPARED", "PUBLISHED", "COMPLETED"}
Fresh == {"prefix", "started", "quiet", "quiesced", "intent"}
Ready == {"prepared", "publish"}
On == {"publishedState", "configuration-published", "verify", "configuration-verified",
       "commit", "completed", "copy", "rename", "forward", "commitForward"}
Back == {"restoredState", "checkRestored", "rollback", "rolled-back", "closeRollback",
         "bridge", "backward", "commitBackward"}

RolledBack(op) == \E i \in DOMAIN journal[op] : journal[op][i] = "rolled-back"

Busy == holder = None <=> pc = "idle"

\* What the files of an operation in force look like.
Disk ==
    config # Old => backup[config] /\ state[config] \in Undoable /\ ~candidate[config]

PcInv ==
    /\ pc # "idle" => config \in {Old, holder} /\ outcome[holder] = "none"
    /\ pc \in Fresh => config = Old /\ state[holder] = "absent"
    /\ pc \in {"backup", "candidate", "preparedState"} =>
          config = Old /\ state[holder] = "INTENT"
    /\ pc \in {"candidate", "preparedState"} => backup[holder]
    /\ pc = "preparedState" => candidate[holder]
    /\ pc \in Ready =>
          config = Old /\ state[holder] = "PREPARED" /\ backup[holder] /\ candidate[holder]
    /\ pc \in On => config = holder
    /\ pc = "completed" => state[holder] = "COMPLETED"
    /\ pc = "restore" => backup[holder] /\ state[holder] \in Undoable
    /\ pc \in Back => config = Old
    /\ pc = "rolled-back" => state[holder] = "ROLLED_BACK"

Rolled ==
    /\ RolledBackIsOff
    /\ pc \in Fresh \cup Ready \cup {"backup", "candidate", "preparedState"} => ~RolledBack(holder)

Forwards == pc = "forward" => Missing(Prior(journal[holder])) # "none"

Answers ==
    /\ AnswersHold
    /\ pc = "commitForward" => Prior(journal[holder]) = "completed"

IInv == TypeOK /\ Busy /\ Disk /\ PcInv /\ Forwards /\ Rolled /\ Answers

-----------------------------------------------------------------------------
(* Types                                                                   *)

\* A row is appended whole, in part or not at all; no other journal changes.
Grows(row) ==
    /\ journal' \in [Ops -> Seq(Rows \cup {"torn"})]
    /\ \A op \in Ops : op # holder => journal'[op] = journal[op]
    /\ \E rest \in {<< >>, <<row>>, <<"torn">>} : journal'[holder] = journal[holder] \o rest

LEMMA Recorded ==
  ASSUME TypeOK, holder \in Ops, NEW row \in Rows,
         \/ journal' = [journal EXCEPT ![holder] = Append(@, row)]
         \/ \E rest \in {<< >>, <<row>>, <<"torn">>} :
               journal' = [journal EXCEPT ![holder] = @ \o rest]
  PROVE  Grows(row)
<1>1. CASE journal' = [journal EXCEPT ![holder] = Append(@, row)]
  <2>1. Append(journal[holder], row) = journal[holder] \o <<row>> BY DEF TypeOK
  <2> QED BY <1>1, <2>1 DEF TypeOK, Grows
<1>2. ASSUME NEW rest \in {<< >>, <<row>>, <<"torn">>},
             journal' = [journal EXCEPT ![holder] = @ \o rest]
      PROVE  Grows(row)
  <2>1. rest \in Seq(Rows \cup {"torn"})
    <3>1. << >> \in Seq(Rows \cup {"torn"}) OBVIOUS
    <3>2. <<row>> \in Seq(Rows \cup {"torn"}) OBVIOUS
    <3>3. <<"torn">> \in Seq(Rows \cup {"torn"}) OBVIOUS
    <3> QED BY <3>1, <3>2, <3>3
  <2>2. journal[holder] \in Seq(Rows \cup {"torn"}) BY DEF TypeOK
  <2>3. journal[holder] \o rest \in Seq(Rows \cup {"torn"}) BY <2>1, <2>2
  <2> QED BY <1>2, <2>3 DEF TypeOK, Grows
<1> QED BY <1>1, <1>2

\* After a row that is not "rolled-back" a journal says so only if it did before.
LEMMA RowsStay ==
  ASSUME TypeOK, holder \in Ops, NEW row \in Rows, Grows(row),
         NEW op \in Ops, RolledBack(op)'
  PROVE  RolledBack(op) \/ (op = holder /\ row = "rolled-back")
<1>1. CASE op # holder BY <1>1 DEF Grows, RolledBack
<1>2. CASE op = holder
  <2>1. PICK rest \in {<< >>, <<row>>, <<"torn">>} :
              journal'[holder] = journal[holder] \o rest
    BY DEF Grows
  <2>2. journal[holder] \in Seq(Rows \cup {"torn"}) BY DEF TypeOK
  <2>3. PICK i \in DOMAIN journal'[holder] : journal'[holder][i] = "rolled-back"
    BY <1>2 DEF RolledBack
  <2>4. CASE i \in DOMAIN journal[holder]
    <3>1. journal'[holder][i] = journal[holder][i] BY <2>1, <2>2, <2>4
    <3> QED BY <1>2, <2>3, <2>4, <3>1 DEF RolledBack
  <2>5. CASE i \notin DOMAIN journal[holder]
    <3>1. rest # << >> BY <2>1, <2>2, <2>3, <2>5
    <3>2. journal'[holder][i] = rest[1] BY <2>1, <2>2, <2>3, <2>5, <3>1
    <3> QED BY <1>2, <2>1, <2>3, <3>1, <3>2
  <2> QED BY <2>4, <2>5
<1> QED BY <1>1, <1>2

\* A journal changes by one row, and says "rolled-back" only once Old is in force.
LEMMA JournalStep ==
  ASSUME TypeOK, Busy, Forwards, Next
  PROVE  \/ UNCHANGED journal
         \/ holder \in Ops /\ \E row \in Rows : Grows(row) /\ (row = "rolled-back" => pc \in Back)
<1> USE DEF Rows, Record, Check, WriteState, Take, files
<1>1. CASE Start BY <1>1 DEF Start, StartUpgrade, StartRollback, StartReconcile, Forward, Backward
<1>2. CASE Prepare
  <2>1. pc # "idle" BY <1>2 DEF Prepare, ClosePrefix, RecordStarted, AssertQuiesced, RecordQuiesced,
          WriteIntent, CopyBackup, WriteCandidate, WritePrepared, RecordPrepared
  <2>2. holder \in Ops BY <2>1 DEF TypeOK, Busy
  <2>3. CASE ClosePrefix BY <2>2, <2>3, Recorded DEF ClosePrefix
  <2>4. CASE RecordStarted BY <2>2, <2>4, Recorded DEF RecordStarted
  <2>5. CASE RecordQuiesced BY <2>2, <2>5, Recorded DEF RecordQuiesced
  <2>6. CASE RecordPrepared BY <2>2, <2>6, Recorded DEF RecordPrepared
  <2> QED BY <1>2, <2>3, <2>4, <2>5, <2>6 DEF Prepare, AssertQuiesced, WriteIntent, CopyBackup,
        WriteCandidate, WritePrepared
<1>3. CASE Publish
  <2>1. pc # "idle" BY <1>3 DEF Publish, PublishCandidate, WritePublished, RecordPublished,
          VerifyNew, RecordVerified, Commit, RecordCompleted
  <2>2. holder \in Ops BY <2>1 DEF TypeOK, Busy
  <2>3. CASE RecordPublished BY <2>2, <2>3, Recorded DEF RecordPublished
  <2>4. CASE RecordVerified BY <2>2, <2>4, Recorded DEF RecordVerified
  <2>5. CASE RecordCompleted BY <2>2, <2>5, Recorded DEF RecordCompleted
  <2> QED BY <1>3, <2>3, <2>4, <2>5 DEF Publish, PublishCandidate, WritePublished, VerifyNew, Commit
<1>4. CASE Undo
  <2>1. pc # "idle" BY <1>4 DEF Undo, RestoreOld, WriteRestored, CheckRestored, FinalizeRollback,
          RecordRolledBack, RecordFailClosed
  <2>2. holder \in Ops BY <2>1 DEF TypeOK, Busy
  <2>3. CASE RecordRolledBack BY <2>2, <2>3, Recorded DEF RecordRolledBack, Back
  <2>4. CASE RecordFailClosed BY <2>2, <2>4, Recorded DEF RecordFailClosed
  <2> QED BY <1>4, <2>3, <2>4 DEF Undo, RestoreOld, WriteRestored, CheckRestored, FinalizeRollback
<1>5. CASE Rollback
  BY <1>5 DEF Rollback, CopyManualRestore, RenameManualRestore, CloseRollback
<1>6. CASE Reconcile
  <2>1. pc # "idle" BY <1>6 DEF Reconcile, CompleteJournal, BridgePrepared, RecordBackward,
          CommitForward, CommitBackward
  <2>2. holder \in Ops BY <2>1 DEF TypeOK, Busy
  <2>3. CASE CompleteJournal
    <3> DEFINE row == Missing(Prior(journal[holder]))
    <3>1. row \in Rows /\ row # "rolled-back" BY <2>3 DEF CompleteJournal, Forwards, Missing
    <3>2. \/ journal' = [journal EXCEPT ![holder] = Append(@, row)]
          \/ \E rest \in {<< >>, <<row>>, <<"torn">>} :
                journal' = [journal EXCEPT ![holder] = @ \o rest]
      BY <2>3 DEF CompleteJournal
    <3> HIDE DEF row
    <3> QED BY <2>2, <3>1, <3>2, Recorded
  <2>4. CASE BridgePrepared BY <2>2, <2>4, Recorded DEF BridgePrepared
  <2>5. CASE RecordBackward BY <2>2, <2>5, Recorded DEF RecordBackward, Back
  <2> QED BY <1>6, <2>3, <2>4, <2>5 DEF Reconcile, CommitForward, CommitBackward
<1>7. CASE Die BY <1>7 DEF Die
<1> QED BY <1>1, <1>2, <1>3, <1>4, <1>5, <1>6, <1>7 DEF Next

\* A process touches nothing of another operation, nor whether it is in force.
LEMMA Others ==
  ASSUME TypeOK, Busy, PcInv, Forwards, Next, NEW op \in Ops, op # holder
  PROVE  /\ journal'[op] = journal[op] /\ state'[op] = state[op]
         /\ backup'[op] = backup[op] /\ candidate'[op] = candidate[op]
         /\ outcome'[op] \in {outcome[op], "none"}
         /\ config' = op <=> config = op
<1>1. journal'[op] = journal[op] BY JournalStep DEF Grows
<1> USE OpsAssumption DEF TypeOK, PcInv, Record, Check, WriteState, Take, Goto, Handle, Answer,
      Finish, GiveUp, files
<1>2. CASE Start BY <1>2 DEF Start, StartUpgrade, StartRollback, StartReconcile, Forward, Backward
<1>3. CASE Prepare
  BY <1>1, <1>3 DEF Prepare, ClosePrefix, RecordStarted, AssertQuiesced, RecordQuiesced,
     WriteIntent, CopyBackup, WriteCandidate, WritePrepared, RecordPrepared
<1>4. CASE Publish
  BY <1>1, <1>4 DEF Publish, PublishCandidate, WritePublished, RecordPublished, VerifyNew,
     RecordVerified, Commit, RecordCompleted
<1>5. CASE Undo
  BY <1>1, <1>5 DEF Undo, RestoreOld, WriteRestored, CheckRestored, FinalizeRollback,
     RecordRolledBack, RecordFailClosed
<1>6. CASE Rollback
  BY <1>6 DEF Rollback, CopyManualRestore, RenameManualRestore, CloseRollback
<1>7. CASE Reconcile
  BY <1>1, <1>7 DEF Reconcile, CompleteJournal, BridgePrepared, RecordBackward,
     CommitForward, CommitBackward
<1>8. CASE Die BY <1>8 DEF Die
<1> QED BY <1>2, <1>3, <1>4, <1>5, <1>6, <1>7, <1>8 DEF Next

LEMMA FaultsStep == ASSUME TypeOK, Next PROVE faults' \in 0..MaxFaults
<1> USE FaultsAssumption DEF TypeOK, Record, Check, WriteState, Take, Goto, Handle, Answer,
      Finish, GiveUp, Fault
<1>1. CASE Start BY <1>1 DEF Start, StartUpgrade, StartRollback, StartReconcile, Forward, Backward
<1>2. CASE Prepare
  BY <1>2 DEF Prepare, ClosePrefix, RecordStarted, AssertQuiesced, RecordQuiesced,
     WriteIntent, CopyBackup, WriteCandidate, WritePrepared, RecordPrepared
<1>3. CASE Publish
  BY <1>3 DEF Publish, PublishCandidate, WritePublished, RecordPublished, VerifyNew,
     RecordVerified, Commit, RecordCompleted
<1>4. CASE Undo
  BY <1>4 DEF Undo, RestoreOld, WriteRestored, CheckRestored, FinalizeRollback,
     RecordRolledBack, RecordFailClosed
<1>5. CASE Rollback BY <1>5 DEF Rollback, CopyManualRestore, RenameManualRestore, CloseRollback
<1>6. CASE Reconcile
  BY <1>6 DEF Reconcile, CompleteJournal, BridgePrepared, RecordBackward, CommitForward,
     CommitBackward
<1>7. CASE Die BY <1>7 DEF Die
<1> QED BY <1>1, <1>2, <1>3, <1>4, <1>5, <1>6, <1>7 DEF Next

LEMMA FilesStep ==
  ASSUME TypeOK, Busy, Next
  PROVE  /\ config' \in Ops \cup {Old} /\ state' \in [Ops -> Phases]
         /\ backup' \in [Ops -> BOOLEAN] /\ candidate' \in [Ops -> BOOLEAN]
         /\ manualRestore' \in [Ops -> BOOLEAN]
<1> USE OpsAssumption DEF TypeOK, Busy, Record, Check, WriteState, Take, Phases, files
<1>1. CASE Start BY <1>1 DEF Start, StartUpgrade, StartRollback, StartReconcile, Forward, Backward
<1>2. CASE Prepare
  BY <1>2 DEF Prepare, ClosePrefix, RecordStarted, AssertQuiesced, RecordQuiesced,
     WriteIntent, CopyBackup, WriteCandidate, WritePrepared, RecordPrepared
<1>3. CASE Publish
  BY <1>3 DEF Publish, PublishCandidate, WritePublished, RecordPublished, VerifyNew,
     RecordVerified, Commit, RecordCompleted
<1>4. CASE Undo
  BY <1>4 DEF Undo, RestoreOld, WriteRestored, CheckRestored, FinalizeRollback,
     RecordRolledBack, RecordFailClosed
<1>5. CASE Rollback BY <1>5 DEF Rollback, CopyManualRestore, RenameManualRestore, CloseRollback
<1>6. CASE Reconcile
  BY <1>6 DEF Reconcile, CompleteJournal, BridgePrepared, RecordBackward, CommitForward,
     CommitBackward
<1>7. CASE Die BY <1>7 DEF Die
<1> QED BY <1>1, <1>2, <1>3, <1>4, <1>5, <1>6, <1>7 DEF Next

LEMMA ProcessStep ==
  ASSUME TypeOK, Busy, Next
  PROVE  /\ holder' \in Ops \cup {None} /\ pc' \in Steps
         /\ published' \in BOOLEAN /\ outcome' \in [Ops -> Outcomes]
<1> USE OpsAssumption DEF TypeOK, Busy, Record, Check, WriteState, Take, Goto, Handle, Answer,
      Finish, GiveUp, Steps, UpgradeSteps, Outcomes
<1>1. CASE Start BY <1>1 DEF Start, StartUpgrade, StartRollback, StartReconcile, Forward, Backward
<1>2. CASE Prepare
  BY <1>2 DEF Prepare, ClosePrefix, RecordStarted, AssertQuiesced, RecordQuiesced,
     WriteIntent, CopyBackup, WriteCandidate, WritePrepared, RecordPrepared
<1>3. CASE Publish
  BY <1>3 DEF Publish, PublishCandidate, WritePublished, RecordPublished, VerifyNew,
     RecordVerified, Commit, RecordCompleted
<1>4. CASE Undo
  BY <1>4 DEF Undo, RestoreOld, WriteRestored, CheckRestored, FinalizeRollback,
     RecordRolledBack, RecordFailClosed
<1>5. CASE Rollback BY <1>5 DEF Rollback, CopyManualRestore, RenameManualRestore, CloseRollback
<1>6. CASE Reconcile
  BY <1>6 DEF Reconcile, CompleteJournal, BridgePrepared, RecordBackward, CommitForward,
     CommitBackward
<1>7. CASE Die BY <1>7 DEF Die
<1> QED BY <1>1, <1>2, <1>3, <1>4, <1>5, <1>6, <1>7 DEF Next

LEMMA TypeStep == ASSUME IInv, Next PROVE TypeOK'
<1>1. journal' \in [Ops -> Seq(Rows \cup {"torn"})]
  BY JournalStep DEF Grows, IInv, TypeOK
<1> QED BY <1>1, FaultsStep, FilesStep, ProcessStep DEF IInv, TypeOK

LEMMA PlaceStep == ASSUME IInv, Next PROVE Busy' /\ Disk' /\ PcInv'
<1> USE OpsAssumption DEF IInv, TypeOK, Busy, Disk, PcInv, Undoable, Fresh, Ready, On, Back,
      Record, Check, WriteState, Take, Goto, Handle, Answer, Finish, GiveUp, files
<1>2. CASE Start
  BY <1>2 DEF Start, StartUpgrade, StartRollback, StartReconcile, Forward, Backward, Undoable
<1>3. CASE Prepare
  BY <1>3 DEF Prepare, ClosePrefix, RecordStarted, AssertQuiesced, RecordQuiesced,
     WriteIntent, CopyBackup, WriteCandidate, WritePrepared, RecordPrepared
<1>4. CASE Publish
  BY <1>4 DEF Publish, PublishCandidate, WritePublished, RecordPublished, VerifyNew,
     RecordVerified, Commit, RecordCompleted
<1>5. CASE Undo
  BY <1>5 DEF Undo, RestoreOld, WriteRestored, CheckRestored, FinalizeRollback,
     RecordRolledBack, RecordFailClosed
<1>6. CASE Rollback
  BY <1>6 DEF Rollback, CopyManualRestore, RenameManualRestore, CloseRollback
<1>7. CASE Reconcile
  BY <1>7 DEF Reconcile, CompleteJournal, BridgePrepared, RecordBackward,
     CommitForward, CommitBackward
<1>8. CASE Die BY <1>8 DEF Die
<1> QED BY <1>2, <1>3, <1>4, <1>5, <1>6, <1>7, <1>8 DEF Next

\* The last row of a journal that a row was appended to.
LEMMA LastRow ==
  ASSUME TypeOK, holder \in Ops, NEW row \in Rows,
         journal' = [journal EXCEPT ![holder] = Append(@, row)]
  PROVE  Prior(journal'[holder]) = row
<1> DEFINE old == journal[holder]
<1>1. old \in Seq(Rows \cup {"torn"}) /\ journal'[holder] = Append(old, row) BY DEF TypeOK
<1> HIDE DEF old
<1> QED BY <1>1 DEF Prior

LEMMA ForwardsStep == ASSUME IInv, Next PROVE Forwards'
<1> SUFFICES ASSUME pc' = "forward" PROVE Missing(Prior(journal'[holder'])) # "none"
  BY DEF Forwards
<1>1. CASE Start
  BY <1>1 DEF Start, StartUpgrade, StartRollback, StartReconcile, Forward, Backward, Take, files
<1>2. CASE CompleteJournal
  <2> DEFINE row == Missing(Prior(journal[holder]))
  <2>1. holder \in Ops BY <1>2 DEF CompleteJournal, IInv, TypeOK, Busy
  <2>2. row \in {"configuration-published", "configuration-verified", "completed"}
    BY <1>2 DEF CompleteJournal, IInv, Forwards, Missing
  <2>3. /\ journal' = [journal EXCEPT ![holder] = Append(@, row)]
        /\ row # "completed" /\ holder' = holder
    BY <1>2 DEF CompleteJournal, Record, Goto, GiveUp, Answer
  <2>4. Prior(journal'[holder]) = row
    <3> HIDE DEF row
    <3> QED BY <2>1, <2>2, <2>3, LastRow DEF IInv, Rows
  <2> QED BY <2>2, <2>3, <2>4 DEF Missing
<1>3. pc' # "forward" \/ Start \/ CompleteJournal
  <2> USE DEF Record, Check, WriteState, Goto, Handle, Answer, Finish, GiveUp
  <2>1. CASE Prepare
    BY <2>1 DEF Prepare, ClosePrefix, RecordStarted, AssertQuiesced, RecordQuiesced,
       WriteIntent, CopyBackup, WriteCandidate, WritePrepared, RecordPrepared
  <2>2. CASE Publish
    BY <2>2 DEF Publish, PublishCandidate, WritePublished, RecordPublished, VerifyNew,
       RecordVerified, Commit, RecordCompleted
  <2>3. CASE Undo
    BY <2>3 DEF Undo, RestoreOld, WriteRestored, CheckRestored, FinalizeRollback,
       RecordRolledBack, RecordFailClosed
  <2>4. CASE Rollback BY <2>4 DEF Rollback, CopyManualRestore, RenameManualRestore, CloseRollback
  <2>5. CASE Reconcile
    BY <2>5 DEF Reconcile, BridgePrepared, RecordBackward, CommitForward, CommitBackward
  <2>6. CASE Die BY <2>6 DEF Die
  <2> QED BY <2>1, <2>2, <2>3, <2>4, <2>5, <2>6 DEF Next
<1> QED BY <1>1, <1>2, <1>3

\* The configuration changes only where the holder's own is published or undone.
LEMMA Switches ==
  ASSUME IInv, Next, config' # Old, config' # config
  PROVE  PublishCandidate /\ config' = holder
<1> USE DEF Record, Check, WriteState, Take, files
<1>1. CASE Start BY <1>1 DEF Start, StartUpgrade, StartRollback, StartReconcile, Forward, Backward
<1>2. CASE Prepare
  BY <1>2 DEF Prepare, ClosePrefix, RecordStarted, AssertQuiesced, RecordQuiesced,
     WriteIntent, CopyBackup, WriteCandidate, WritePrepared, RecordPrepared
<1>3. CASE Publish
  BY <1>3 DEF Publish, PublishCandidate, WritePublished, RecordPublished, VerifyNew,
     RecordVerified, Commit, RecordCompleted
<1>4. CASE Undo
  BY <1>4 DEF Undo, RestoreOld, WriteRestored, CheckRestored, FinalizeRollback,
     RecordRolledBack, RecordFailClosed
<1>5. CASE Rollback BY <1>5 DEF Rollback, CopyManualRestore, RenameManualRestore, CloseRollback
<1>6. CASE Reconcile
  BY <1>6 DEF Reconcile, CompleteJournal, BridgePrepared, RecordBackward, CommitForward,
     CommitBackward
<1>7. CASE Die BY <1>7 DEF Die
<1> QED BY <1>1, <1>2, <1>3, <1>4, <1>5, <1>6, <1>7 DEF Next

LEMMA RolledStep == ASSUME IInv, Next PROVE Rolled'
<1> DEFINE Before == Fresh \cup Ready \cup {"backup", "candidate", "preparedState"}
<1>1. ASSUME NEW op \in Ops, RolledBack(op)'
      PROVE  RolledBack(op) \/ (op = holder /\ pc \in Back)
  <2>1. CASE UNCHANGED journal BY <1>1, <2>1 DEF RolledBack
  <2>2. CASE holder \in Ops /\ \E row \in Rows : Grows(row) /\ (row = "rolled-back" => pc \in Back)
    BY <1>1, <2>2, RowsStay DEF IInv
  <2> QED BY <2>1, <2>2, JournalStep DEF IInv
<1>2. ASSUME NEW op \in Ops, RolledBack(op)' PROVE config' # op
  <2>1. SUFFICES ASSUME config' = op PROVE FALSE OBVIOUS
  <2>2. config' # Old BY <2>1, OpsAssumption
  <2>3. CASE config = op
    BY <1>1, <1>2, <2>3, OpsAssumption DEF IInv, PcInv, Rolled, RolledBackIsOff, RolledBack
  <2>4. CASE config # op
    <3>1. PublishCandidate /\ op = holder BY <2>1, <2>2, <2>4, Switches
    <3>2. pc = "publish" BY <3>1 DEF PublishCandidate
    <3>3. ~RolledBack(op) BY <3>1, <3>2 DEF IInv, Rolled, Ready
    <3> QED BY <1>1, <1>2, <3>2, <3>3 DEF Back
  <2> QED BY <2>3, <2>4
<1>3. ASSUME pc' \in Before PROVE ~RolledBack(holder)'
  <2>1. pc' # "idle" BY <1>3 DEF Fresh, Ready
  <2>2. holder' \in Ops BY <2>1, TypeStep, PlaceStep DEF TypeOK, Busy
  <2>3. CASE Start
    <3>1. PICK op \in Ops : StartUpgrade(op)
      BY <1>3, <2>3 DEF Start, StartRollback, StartReconcile, Forward, Backward, Take, Fresh, Ready
    <3>2. holder' = op /\ journal' = journal BY <3>1 DEF StartUpgrade, Take
    <3> QED BY <3>1, <3>2 DEF StartUpgrade, RolledBack
  <2>4. CASE ~Start
    <3> USE DEF Record, Check, WriteState, Goto, Handle, Answer, Finish, GiveUp, Fresh, Ready
    <3>1. pc \in Before /\ holder' = holder
      <4>1. CASE Prepare
        BY <1>3, <4>1 DEF Prepare, ClosePrefix, RecordStarted, AssertQuiesced, RecordQuiesced,
           WriteIntent, CopyBackup, WriteCandidate, WritePrepared, RecordPrepared
      <4>2. CASE Publish
        BY <1>3, <4>2 DEF Publish, PublishCandidate, WritePublished, RecordPublished, VerifyNew,
           RecordVerified, Commit, RecordCompleted
      <4>3. CASE Undo
        BY <1>3, <4>3 DEF Undo, RestoreOld, WriteRestored, CheckRestored, FinalizeRollback,
           RecordRolledBack, RecordFailClosed
      <4>4. CASE Rollback
        BY <1>3, <4>4 DEF Rollback, CopyManualRestore, RenameManualRestore, CloseRollback
      <4>5. CASE Reconcile
        BY <1>3, <4>5 DEF Reconcile, CompleteJournal, BridgePrepared, RecordBackward,
           CommitForward, CommitBackward
      <4>6. CASE Die BY <1>3, <4>6 DEF Die
      <4> QED BY <2>4, <4>1, <4>2, <4>3, <4>4, <4>5, <4>6 DEF Next
    <3>2. ~RolledBack(holder) /\ pc \notin Back BY <3>1 DEF IInv, Rolled, Back
    <3> QED BY <1>1, <2>2, <3>1, <3>2 DEF RolledBack
  <2> QED BY <2>3, <2>4
<1> QED BY <1>2, <1>3 DEF Rolled, RolledBackIsOff, RolledBack

LEMMA AnswersStep == ASSUME IInv, Next PROVE Answers'
<1>1. ASSUME NEW op \in Ops, op # holder
      PROVE  /\ outcome'[op] = "UPGRADED" =>
                   config' = op /\ state'[op] = "COMPLETED" /\ Prior(journal'[op]) = "completed"
             /\ outcome'[op] \in {"ROLLED_BACK", "rollbackSafe"} =>
                   config' # op /\ state'[op] = "ROLLED_BACK"
  BY <1>1, Others DEF IInv, Answers, AnswersHold, Prior
<1>2. ASSUME holder \in Ops
      PROVE  /\ outcome'[holder] = "UPGRADED" =>
                   /\ config' = holder /\ state'[holder] = "COMPLETED"
                   /\ Prior(journal'[holder]) = "completed"
             /\ outcome'[holder] \in {"ROLLED_BACK", "rollbackSafe"} =>
                   config' # holder /\ state'[holder] = "ROLLED_BACK"
  <2>1. pc # "idle" /\ outcome[holder] = "none" /\ holder # Old
    BY <1>2, OpsAssumption DEF IInv, Busy, PcInv
  <2> USE DEF IInv, TypeOK, PcInv, Check, WriteState, Goto, Handle, Answer, Finish, GiveUp
  <2>2. CASE Start BY <1>2, <2>2, OpsAssumption
    DEF Start, StartUpgrade, StartRollback, StartReconcile, Forward, Backward, Take
  <2>3. CASE Prepare
    BY <2>1, <2>3 DEF Prepare, ClosePrefix, RecordStarted, AssertQuiesced, RecordQuiesced,
       WriteIntent, CopyBackup, WriteCandidate, WritePrepared, RecordPrepared, Record
  <2>4. CASE Publish
    <3>1. CASE RecordCompleted
      <4>1. config' = holder /\ state'[holder] = "COMPLETED"
        BY <3>1 DEF RecordCompleted, Record, files, On
      <4>2. CASE outcome'[holder] = "UPGRADED"
        <5>1. journal' = [journal EXCEPT ![holder] = Append(@, "completed")]
          BY <2>1, <3>1, <4>2 DEF RecordCompleted, Record
        <5> QED BY <1>2, <4>1, <4>2, <5>1, LastRow DEF Rows
      <4>3. CASE outcome'[holder] # "UPGRADED"
        BY <2>1, <3>1, <4>3 DEF RecordCompleted, Record
      <4> QED BY <4>2, <4>3
    <3> QED
      BY <2>1, <2>4, <3>1 DEF Publish, PublishCandidate, WritePublished, RecordPublished,
         VerifyNew, RecordVerified, Commit, Record
  <2>5. CASE Undo
    BY <2>1, <2>5 DEF Undo, RestoreOld, WriteRestored, CheckRestored, FinalizeRollback,
       RecordRolledBack, RecordFailClosed, Record, files, Back
  <2>6. CASE Rollback
    BY <2>1, <2>6 DEF Rollback, CopyManualRestore, RenameManualRestore, CloseRollback, Back
  <2>7. CASE Reconcile
    BY <2>1, <2>7 DEF Reconcile, CompleteJournal, BridgePrepared, RecordBackward,
       CommitForward, CommitBackward, Record, On, Back, Answers
  <2>8. CASE Die BY <2>1, <2>8 DEF Die
  <2> QED BY <2>2, <2>3, <2>4, <2>5, <2>6, <2>7, <2>8 DEF Next
<1>3. ASSUME pc' = "commitForward" PROVE Prior(journal'[holder']) = "completed"
  <2>1. CASE Start
    BY <1>3, <2>1 DEF Start, StartUpgrade, StartRollback, StartReconcile, Forward, Backward, Take,
       files
  <2>2. CASE CompleteJournal
    <3>1. holder \in Ops BY <2>2 DEF CompleteJournal, IInv, TypeOK, Busy
    <3>2. journal' = [journal EXCEPT ![holder] = Append(@, "completed")] /\ holder' = holder
      BY <1>3, <2>2 DEF CompleteJournal, Record, Goto, GiveUp, Answer
    <3> QED BY <3>1, <3>2, LastRow DEF IInv, Rows
  <2>3. CASE ~Start /\ ~CompleteJournal
    <3> USE DEF Record, Check, WriteState, Goto, Handle, Answer, Finish, GiveUp
    <3>1. CASE Prepare
      BY <1>3, <3>1 DEF Prepare, ClosePrefix, RecordStarted, AssertQuiesced, RecordQuiesced,
         WriteIntent, CopyBackup, WriteCandidate, WritePrepared, RecordPrepared
    <3>2. CASE Publish
      BY <1>3, <3>2 DEF Publish, PublishCandidate, WritePublished, RecordPublished, VerifyNew,
         RecordVerified, Commit, RecordCompleted
    <3>3. CASE Undo
      BY <1>3, <3>3 DEF Undo, RestoreOld, WriteRestored, CheckRestored, FinalizeRollback,
         RecordRolledBack, RecordFailClosed
    <3>4. CASE Rollback
      BY <1>3, <3>4 DEF Rollback, CopyManualRestore, RenameManualRestore, CloseRollback
    <3>5. CASE Reconcile
      BY <1>3, <2>3, <3>5 DEF Reconcile, BridgePrepared, RecordBackward, CommitForward,
         CommitBackward
    <3>6. CASE Die BY <1>3, <3>6 DEF Die
    <3> QED BY <2>3, <3>1, <3>2, <3>3, <3>4, <3>5, <3>6 DEF Next
  <2> QED BY <2>1, <2>2, <2>3
<1> QED BY <1>1, <1>2, <1>3 DEF Answers, AnswersHold

-----------------------------------------------------------------------------
(* Theorems                                                                *)

LEMMA IInvInit == Init => IInv
<1> SUFFICES ASSUME Init PROVE IInv OBVIOUS
<1>1. TypeOK
  <2>1. << >> \in Seq(Rows \cup {"torn"}) OBVIOUS
  <2>2. journal \in [Ops -> Seq(Rows \cup {"torn"})] BY <2>1 DEF Init
  <2>3. state \in [Ops -> Phases] /\ outcome \in [Ops -> Outcomes] BY DEF Init, Phases, Outcomes
  <2>4. faults \in 0..MaxFaults BY FaultsAssumption DEF Init
  <2> QED BY <2>2, <2>3, <2>4 DEF Init, TypeOK, Steps
<1>2. Busy /\ Disk /\ PcInv BY DEF Init, Busy, Disk, PcInv, On, Back, Fresh, Ready
<1>3. \A op \in Ops : ~RolledBack(op)
  <2>1. \A op \in Ops : journal[op] = << >> BY DEF Init
  <2>2. DOMAIN << >> = {} OBVIOUS
  <2> QED BY <2>1, <2>2 DEF RolledBack
<1>4. Forwards /\ Rolled /\ Answers
  BY <1>3 DEF Init, Forwards, Rolled, RolledBackIsOff, RolledBack, Answers, AnswersHold, Fresh, Ready
<1> QED BY <1>1, <1>2, <1>4 DEF IInv

LEMMA IInvStep == IInv /\ [Next]_vars => IInv'
<1>1. ASSUME IInv, Next PROVE IInv'
  BY <1>1, TypeStep, PlaceStep, ForwardsStep, RolledStep, AnswersStep DEF IInv
<1>2. ASSUME IInv, UNCHANGED vars PROVE IInv'
  BY <1>2 DEF IInv, vars, files, TypeOK, Busy, Disk, PcInv, Forwards, Rolled, RolledBackIsOff,
     RolledBack, Answers, AnswersHold
<1> QED BY <1>1, <1>2

\* The inductive invariant: where a process is decides what is on disk.
THEOREM UpgradeSafe == Spec => []IInv
BY IInvInit, IInvStep, PTL DEF Spec

\* Every variable keeps its type.
THEOREM UpgradeTyped == Spec => []TypeOK
<1>1. IInv => TypeOK BY DEF IInv
<1> QED BY <1>1, UpgradeSafe, PTL

\* A configuration in force always has a backup and a state that --rollback
\* accepts, for any number of operations, failures and deaths.
THEOREM UndoIsPossible == Spec => []NewIsUndoable
<1>1. IInv => NewIsUndoable BY DEF IInv, Disk, NewIsUndoable, Undoable
<1> QED BY <1>1, UpgradeSafe, PTL

\* What a process answered holds until its operation runs again.
THEOREM AnswersStayTrue == Spec => []AnswersHold
<1>1. IInv => AnswersHold BY DEF IInv, Answers
<1> QED BY <1>1, UpgradeSafe, PTL

\* A journal that says rolled-back is never that of the configuration in force.
THEOREM RolledBackStaysOff == Spec => []RolledBackIsOff
<1>1. IInv => RolledBackIsOff BY DEF IInv, Rolled
<1> QED BY <1>1, UpgradeSafe, PTL

\* The switch of the process's own operation turns off, or on from pending.
LEMMA HolderTurns ==
  ASSUME IInv, Next, NEW own \in Ops, own = holder
  PROVE  \/ Stage(own)' = Stage(own)
         \/ Stage(own)' = "off"
         \/ Stage(own) = "pending" /\ Stage(own)' = "on" /\ config = Old
<1> USE OpsAssumption DEF IInv, TypeOK, Busy, Disk, PcInv, Undoable, Fresh, Ready, On, Back, Stage,
      Record, Check, WriteState, files
<1>1. CASE Start
  BY <1>1 DEF Start, StartUpgrade, StartRollback, StartReconcile, Forward, Backward, Take
<1>2. CASE Prepare
  BY <1>2 DEF Prepare, ClosePrefix, RecordStarted, AssertQuiesced, RecordQuiesced,
     WriteIntent, CopyBackup, WriteCandidate, WritePrepared, RecordPrepared
<1>3. CASE Publish
  BY <1>3 DEF Publish, PublishCandidate, WritePublished, RecordPublished, VerifyNew,
     RecordVerified, Commit, RecordCompleted
<1>4. CASE Undo
  BY <1>4 DEF Undo, RestoreOld, WriteRestored, CheckRestored, FinalizeRollback,
     RecordRolledBack, RecordFailClosed
<1>5. CASE Rollback BY <1>5 DEF Rollback, CopyManualRestore, RenameManualRestore, CloseRollback
<1>6. CASE Reconcile
  BY <1>6 DEF Reconcile, CompleteJournal, BridgePrepared, RecordBackward, CommitForward,
     CommitBackward
<1>7. CASE Die BY <1>7 DEF Die
<1> QED BY <1>1, <1>2, <1>3, <1>4, <1>5, <1>6, <1>7 DEF Next

\* A step moves at most the switch of the operation whose process takes it.
LEMMA StageStep ==
  ASSUME IInv, Next
  PROVE  Switch!SwitchNext \/ UNCHANGED [op \in Ops |-> Stage(op)]
<1>1. ASSUME NEW op \in Ops, op # holder PROVE Stage(op)' = Stage(op)
  BY <1>1, Others DEF IInv, Stage
<1>2. CASE holder \notin Ops BY <1>1, <1>2
<1>3. ASSUME NEW own \in Ops, own = holder
      PROVE  Switch!SwitchNext \/ UNCHANGED [op \in Ops |-> Stage(op)]
  <2>1. \/ Stage(own)' = Stage(own)
        \/ Stage(own)' = "off"
        \/ Stage(own) = "pending" /\ Stage(own)' = "on" /\ config = Old
    BY <1>3, HolderTurns
  <2>2. \A op \in Ops : config = Old => Stage(op) # "on" BY OpsAssumption DEF Stage
  <2>3. \A op \in Ops \ {own} : Stage(op)' = Stage(op) BY <1>1, <1>3
  <2> DEFINE now == [op \in Ops |-> Stage(op)]
  <2>4. \A op \in Ops : now[op] = Stage(op) /\ now'[op] = Stage(op)' OBVIOUS
  <2>5. CASE Stage(own)' = Stage(own) BY <2>3, <2>5
  <2>6. CASE Stage(own)' # Stage(own)
    <3>1. now' = [now EXCEPT ![own] = Stage(own)'] BY <2>3
    <3>2. Stage(own) \in {"pending", "on", "off"} BY DEF Stage
    <3>3. CASE Stage(own)' = "off"
      BY <1>3, <2>4, <2>6, <3>1, <3>2, <3>3 DEF Switch!SwitchNext, Switch!TurnOff
    <3>4. CASE Stage(own) = "pending" /\ Stage(own)' = "on" /\ config = Old
      BY <1>3, <2>2, <2>4, <3>1, <3>4 DEF Switch!SwitchNext, Switch!TurnOn
    <3> QED BY <2>1, <2>6, <3>3, <3>4
  <2> QED BY <2>5, <2>6
<1> QED BY <1>2, <1>3

\* Mapped through Stage, a behaviour of the files is one of ConfigSwitch: no
\* configuration comes into force twice, or while another one's is.
THEOREM SwitchRefined == Spec => ImplementsSwitch
<1>1. Init => Switch!SwitchInit
  BY OpsAssumption DEF Init, Switch!SwitchInit, Stage
<1>2. IInv /\ [Next]_vars => [Switch!SwitchNext]_([op \in Ops |-> Stage(op)])
  <2>1. ASSUME UNCHANGED vars PROVE UNCHANGED [op \in Ops |-> Stage(op)]
    BY <2>1 DEF vars, files, Stage
  <2> QED BY <2>1, StageStep
<1> QED BY <1>1, <1>2, UpgradeSafe, PTL DEF Spec, ImplementsSwitch, Switch!SwitchSpec
=============================================================================
