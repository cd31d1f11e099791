----------------------- MODULE ReleaseAdmissionProofs -----------------------
(***************************************************************************)
(* What module ReleaseAdmission promises, proved for every sequence of     *)
(* acceptance operations, any number of starts of the services and any     *)
(* number of failed calls and deaths of the commander.                     *)
(*                                                                         *)
(* Nothing changes on disk while a lease is held (Exclusive), so a promise *)
(* about leases is one about the files and the journal alone.  For these   *)
(* Record says what each journal row implies, and Place what the commander *)
(* has already written when it is between two writes: a death keeps Record *)
(* and forgets Place.                                                      *)
(***************************************************************************)
EXTENDS ReleaseAdmission, TLAPS

HoldSteps == {"holdState", "holdMarker", "holdResult", "remark", "restate"}
MintSteps == {"mintSecret", "mintAcceptance", "mintState"}
DropSteps == {"dropAcceptance", "dropSecret", "consumed"}
OpenedSteps == {"openPrepared", "unmark", "openResult"}

Exclusive == step # "idle" => \A role \in Roles : lease[role] = "none"

Record ==
    /\ "hold_result" \in rows => "hold_intent" \in rows
    /\ "mint_intent" \in rows => "hold_result" \in rows
    /\ "minted" \in rows => "mint_intent" \in rows
    /\ session # "none" => "minted" \in rows
    /\ "consumed" \in rows => "minted" \in rows /\ completed = Len(Operations)
    /\ "open_intent" \in rows => "consumed" \in rows
    /\ pending => completed < Len(Operations)
    /\ active => pending /\ NextIn({"six_live_reads"})

Place ==
    /\ step \in HoldSteps => "hold_intent" \in rows
    /\ step \in HoldSteps \cup {"holdIntent"} => admission.mode = "held"
    /\ step \in MintSteps \cup {"mintIntent"} =>
          "hold_result" \in rows /\ "minted" \notin rows /\ admission.mode = "held"
    /\ step \in MintSteps \cup {"minted"} => "mint_intent" \in rows
    /\ step = "activate" => pending /\ NextIn({"six_live_reads"})
    /\ step \in {"deactivate", "operationResult"} => pending
    /\ step = "operationResult" => ~active
    /\ step \in DropSteps => "minted" \in rows /\ completed = Len(Operations)
    /\ step \in {"dropSecret", "consumed"} => ~acceptance
    /\ step = "consumed" => ~secret
    /\ step \in OpenedSteps \cup {"openIntent", "openState"} => "consumed" \in rows
    /\ step \in OpenedSteps \cup {"openState"} => "open_intent" \in rows
    /\ step \in OpenedSteps => admission.mode = "open"
    /\ step \in {"unmark", "openResult"} => "open_prepared" \in rows

IInv ==
    /\ TypeOK /\ Exclusive /\ Record /\ Place
    /\ OpenIsEarned /\ WorkerWasAccepted /\ HeldReadIsPending /\ OpeningIsOnRecord /\ PermitIsSpent

-----------------------------------------------------------------------------
(* What is changed under which lock                                        *)

Quiet == \A role \in Roles : lease[role] = "none"

\* A step of a service, the clock, a failure or a death writes nothing.
LEMMA NothingWritten ==
  ASSUME Service \/ Expire \/ Abort \/ Die
  PROVE  /\ UNCHANGED <<files, journal>>
         /\ step' \in {step, "idle"} /\ session' \in {session, "none"}
<1>1. ASSUME NEW role \in Roles, \/ StartService(role) \/ StopService(role) \/ AdmitWork(role)
                                \/ AdmitHeldRead(role) \/ ReleaseLease(role)
      PROVE  UNCHANGED <<files, journal, step, session>>
  BY <1>1 DEF StartService, StopService, AdmitWork, AdmitHeldRead, ReleaseLease, Acquire
<1>2. CASE Expire BY <1>2 DEF Expire
<1>3. CASE Abort BY <1>3 DEF Abort
<1>4. CASE Die BY <1>4 DEF Die
<1> QED BY <1>1, <1>2, <1>3, <1>4 DEF Service

\* The commander writes only while nobody holds a lease, and grants none.
LEMMA Locked ==
  ASSUME Exclusive, Hold \/ Acceptance \/ Opening
  PROVE  Quiet /\ UNCHANGED lease
<1> USE DEF Exclusive, Quiet, LockFree, Write, services
<1>1. CASE Hold
  BY <1>1 DEF Hold, BeginHold, ResumeHold, HoldIntent, HoldResult, HoldState, HoldMarker
<1>2. CASE Acceptance
  BY <1>2 DEF Acceptance, Mint, MintIntent, MintSecret, MintAcceptance, MintState,
     ConfirmMint, Minted, Consume, Authorize, Activate, Complete, Deactivate,
     OperationResult, FinishPermit, DropAcceptance, DropSecret, Consumed
<1>3. CASE Opening
  BY <1>3 DEF Opening, PublishOpen, OpenIntent, OpenState, OpenPrepared, Unmark,
     ConfirmOpen, OpenResult
<1> QED BY <1>1, <1>2, <1>3

LEMMA NextCases ==
  ASSUME Next
  PROVE  Service \/ Expire \/ Hold \/ Acceptance \/ Opening \/ Abort \/ Die
BY DEF Next

LEMMA ExclusiveStep == ASSUME TypeOK, Exclusive, Next PROVE Exclusive'
<1>1. CASE Hold \/ Acceptance \/ Opening BY <1>1, Locked DEF Exclusive, Quiet
<1>2. ASSUME NEW role \in Roles, StartService(role) \/ StopService(role) PROVE Exclusive'
  BY <1>2 DEF StartService, StopService, Exclusive, TypeOK
<1>3. ASSUME NEW role \in Roles, AdmitWork(role) \/ AdmitHeldRead(role) PROVE Exclusive'
  BY <1>3 DEF AdmitWork, AdmitHeldRead, Acquire, Exclusive
<1>4. ASSUME NEW role \in Roles, ReleaseLease(role) PROVE Exclusive'
  BY <1>4 DEF ReleaseLease, Exclusive, TypeOK
<1>5. CASE Expire BY <1>5 DEF Expire, Exclusive, services
<1>6. CASE Abort \/ Die BY <1>6 DEF Abort, Die, Exclusive
<1> QED BY <1>1, <1>2, <1>3, <1>4, <1>5, <1>6, NextCases DEF Service

-----------------------------------------------------------------------------
(* Types                                                                   *)

LEMMA Stamps ==
  ASSUME NEW release \in {"candidate", "main"}, NEW stamp \in Generations
  PROVE  /\ Held(release, stamp) \in [mode : {"held", "open"}, release : {"candidate", "main"},
                                     stamp : Generations]
         /\ Open(stamp) \in [mode : {"held", "open"}, release : {"candidate", "main"},
                             stamp : Generations]
         /\ Held(release, stamp).mode = "held" /\ Open(stamp).mode = "open"
         /\ Open(stamp).stamp = stamp
BY DEF Held, Open

LEMMA StoppedTyped == Stopped \in Generations
BY BoundsAssumption DEF Stopped, Generations

FilesTyped ==
    /\ admission \in [mode : {"held", "open"}, release : {"candidate", "main"}, stamp : Generations]
    /\ marker \in {"hold", "postmerge", "absent"}
    /\ secret \in BOOLEAN /\ acceptance \in BOOLEAN /\ active \in BOOLEAN

JournalTyped ==
    /\ rows \subseteq RowTypes
    /\ claims \in Generations
    /\ completed \in 0..Len(Operations)
    /\ pending \in BOOLEAN

OthersTyped ==
    /\ expired \in BOOLEAN
    /\ generation \in Generations /\ started \in 0..MaxGeneration
    /\ lease \in [Roles -> {"none", "ordinary", "heldRead"}]
    /\ step \in Steps
    /\ session \in {"none", "fresh", "resumed"}
    /\ faults \in 0..MaxFaults

LEMMA FilesStep == ASSUME IInv, Next PROVE FilesTyped'
<1> USE Stamps, StoppedTyped DEF IInv, TypeOK, FilesTyped, Write, files
<1>1. CASE Service \/ Expire \/ Abort \/ Die BY <1>1, NothingWritten
<1>2. CASE Hold
  BY <1>2 DEF Hold, BeginHold, ResumeHold, HoldIntent, HoldResult, HoldState, HoldMarker
<1>3. CASE Acceptance
  <2>1. CASE Mint BY <2>1 DEF Mint
  <2>2. CASE MintIntent BY <2>2 DEF MintIntent
  <2>3. CASE MintSecret BY <2>3 DEF MintSecret
  <2>4. CASE MintAcceptance BY <2>4 DEF MintAcceptance
  <2>5. CASE MintState BY <2>5 DEF MintState
  <2>6. CASE ConfirmMint BY <2>6 DEF ConfirmMint
  <2>7. CASE Minted BY <2>7 DEF Minted
  <2>8. CASE Consume BY <2>8 DEF Consume
  <2>9. CASE Authorize BY <2>9 DEF Authorize
  <2>10. CASE Activate BY <2>10 DEF Activate
  <2>11. CASE Complete BY <2>11 DEF Complete
  <2>12. CASE Deactivate BY <2>12 DEF Deactivate
  <2>13. CASE OperationResult BY <2>13 DEF OperationResult
  <2>14. CASE FinishPermit BY <2>14 DEF FinishPermit
  <2>15. CASE DropAcceptance BY <2>15 DEF DropAcceptance
  <2>16. CASE DropSecret BY <2>16 DEF DropSecret
  <2>17. CASE Consumed BY <2>17 DEF Consumed
  <2> QED BY <1>3, <2>1, <2>2, <2>3, <2>4, <2>5, <2>6, <2>7, <2>8, <2>9, <2>10, <2>11,
        <2>12, <2>13, <2>14, <2>15, <2>16, <2>17 DEF Acceptance
<1>4. CASE Opening
  BY <1>4 DEF Opening, PublishOpen, OpenIntent, OpenState, OpenPrepared, Unmark,
     ConfirmOpen, OpenResult
<1> QED BY <1>1, <1>2, <1>3, <1>4, NextCases

LEMMA JournalStep == ASSUME IInv, Next PROVE JournalTyped'
<1> USE DEF IInv, TypeOK, JournalTyped, Write, AddRow, RowTypes, journal
<1>1. CASE Service \/ Expire \/ Abort \/ Die BY <1>1, NothingWritten
<1>2. CASE Hold
  BY <1>2 DEF Hold, BeginHold, ResumeHold, HoldIntent, HoldResult, HoldState, HoldMarker
<1>3. CASE Acceptance
  <2>1. CASE Mint BY <2>1 DEF Mint
  <2>2. CASE MintIntent BY <2>2 DEF MintIntent
  <2>3. CASE MintSecret BY <2>3 DEF MintSecret
  <2>4. CASE MintAcceptance BY <2>4 DEF MintAcceptance
  <2>5. CASE MintState BY <2>5 DEF MintState
  <2>6. CASE ConfirmMint BY <2>6 DEF ConfirmMint
  <2>7. CASE Minted BY <2>7 DEF Minted
  <2>8. CASE Consume BY <2>8 DEF Consume
  <2>9. CASE Authorize BY <2>9 DEF Authorize
  <2>10. CASE Activate BY <2>10 DEF Activate
  <2>11. CASE Complete BY <2>11 DEF Complete
  <2>12. CASE Deactivate BY <2>12 DEF Deactivate
  <2>13. CASE OperationResult
    <3>1. completed' = completed + 1 /\ completed < Len(Operations) /\ Len(Operations) \in Nat
      BY <2>13, OperationsAssumption DEF OperationResult, Place, Record
    <3>2. completed' \in 0..Len(Operations) BY <3>1
    <3>3. UNCHANGED <<rows, claims>> /\ pending' = FALSE BY <2>13 DEF OperationResult
    <3> QED BY <3>2, <3>3
  <2>14. CASE FinishPermit BY <2>14 DEF FinishPermit
  <2>15. CASE DropAcceptance BY <2>15 DEF DropAcceptance
  <2>16. CASE DropSecret BY <2>16 DEF DropSecret
  <2>17. CASE Consumed BY <2>17 DEF Consumed
  <2> QED BY <1>3, <2>1, <2>2, <2>3, <2>4, <2>5, <2>6, <2>7, <2>8, <2>9, <2>10, <2>11,
        <2>12, <2>13, <2>14, <2>15, <2>16, <2>17 DEF Acceptance
<1>4. CASE Opening
  BY <1>4 DEF Opening, PublishOpen, OpenIntent, OpenState, OpenPrepared, Unmark,
     ConfirmOpen, OpenResult
<1> QED BY <1>1, <1>2, <1>3, <1>4, NextCases

LEMMA OthersStep == ASSUME IInv, Next PROVE OthersTyped'
<1> USE BoundsAssumption
    DEF IInv, TypeOK, OthersTyped, Write, Steps, Generations, services
<1>1. ASSUME NEW role \in Roles, StartService(role) PROVE OthersTyped'
  BY <1>1 DEF StartService
<1>2. ASSUME NEW role \in Roles, StopService(role) PROVE OthersTyped'
  BY <1>2 DEF StopService
<1>3. ASSUME NEW role \in Roles, AdmitWork(role) \/ AdmitHeldRead(role) PROVE OthersTyped'
  BY <1>3 DEF AdmitWork, AdmitHeldRead, Acquire
<1>4. ASSUME NEW role \in Roles, ReleaseLease(role) PROVE OthersTyped' BY <1>4 DEF ReleaseLease
<1>5. CASE Expire BY <1>5 DEF Expire
<1>6. CASE Abort \/ Die BY <1>6 DEF Abort, Die
<1>7. CASE Hold
  <2>1. CASE BeginHold BY <2>1, StoppedTyped DEF BeginHold
  <2>2. CASE ResumeHold BY <2>2, StoppedTyped DEF ResumeHold
  <2>3. CASE HoldIntent BY <2>3, StoppedTyped DEF HoldIntent
  <2>4. CASE HoldResult BY <2>4, StoppedTyped DEF HoldResult
  <2>5. CASE HoldState("holdState", "holdMarker") BY <2>5, StoppedTyped DEF HoldState
  <2>6. CASE HoldMarker("holdMarker", "holdResult") BY <2>6, StoppedTyped DEF HoldMarker
  <2>7. CASE HoldMarker("remark", "restate") BY <2>7, StoppedTyped DEF HoldMarker
  <2>8. CASE HoldState("restate", "holdResult") BY <2>8, StoppedTyped DEF HoldState
  <2> QED BY <1>7, <2>1, <2>2, <2>3, <2>4, <2>5, <2>6, <2>7, <2>8 DEF Hold
<1>8. CASE Acceptance
  <2>1. CASE Mint BY <2>1, StoppedTyped DEF Mint
  <2>2. CASE MintIntent BY <2>2, StoppedTyped DEF MintIntent
  <2>3. CASE MintSecret BY <2>3, StoppedTyped DEF MintSecret
  <2>4. CASE MintAcceptance BY <2>4, StoppedTyped DEF MintAcceptance
  <2>5. CASE MintState BY <2>5, StoppedTyped DEF MintState
  <2>6. CASE ConfirmMint BY <2>6, StoppedTyped DEF ConfirmMint
  <2>7. CASE Minted BY <2>7, StoppedTyped DEF Minted
  <2>8. CASE Consume BY <2>8, StoppedTyped DEF Consume
  <2>9. CASE Authorize BY <2>9, StoppedTyped DEF Authorize
  <2>10. CASE Activate BY <2>10, StoppedTyped DEF Activate
  <2>11. CASE Complete BY <2>11, StoppedTyped DEF Complete
  <2>12. CASE Deactivate BY <2>12, StoppedTyped DEF Deactivate
  <2>13. CASE OperationResult BY <2>13, StoppedTyped DEF OperationResult
  <2>14. CASE FinishPermit BY <2>14, StoppedTyped DEF FinishPermit
  <2>15. CASE DropAcceptance BY <2>15, StoppedTyped DEF DropAcceptance
  <2>16. CASE DropSecret BY <2>16, StoppedTyped DEF DropSecret
  <2>17. CASE Consumed BY <2>17, StoppedTyped DEF Consumed
  <2> QED BY <1>8, <2>1, <2>2, <2>3, <2>4, <2>5, <2>6, <2>7, <2>8, <2>9, <2>10, <2>11,
        <2>12, <2>13, <2>14, <2>15, <2>16, <2>17 DEF Acceptance
<1>9. CASE Opening
  <2>1. CASE PublishOpen BY <2>1, StoppedTyped DEF PublishOpen
  <2>2. CASE OpenIntent BY <2>2, StoppedTyped DEF OpenIntent
  <2>3. CASE OpenState BY <2>3, StoppedTyped DEF OpenState
  <2>4. CASE OpenPrepared BY <2>4, StoppedTyped DEF OpenPrepared
  <2>5. CASE Unmark BY <2>5, StoppedTyped DEF Unmark
  <2>6. CASE ConfirmOpen BY <2>6, StoppedTyped DEF ConfirmOpen
  <2>7. CASE OpenResult BY <2>7, StoppedTyped DEF OpenResult
  <2> QED BY <1>9, <2>1, <2>2, <2>3, <2>4, <2>5, <2>6, <2>7 DEF Opening
<1> QED BY <1>1, <1>2, <1>3, <1>4, <1>5, <1>6, <1>7, <1>8, <1>9, NextCases DEF Service

LEMMA TypeStep == ASSUME IInv, Next PROVE TypeOK'
BY FilesStep, JournalStep, OthersStep DEF FilesTyped, JournalTyped, OthersTyped, TypeOK

-----------------------------------------------------------------------------
(* The journal and where the commander is                                  *)

LEMMA RecordStep == ASSUME IInv, Next PROVE Record'
<1> USE OperationsAssumption DEF IInv, TypeOK, Record, Place, Write, AddRow, LockFree, files, journal,
      HoldSteps, MintSteps, DropSteps, OpenedSteps
<1>1. CASE Service \/ Expire \/ Abort \/ Die BY <1>1, NothingWritten DEF NextIn
<1>2. CASE Hold
  <2>1. CASE BeginHold BY <2>1 DEF NextIn, BeginHold
  <2>2. CASE ResumeHold BY <2>2 DEF NextIn, ResumeHold
  <2>3. CASE HoldIntent BY <2>3 DEF NextIn, HoldIntent
  <2>4. CASE HoldResult BY <2>4 DEF NextIn, HoldResult
  <2>5. CASE HoldState("holdState", "holdMarker") BY <2>5 DEF NextIn, HoldState
  <2>6. CASE HoldMarker("holdMarker", "holdResult") BY <2>6 DEF NextIn, HoldMarker
  <2>7. CASE HoldMarker("remark", "restate") BY <2>7 DEF NextIn, HoldMarker
  <2>8. CASE HoldState("restate", "holdResult") BY <2>8 DEF NextIn, HoldState
  <2> QED BY <1>2, <2>1, <2>2, <2>3, <2>4, <2>5, <2>6, <2>7, <2>8 DEF NextIn, Hold
<1>3. CASE Acceptance
  <2>1. CASE Mint BY <2>1 DEF NextIn, Mint
  <2>2. CASE MintIntent BY <2>2 DEF NextIn, MintIntent
  <2>3. CASE MintSecret BY <2>3 DEF NextIn, MintSecret
  <2>4. CASE MintAcceptance BY <2>4 DEF NextIn, MintAcceptance
  <2>5. CASE MintState BY <2>5 DEF NextIn, MintState
  <2>6. CASE ConfirmMint BY <2>6 DEF NextIn, ConfirmMint
  <2>7. CASE Minted BY <2>7 DEF NextIn, Minted
  <2>8. CASE Consume BY <2>8 DEF NextIn, Consume
  <2>9. CASE Authorize BY <2>9 DEF NextIn, Authorize
  <2>10. CASE Activate BY <2>10 DEF NextIn, Activate
  <2>11. CASE Complete BY <2>11 DEF NextIn, Complete
  <2>12. CASE Deactivate BY <2>12 DEF NextIn, Deactivate
  <2>13. CASE OperationResult BY <2>13 DEF NextIn, OperationResult
  <2>14. CASE FinishPermit BY <2>14 DEF NextIn, FinishPermit
  <2>15. CASE DropAcceptance BY <2>15 DEF NextIn, DropAcceptance
  <2>16. CASE DropSecret BY <2>16 DEF NextIn, DropSecret
  <2>17. CASE Consumed BY <2>17 DEF NextIn, Consumed
  <2> QED BY <1>3, <2>1, <2>2, <2>3, <2>4, <2>5, <2>6, <2>7, <2>8, <2>9, <2>10, <2>11,
        <2>12, <2>13, <2>14, <2>15, <2>16, <2>17 DEF NextIn, Acceptance
<1>4. CASE Opening
  <2>1. CASE PublishOpen BY <2>1 DEF NextIn, PublishOpen
  <2>2. CASE OpenIntent BY <2>2 DEF NextIn, OpenIntent
  <2>3. CASE OpenState BY <2>3 DEF NextIn, OpenState
  <2>4. CASE OpenPrepared BY <2>4 DEF NextIn, OpenPrepared
  <2>5. CASE Unmark BY <2>5 DEF NextIn, Unmark
  <2>6. CASE ConfirmOpen BY <2>6 DEF NextIn, ConfirmOpen
  <2>7. CASE OpenResult BY <2>7 DEF NextIn, OpenResult
  <2> QED BY <1>4, <2>1, <2>2, <2>3, <2>4, <2>5, <2>6, <2>7 DEF NextIn, Opening
<1> QED BY <1>1, <1>2, <1>3, <1>4, NextCases

LEMMA PlaceStep == ASSUME IInv, Next PROVE Place'
<1> USE Stamps, StoppedTyped DEF IInv, TypeOK, Record, Place, Write, AddRow, LockFree, files, journal,
      HoldSteps, MintSteps, DropSteps, OpenedSteps
<1>1. CASE Service \/ Expire \/ Abort \/ Die BY <1>1, NothingWritten DEF NextIn
<1>2. CASE Hold
  <2>1. CASE BeginHold BY <2>1 DEF NextIn, BeginHold
  <2>2. CASE ResumeHold BY <2>2 DEF NextIn, ResumeHold
  <2>3. CASE HoldIntent BY <2>3 DEF NextIn, HoldIntent
  <2>4. CASE HoldResult BY <2>4 DEF NextIn, HoldResult
  <2>5. CASE HoldState("holdState", "holdMarker") BY <2>5 DEF NextIn, HoldState
  <2>6. CASE HoldMarker("holdMarker", "holdResult") BY <2>6 DEF NextIn, HoldMarker
  <2>7. CASE HoldMarker("remark", "restate") BY <2>7 DEF NextIn, HoldMarker
  <2>8. CASE HoldState("restate", "holdResult") BY <2>8 DEF NextIn, HoldState
  <2> QED BY <1>2, <2>1, <2>2, <2>3, <2>4, <2>5, <2>6, <2>7, <2>8 DEF NextIn, Hold
<1>3. CASE Acceptance
  <2>1. CASE Mint BY <2>1 DEF NextIn, Mint
  <2>2. CASE MintIntent BY <2>2 DEF NextIn, MintIntent
  <2>3. CASE MintSecret BY <2>3 DEF NextIn, MintSecret
  <2>4. CASE MintAcceptance BY <2>4 DEF NextIn, MintAcceptance
  <2>5. CASE MintState BY <2>5 DEF NextIn, MintState
  <2>6. CASE ConfirmMint BY <2>6 DEF NextIn, ConfirmMint
  <2>7. CASE Minted BY <2>7 DEF NextIn, Minted
  <2>8. CASE Consume BY <2>8 DEF NextIn, Consume
  <2>9. CASE Authorize BY <2>9 DEF NextIn, Authorize
  <2>10. CASE Activate BY <2>10 DEF NextIn, Activate
  <2>11. CASE Complete BY <2>11 DEF NextIn, Complete
  <2>12. CASE Deactivate BY <2>12 DEF NextIn, Deactivate
  <2>13. CASE OperationResult BY <2>13 DEF NextIn, OperationResult
  <2>14. CASE FinishPermit BY <2>14 DEF NextIn, FinishPermit
  <2>15. CASE DropAcceptance BY <2>15 DEF NextIn, DropAcceptance
  <2>16. CASE DropSecret BY <2>16 DEF NextIn, DropSecret
  <2>17. CASE Consumed BY <2>17 DEF NextIn, Consumed
  <2> QED BY <1>3, <2>1, <2>2, <2>3, <2>4, <2>5, <2>6, <2>7, <2>8, <2>9, <2>10, <2>11,
        <2>12, <2>13, <2>14, <2>15, <2>16, <2>17 DEF NextIn, Acceptance
<1>4. CASE Opening
  <2>1. CASE PublishOpen BY <2>1 DEF NextIn, PublishOpen
  <2>2. CASE OpenIntent BY <2>2 DEF NextIn, OpenIntent
  <2>3. CASE OpenState BY <2>3 DEF NextIn, OpenState
  <2>4. CASE OpenPrepared BY <2>4 DEF NextIn, OpenPrepared
  <2>5. CASE Unmark BY <2>5 DEF NextIn, Unmark
  <2>6. CASE ConfirmOpen BY <2>6 DEF NextIn, ConfirmOpen, OpeningIsOnRecord
  <2>7. CASE OpenResult BY <2>7 DEF NextIn, OpenResult
  <2> QED BY <1>4, <2>1, <2>2, <2>3, <2>4, <2>5, <2>6, <2>7 DEF NextIn, Opening
<1> QED BY <1>1, <1>2, <1>3, <1>4, NextCases

-----------------------------------------------------------------------------
(* What the files promise                                                  *)

OnDisk == OpenIsEarned /\ OpeningIsOnRecord /\ PermitIsSpent

LEMMA OnDiskStep == ASSUME IInv, Next PROVE OnDisk'
<1> USE Stamps, StoppedTyped DEF IInv, TypeOK, Record, Place, OnDisk, OpenIsEarned,
      OpeningIsOnRecord, PermitIsSpent, Write, AddRow, LockFree, files, journal, HoldSteps,
      MintSteps, DropSteps, OpenedSteps
<1>1. CASE Service \/ Expire \/ Abort \/ Die BY <1>1, NothingWritten
<1>2. CASE Hold
  <2>1. CASE BeginHold BY <2>1 DEF BeginHold
  <2>2. CASE ResumeHold BY <2>2 DEF ResumeHold
  <2>3. CASE HoldIntent BY <2>3 DEF HoldIntent
  <2>4. CASE HoldResult BY <2>4 DEF HoldResult
  <2>5. CASE HoldState("holdState", "holdMarker") BY <2>5 DEF HoldState
  <2>6. CASE HoldMarker("holdMarker", "holdResult") BY <2>6 DEF HoldMarker
  <2>7. CASE HoldMarker("remark", "restate") BY <2>7 DEF HoldMarker
  <2>8. CASE HoldState("restate", "holdResult") BY <2>8 DEF HoldState
  <2> QED BY <1>2, <2>1, <2>2, <2>3, <2>4, <2>5, <2>6, <2>7, <2>8 DEF Hold
<1>3. CASE Acceptance
  <2>1. CASE Mint BY <2>1 DEF Mint
  <2>2. CASE MintIntent BY <2>2 DEF MintIntent
  <2>3. CASE MintSecret BY <2>3 DEF MintSecret
  <2>4. CASE MintAcceptance BY <2>4 DEF MintAcceptance
  <2>5. CASE MintState BY <2>5 DEF MintState
  <2>6. CASE ConfirmMint BY <2>6 DEF ConfirmMint
  <2>7. CASE Minted BY <2>7 DEF Minted
  <2>8. CASE Consume BY <2>8 DEF Consume
  <2>9. CASE Authorize BY <2>9 DEF Authorize
  <2>10. CASE Activate BY <2>10 DEF Activate
  <2>11. CASE Complete BY <2>11 DEF Complete
  <2>12. CASE Deactivate BY <2>12 DEF Deactivate
  <2>13. CASE OperationResult BY <2>13 DEF OperationResult
  <2>14. CASE FinishPermit BY <2>14 DEF FinishPermit
  <2>15. CASE DropAcceptance BY <2>15 DEF DropAcceptance
  <2>16. CASE DropSecret BY <2>16 DEF DropSecret
  <2>17. CASE Consumed BY <2>17 DEF Consumed
  <2> QED BY <1>3, <2>1, <2>2, <2>3, <2>4, <2>5, <2>6, <2>7, <2>8, <2>9, <2>10, <2>11,
        <2>12, <2>13, <2>14, <2>15, <2>16, <2>17 DEF Acceptance
<1>4. CASE Opening
  <2>1. CASE PublishOpen BY <2>1 DEF PublishOpen
  <2>2. CASE OpenIntent BY <2>2 DEF OpenIntent
  <2>3. CASE OpenState BY <2>3 DEF OpenState
  <2>4. CASE OpenPrepared BY <2>4 DEF OpenPrepared
  <2>5. CASE Unmark BY <2>5 DEF Unmark
  <2>6. CASE ConfirmOpen BY <2>6 DEF ConfirmOpen
  <2>7. CASE OpenResult BY <2>7 DEF OpenResult
  <2> QED BY <1>4, <2>1, <2>2, <2>3, <2>4, <2>5, <2>6, <2>7 DEF Opening
<1> QED BY <1>1, <1>2, <1>3, <1>4, NextCases

LEMMA WorkerStep == ASSUME IInv, Next PROVE WorkerWasAccepted'
<1> USE DEF IInv, TypeOK, WorkerWasAccepted
<1>1. CASE Hold \/ Acceptance \/ Opening
  BY <1>1, Locked DEF Quiet
<1>2. ASSUME NEW role \in Roles, StartService(role) \/ StopService(role) PROVE WorkerWasAccepted'
  <2>1. UNCHANGED <<files, journal>> BY <1>2 DEF StartService, StopService
  <2>2. ASSUME NEW other \in Roles, lease'[other] = "ordinary"
        PROVE  lease[other] = "ordinary" /\ generation'[other] = generation[other]
    <3>1. lease' = [lease EXCEPT ![role] = "none"] BY <1>2 DEF StartService, StopService
    <3>2. other # role BY <2>2, <3>1
    <3> QED BY <1>2, <2>2, <3>1, <3>2 DEF StartService, StopService, Generations
  <2> QED BY <2>1, <2>2 DEF files, journal
<1>3. ASSUME NEW role \in Roles, AdmitWork(role) PROVE WorkerWasAccepted'
  <2>1. admission = Open(generation) /\ marker = "absent" BY <1>3 DEF AdmitWork
  <2>2. admission.mode = "open" BY <2>1, Stamps
  <2>3. admission = Open(claims) BY <2>2 DEF OpenIsEarned
  <2>4. generation = claims
    <3>1. Open(generation).stamp = generation BY Stamps
    <3>2. Open(claims).stamp = claims BY Stamps
    <3> QED BY <2>1, <2>3, <3>1, <3>2
  <2> QED BY <1>3, <2>1, <2>4 DEF AdmitWork, Acquire, OpeningIsOnRecord, files, journal
<1>4. ASSUME NEW role \in Roles, AdmitHeldRead(role) PROVE WorkerWasAccepted'
  BY <1>4 DEF AdmitHeldRead, Acquire, files, journal
<1>5. ASSUME NEW role \in Roles, ReleaseLease(role) PROVE WorkerWasAccepted'
  BY <1>5 DEF ReleaseLease, files, journal
<1>6. CASE Expire \/ Abort \/ Die BY <1>6 DEF Expire, Abort, Die, files, journal, services
<1> QED BY <1>1, <1>2, <1>3, <1>4, <1>5, <1>6, NextCases DEF Service

LEMMA HeldReadStep == ASSUME IInv, Next PROVE HeldReadIsPending'
<1> USE DEF IInv, TypeOK, HeldReadIsPending, NextIn
<1>1. CASE Hold \/ Acceptance \/ Opening
  BY <1>1, Locked DEF Quiet
<1>2. ASSUME NEW role \in Roles, StartService(role) \/ StopService(role) PROVE HeldReadIsPending'
  BY <1>2 DEF StartService, StopService, files, journal
<1>3. ASSUME NEW role \in Roles, AdmitWork(role) PROVE HeldReadIsPending'
  BY <1>3 DEF AdmitWork, Acquire, files, journal
<1>4. ASSUME NEW role \in Roles, AdmitHeldRead(role) PROVE HeldReadIsPending'
  <2>1. admission.mode = "held" /\ acceptance /\ active BY <1>4, Stamps DEF AdmitHeldRead
  <2>2. pending /\ NextIn({"six_live_reads"}) /\ "consumed" \notin rows
    BY <2>1 DEF Record, PermitIsSpent
  <2> QED BY <1>4, <2>1, <2>2 DEF AdmitHeldRead, Acquire, files, journal
<1>5. ASSUME NEW role \in Roles, ReleaseLease(role) PROVE HeldReadIsPending'
  BY <1>5 DEF ReleaseLease, files, journal
<1>6. CASE Expire \/ Abort \/ Die BY <1>6 DEF Expire, Abort, Die, files, journal, services
<1> QED BY <1>1, <1>2, <1>3, <1>4, <1>5, <1>6, NextCases DEF Service

-----------------------------------------------------------------------------
(* Theorems                                                                *)

LEMMA IInvInit == Init => IInv
<1> SUFFICES ASSUME Init PROVE IInv OBVIOUS
<1>1. TypeOK
  <2>1. Len(Operations) \in Nat BY OperationsAssumption
  <2>2. admission \in [mode : {"held", "open"}, release : {"candidate", "main"}, stamp : Generations]
    BY Stamps, StoppedTyped DEF Init
  <2>3. 0 \in 0..Len(Operations) /\ 0 \in 0..MaxGeneration /\ 0 \in 0..MaxFaults
    BY <2>1, BoundsAssumption
  <2>4. claims \in Generations /\ generation \in Generations BY StoppedTyped DEF Init
  <2> QED BY <2>2, <2>3, <2>4 DEF Init, TypeOK, Steps, RowTypes
<1>2. admission.mode = "held" BY Stamps, StoppedTyped DEF Init
<1>3. Exclusive /\ Record /\ Place
  BY <1>2 DEF Init, Exclusive, Record, Place, HoldSteps, MintSteps, DropSteps, OpenedSteps
<1>4. OpenIsEarned /\ WorkerWasAccepted /\ HeldReadIsPending /\ OpeningIsOnRecord /\ PermitIsSpent
  BY <1>2 DEF Init, OpenIsEarned, WorkerWasAccepted, HeldReadIsPending, OpeningIsOnRecord,
     PermitIsSpent
<1> QED BY <1>1, <1>3, <1>4 DEF IInv

LEMMA IInvStep == IInv /\ [Next]_vars => IInv'
<1>1. ASSUME IInv, Next PROVE IInv'
  <2>1. TypeOK /\ Exclusive BY <1>1 DEF IInv
  <2> QED BY <1>1, <2>1, TypeStep, ExclusiveStep, RecordStep, PlaceStep, OnDiskStep, WorkerStep,
             HeldReadStep DEF IInv, OnDisk
<1>2. ASSUME IInv, UNCHANGED vars PROVE IInv'
  BY <1>2 DEF IInv, vars, files, journal, services, TypeOK, Exclusive, Record, Place, NextIn,
     OpenIsEarned, WorkerWasAccepted, HeldReadIsPending, OpeningIsOnRecord, PermitIsSpent
<1> QED BY <1>1, <1>2

\* The inductive invariant.
THEOREM ReleaseSafe == Spec => []IInv
BY IInvInit, IInvStep, PTL DEF Spec

\* Every variable keeps its type.
THEOREM ReleaseTyped == Spec => []TypeOK
<1>1. IInv => TypeOK BY DEF IInv
<1> QED BY <1>1, ReleaseSafe, PTL

\* Intake is open only after a complete acceptance and for the generations it was
\* of, whatever failed before.
THEOREM OpeningIsEarned == Spec => []OpenIsEarned
<1>1. IInv => OpenIsEarned BY DEF IInv
<1> QED BY <1>1, ReleaseSafe, PTL

\* Durable work runs only in a generation that was accepted.
THEOREM WorkersWereAccepted == Spec => []WorkerWasAccepted
<1>1. IInv => WorkerWasAccepted BY DEF IInv
<1> QED BY <1>1, ReleaseSafe, PTL

\* A read admitted while HELD belongs to the pending operation.
THEOREM HeldReadsArePending == Spec => []HeldReadIsPending
<1>1. IInv => HeldReadIsPending BY DEF IInv
<1> QED BY <1>1, ReleaseSafe, PTL

\* A consumed permit has left no file that could admit a read.
THEOREM PermitsAreSpent == Spec => []PermitIsSpent
<1>1. IInv => PermitIsSpent BY DEF IInv
<1> QED BY <1>1, ReleaseSafe, PTL

\* What an opening needs to be recorded after a death is in the journal before the
\* marker goes.
THEOREM OpeningsAreOnRecord == Spec => []OpeningIsOnRecord
<1>1. IInv => OpeningIsOnRecord BY DEF IInv
<1> QED BY <1>1, ReleaseSafe, PTL

\* No control file changes while a service holds a lease.
THEOREM PublicationIsExclusive == Spec => PublicationCrossesNoWork
<1>1. IInv /\ [Next]_vars =>
        [UNCHANGED files \/ \A role \in Roles : lease[role] = "none"]_vars
  <2> SUFFICES ASSUME IInv, Next PROVE UNCHANGED files \/ Quiet BY DEF Quiet
  <2>1. CASE Service \/ Expire \/ Abort \/ Die BY <2>1, NothingWritten
  <2>2. CASE Hold \/ Acceptance \/ Opening BY <2>2, Locked DEF IInv
  <2> QED BY <2>1, <2>2, NextCases
<1> QED BY <1>1, ReleaseSafe, PTL DEF Spec, PublicationCrossesNoWork
=============================================================================
