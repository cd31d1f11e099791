------------------------ MODULE BuyerDispatchProofs ------------------------
(***************************************************************************)
(* The safety of BuyerDispatch, and that it implements AttemptOutcome,     *)
(* proved for every set of attempts, every number of chunks and of faults. *)
(*                                                                         *)
(* The argument: generations are distinct and only the highest is alive,   *)
(* so the job has one dispatch to follow; a verdict once in the tables     *)
(* stays there, an absent one because the revision has passed the one the  *)
(* attempt captured (Kept); so what the reconciliation of an attempt read  *)
(* is still so when its answer arrives (Resolved) and after (Reports).     *)
(***************************************************************************)
EXTENDS BuyerDispatch, TLAPS

\* A dispatch that was issued has a generation of its own.
Generations ==
    /\ \A a \in Attempts : dispatch[a].state = "absent" <=> dispatch[a].generation = 0
    /\ \A a, b \in Attempts :
          a # b /\ dispatch[a].generation = dispatch[b].generation =>
             dispatch[a].generation = 0

\* A dispatcher asks what became of its attempt only after it read the job.
Captured ==
    \A a \in Attempts :
       /\ dispatcher[a].seen <= job.revision
       /\ dispatcher[a].step = "idle" =>
             /\ dispatcher[a].seen = 0
             /\ call[a]["resolver"].phase = "idle"
             /\ call[a]["resolver"].tx = "none"
       /\ dispatcher[a].step # "idle" => dispatcher[a].seen > 0

\* The attempt is as it was told, for good.
Stands(a, answer) ==
    /\ answer \in Final => dispatch[a].state = answer
    /\ answer = "absent" =>
          dispatch[a].state = "absent" /\ dispatcher[a].seen \in 1..(job.revision - 1)

Resolved == \A a \in Attempts : Stands(a, call[a]["resolver"].tx)

Reports ==
    \A a \in Attempts :
       /\ Stands(a, told[a])
       /\ dispatcher[a].step # "ended" => told[a] = "none"

IInv == /\ TypeOK /\ OneLiveDispatch /\ JobFollowsNewest /\ AnswersMatchCommits
        /\ Generations /\ Captured /\ Resolved /\ Reports

-----------------------------------------------------------------------------
(* Types                                                                   *)

LEMMA PlanLength == Len(Plan) = RawChunks + CleanChunks + 2 /\ Len(<<Fail>>) = 1
<1> DEFINE n == RawChunks + CleanChunks + 2
<1>1. n \in Nat BY ChunksAssumption
<1>2. Plan = [i \in 1..n |-> Plan[i]] BY DEF Plan
<1>3. Len(Plan) = n BY <1>1, <1>2
<1> QED BY <1>3

LEMMA LegalWrites ==
  ASSUME NEW a \in Attempts, NEW w, MayApply(a, w)
  PROVE  w \in Writes
BY DEF MayApply, Writes

LEMMA CallTyped ==
  ASSUME TypeOK, NEW a \in Attempts, NEW l \in Lines, NEW c \in Calls,
         call' = [call EXCEPT ![a][l] = c]
  PROVE  call' \in [Attempts -> [Lines -> Calls]]
BY DEF TypeOK

LEMMA EndTyped ==
  ASSUME TypeOK, NEW a \in Attempts, NEW l \in Lines,
         NEW tx \in {"refused", "aborted"} \cup Results, Ends(a, l, tx)
  PROVE  call' \in [Attempts -> [Lines -> Calls]]
<1>1. call[a][l] \in Calls BY DEF TypeOK
<1>2. [phase |-> call[a][l].phase, tx |-> tx, answer |-> call[a][l].answer] \in Calls
  BY <1>1 DEF Calls
<1> QED BY <1>2, CallTyped DEF Ends, SetCall

LEMMA CallStepsTyped ==
  ASSUME TypeOK, NEW a \in Attempts, NEW l \in Lines, CallSteps(a, l) \/ CallFaults(a, l)
  PROVE  call' \in [Attempts -> [Lines -> Calls]]
<1>0. call[a][l] \in Calls BY DEF TypeOK
<1>1. CASE Reserve(a, l) BY <1>0, <1>1, CallTyped DEF Reserve, SetCall, Calls
<1>2. CASE NotReserved(a, l) BY <1>0, <1>2, CallTyped DEF NotReserved, SetCall, Calls
<1>3. CASE Executes(a, l)
  <2>1. CASE Ends(a, l, "ok")
    <3>1. "ok" \in Results BY DEF Results
    <3> QED BY <2>1, <3>1, EndTyped
  <2>2. CASE Ends(a, l, ReconciledState(a))
    <3>1. dispatch[a].state \in {"absent"} \cup Live \cup Final BY DEF TypeOK
    <3>2. ReconciledState(a) \in Results BY <3>1 DEF ReconciledState, Live, Final, Results
    <3> QED BY <2>2, <3>2, EndTyped
  <2> QED BY <1>3, <2>1, <2>2 DEF Executes
<1>4. CASE Refuses(a, l) BY <1>4, EndTyped DEF Refuses
<1>5. CASE Aborts(a, l) BY <1>5, EndTyped DEF Aborts
<1>6. CASE Replies(a, l) BY <1>0, <1>6, CallTyped DEF Replies, SetCall, Calls
<1>7. CASE TimesOut(a, l) BY <1>0, <1>7, CallTyped DEF TimesOut, SetCall, Calls
<1>8. CASE Correlates(a, l) BY <1>0, <1>8, CallTyped DEF Correlates, Correlated, SetCall, Calls
<1>9. CASE CorrelationLost(a, l) BY <1>0, <1>9, CallTyped DEF CorrelationLost, SetCall, Calls
<1> QED BY <1>1, <1>2, <1>3, <1>4, <1>5, <1>6, <1>7, <1>8, <1>9 DEF CallSteps, CallFaults

JobRows == [status : {"pending", "processing", "completed", "failed"}, revision : Nat \ {0}]
DispatchRows == [state : {"absent"} \cup Live \cup Final, generation : Nat]
RowTypes ==
    /\ job \in JobRows
    /\ dispatch \in [Attempts -> DispatchRows]
    /\ receipts \in [Attempts -> [Writes -> {"none", "ok", "failed"}]]

LEMMA MoveJobTyped ==
  ASSUME TypeOK, NEW status \in {"pending", "processing", "completed", "failed"},
         MoveJob(status)
  PROVE  job' \in JobRows
BY DEF TypeOK, MoveJob, JobRows

LEMMA StateTyped ==
  ASSUME TypeOK, NEW a \in Attempts, NEW state \in {"absent"} \cup Live \cup Final,
         dispatch' = [dispatch EXCEPT ![a].state = state]
  PROVE  dispatch' \in [Attempts -> DispatchRows]
<1>1. dispatch \in [Attempts -> DispatchRows] BY DEF TypeOK, DispatchRows
<1>2. [dispatch[a] EXCEPT !.state = state] \in DispatchRows BY <1>1 DEF DispatchRows
<1> QED BY <1>1, <1>2

\* What a committed transaction leaves in the tables.
LEMMA IssueTyped ==
  ASSUME TypeOK, NEW a \in Attempts, IssueRows(a)
  PROVE  RowTypes'
<1>1. PICK top \in Attempts : dispatch' = [b \in Attempts |->
              IF b = a
              THEN [state |-> "pending", generation |-> dispatch[top].generation + 1]
              ELSE IF dispatch[b].state \in Live
              THEN [dispatch[b] EXCEPT !.state = "cancelled"]
              ELSE dispatch[b]]
  BY DEF IssueRows
<1>2. \A b \in Attempts : dispatch'[b] \in DispatchRows
  BY <1>1 DEF TypeOK, Live, Final, DispatchRows
<1>3. dispatch' \in [Attempts -> DispatchRows] BY <1>1, <1>2
<1>4. job' \in JobRows BY MoveJobTyped DEF IssueRows
<1> QED BY <1>3, <1>4 DEF TypeOK, IssueRows, RowTypes

LEMMA ReconcileTyped ==
  ASSUME TypeOK, NEW a \in Attempts, ReconcileRows(a)
  PROVE  RowTypes'
<1>1. dispatch[a].state \in {"absent"} \cup Live \cup Final /\ job \in JobRows
  BY DEF TypeOK, JobRows
<1>2. ReconciledState(a) \in {"absent"} \cup Live \cup Final
  BY <1>1 DEF ReconciledState, Final
<1>3. dispatch' \in [Attempts -> DispatchRows] BY <1>2, StateTyped DEF ReconcileRows
<1>4. job.status \in {"pending", "processing", "completed", "failed"} BY <1>1 DEF JobRows
<1>5. job' \in JobRows BY <1>1, <1>4, MoveJobTyped DEF ReconcileRows
<1> QED BY <1>3, <1>5 DEF TypeOK, ReconcileRows, RowTypes

LEMMA WriteTyped ==
  ASSUME TypeOK, NEW a \in Attempts, NEW w \in Writes, ApplyRows(a, w) \/ WriteFailedRows(a, w)
  PROVE  RowTypes'
<1>1. dispatch[a].state \in {"absent"} \cup Live \cup Final /\ job \in JobRows
  BY DEF TypeOK, JobRows
<1>2. receipts' \in [Attempts -> [Writes -> {"none", "ok", "failed"}]]
  <2>1. CASE ApplyRows(a, w) BY <2>1 DEF TypeOK, ApplyRows
  <2>2. CASE WriteFailedRows(a, w) BY <2>2 DEF TypeOK, WriteFailedRows
  <2> QED BY <2>1, <2>2
<1>3. CASE ApplyRows(a, w)
  <2>1. StateAfter(w, dispatch[a].state) \in {"absent"} \cup Live \cup Final
    BY <1>1 DEF StateAfter, Live, Final
  <2>2. dispatch' = [dispatch EXCEPT ![a].state = StateAfter(w, dispatch[a].state)]
    BY <1>3 DEF ApplyRows
  <2>3. dispatch' \in [Attempts -> DispatchRows] BY <2>1, <2>2, StateTyped
  <2>4. StateAfter(w, "processing") \in {"pending", "processing", "completed", "failed"}
    BY DEF StateAfter
  <2>5. job' \in JobRows BY <1>1, <1>3, <2>4, MoveJobTyped DEF ApplyRows
  <2> QED BY <1>2, <2>3, <2>5 DEF RowTypes
<1>4. CASE WriteFailedRows(a, w)
  <2>1. "failed" \in Final BY DEF Final
  <2>2. dispatch' \in [Attempts -> DispatchRows] BY <1>4, <2>1, StateTyped DEF WriteFailedRows
  <2>3. job' \in JobRows BY <1>4, MoveJobTyped DEF WriteFailedRows
  <2> QED BY <1>2, <2>2, <2>3 DEF RowTypes
<1> QED BY <1>3, <1>4

\* The tables change only where a transaction commits.
LEMMA RowsMove ==
  ASSUME Next
  PROVE  \/ UNCHANGED rows
         \/ \E a \in Attempts :
               /\ UNCHANGED <<dispatcher, told, expired, workflow>>
               /\ \/ MayIssue(a) /\ IssueRows(a)
                  \/ ReconcileRows(a)
                  \/ \E w \in Writes :
                        MayApply(a, w) /\ (ApplyRows(a, w) \/ WriteFailedRows(a, w))
<1>1. PICK a \in Attempts :
          \/ \E l \in Lines : CallSteps(a, l) \/ CallFaults(a, l)
          \/ WorkflowSteps(a) \/ Trigger(a) \/ DispatcherSteps(a) \/ Losses(a)
  BY DEF Next
<1>2. ASSUME NEW l \in Lines, CallSteps(a, l) \/ CallFaults(a, l)
      PROVE  Executes(a, l) \/ UNCHANGED rows
  BY <1>2 DEF CallSteps, CallFaults, Reserve, NotReserved, Refuses, Aborts, Replies, TimesOut,
       Correlates, CorrelationLost
<1>3. WorkflowSteps(a) => UNCHANGED rows
  BY DEF WorkflowSteps, Intake, Started, ReadContext, ContextRefused, NextWrite, WriteRejected,
       Stop, Elsewhere
<1>4. DispatcherSteps(a) \/ Trigger(a) => UNCHANGED rows
  BY DEF DispatcherSteps, Trigger, AcquisitionFails, PostIssuance, PostWebhook, Reconcile,
       Resolve, Confirmed, Unconfirmed
<1>5. Losses(a) => ExecutesBadly(a) \/ UNCHANGED rows
  BY DEF Losses, WorkflowLost, Stop, Elsewhere, Dies, Expires
<1>6. ASSUME NEW l \in Lines, Executes(a, l)
      PROVE  /\ UNCHANGED <<dispatcher, told, expired, workflow>>
             /\ \/ MayIssue(a) /\ IssueRows(a)
                \/ ReconcileRows(a)
                \/ MayApply(a, CurrentWrite(a)) /\ ApplyRows(a, CurrentWrite(a))
  BY <1>6 DEF Executes, Ends, others
<1>7. ExecutesBadly(a) =>
        /\ UNCHANGED <<dispatcher, told, expired, workflow>>
        /\ MayApply(a, CurrentWrite(a)) /\ WriteFailedRows(a, CurrentWrite(a))
  BY DEF ExecutesBadly, Ends, others
<1> QED BY <1>1, <1>2, <1>3, <1>4, <1>5, <1>6, <1>7, LegalWrites

WorkflowRows ==
    [step : {"none", "sent", "starting", "reading", "writing", "responded", "stopped"},
     plan : Plans \cup {<< >>}, next : 1..(RawChunks + CleanChunks + 2)]

LEMMA CallsTyped ==
  ASSUME TypeOK, Next
  PROVE  call' \in [Attempts -> [Lines -> Calls]]
<1>0. Sent \in Calls BY DEF Sent, Calls
<1>1. PICK a \in Attempts :
          \/ \E l \in Lines : CallSteps(a, l) \/ CallFaults(a, l)
          \/ WorkflowSteps(a) \/ Trigger(a) \/ DispatcherSteps(a) \/ Losses(a)
  BY DEF Next
<1>2. "issuer" \in Lines /\ "writer" \in Lines /\ "resolver" \in Lines BY DEF Lines
<1>3. CASE \E l \in Lines : CallSteps(a, l) \/ CallFaults(a, l) BY <1>3, CallStepsTyped
<1>4. CASE WorkflowSteps(a)
  <2>1. UNCHANGED call \/ SendWrite(a)
    BY <1>4 DEF WorkflowSteps, Intake, Started, ReadContext, ContextRefused, NextWrite,
         WriteRejected, Stop
  <2> QED BY <1>0, <1>2, <2>1, CallTyped DEF SendWrite, TypeOK
<1>5. CASE Trigger(a) \/ DispatcherSteps(a)
  <2>1. \/ UNCHANGED call
        \/ call' = [call EXCEPT ![a]["issuer"] = Sent]
        \/ call' = [call EXCEPT ![a]["resolver"] = Sent]
    BY <1>5 DEF DispatcherSteps, Trigger, AcquisitionFails, PostIssuance, PostWebhook, Reconcile,
         Resolve, Confirmed, Unconfirmed
  <2> QED BY <1>0, <1>2, <2>1, CallTyped DEF TypeOK
<1>6. CASE Losses(a)
  <2>1. UNCHANGED call \/ Ends(a, "writer", "writeFailed")
    BY <1>6 DEF Losses, ExecutesBadly, WorkflowLost, Stop, Dies, Expires
  <2>2. "writeFailed" \in Results BY DEF Results
  <2> QED BY <1>2, <2>1, <2>2, EndTyped DEF TypeOK
<1> QED BY <1>1, <1>3, <1>4, <1>5, <1>6

LEMMA WorkflowTyped ==
  ASSUME TypeOK, Next
  PROVE  workflow' \in [Attempts -> WorkflowRows]
<1>0. workflow \in [Attempts -> WorkflowRows] BY DEF TypeOK, WorkflowRows
<1>1. PICK a \in Attempts :
          \/ \E l \in Lines : CallSteps(a, l) \/ CallFaults(a, l)
          \/ WorkflowSteps(a) \/ Trigger(a) \/ DispatcherSteps(a) \/ Losses(a)
  BY DEF Next
<1>2. workflow[a] \in WorkflowRows /\ 1 \in 1..(RawChunks + CleanChunks + 2)
  BY <1>0, ChunksAssumption
<1>3. ASSUME NEW l \in Lines, CallSteps(a, l) \/ CallFaults(a, l)
      PROVE  UNCHANGED workflow
  BY <1>3 DEF CallSteps, CallFaults, Reserve, NotReserved, Executes, Refuses, Aborts, Replies,
       TimesOut, Correlates, CorrelationLost, Ends, others
<1>4. CASE WorkflowSteps(a)
  <2>1. CASE NextWrite(a)
    <3>1. workflow[a].plan \in Plans \cup {<< >>} /\ workflow[a].next \in Nat \ {0}
      BY <1>2 DEF WorkflowRows
    <3>2. /\ Len(workflow[a].plan) \in Nat
          /\ Len(workflow[a].plan) <= RawChunks + CleanChunks + 2
      <4>1. CASE workflow[a].plan = << >> BY <4>1, ChunksAssumption
      <4>2. CASE workflow[a].plan = Plan BY <4>2, PlanLength, ChunksAssumption
      <4>3. CASE workflow[a].plan = <<Fail>> BY <4>3, PlanLength, ChunksAssumption
      <4> QED BY <3>1, <4>1, <4>2, <4>3 DEF Plans
    <3>4. workflow[a].next < Len(workflow[a].plan) =>
             workflow[a].next + 1 \in 1..(RawChunks + CleanChunks + 2)
      BY <3>1, <3>2, ChunksAssumption
    <3> QED BY <1>0, <1>2, <2>1, <3>4 DEF NextWrite, SetWorkflow, WorkflowRows
  <2>2. CASE ReadContext(a)
    <3>1. PICK plan \in Plans : SetWorkflow(a, "writing", plan, 1) BY <2>2 DEF ReadContext
    <3> QED BY <1>0, <1>2, <3>1 DEF SetWorkflow, WorkflowRows
  <2>3. CASE WriteRejected(a) BY <1>0, <1>2, <2>3 DEF WriteRejected, Stop, SetWorkflow, WorkflowRows
  <2>4. CASE Intake(a) BY <1>0, <1>2, <2>4 DEF Intake, SetWorkflow, WorkflowRows
  <2>5. CASE Started(a) BY <1>0, <1>2, <2>5 DEF Started, SetWorkflow, WorkflowRows
  <2>6. CASE ContextRefused(a) BY <1>0, <1>2, <2>6 DEF ContextRefused, SetWorkflow, WorkflowRows
  <2> QED BY <1>4, <2>1, <2>2, <2>3, <2>4, <2>5, <2>6 DEF WorkflowSteps
<1>5. CASE Trigger(a) \/ DispatcherSteps(a)
  <2>1. UNCHANGED workflow \/ SetWorkflow(a, "sent", << >>, 1)
    BY <1>5 DEF DispatcherSteps, Trigger, AcquisitionFails, PostIssuance, PostWebhook, Reconcile,
         Resolve, Confirmed, Unconfirmed
  <2> QED BY <1>0, <1>2, <2>1 DEF SetWorkflow, WorkflowRows
<1>6. CASE Losses(a)
  <2>1. UNCHANGED workflow \/ SetWorkflow(a, "stopped", workflow[a].plan, workflow[a].next)
    BY <1>6 DEF Losses, ExecutesBadly, Ends, others, WorkflowLost, Stop, Dies, Expires
  <2> QED BY <1>0, <1>2, <2>1 DEF SetWorkflow, WorkflowRows
<1> QED BY <1>0, <1>1, <1>3, <1>4, <1>5, <1>6

\* What is left of the types: the dispatchers and what they were told.
LEMMA DispatchersTyped ==
  ASSUME TypeOK, Next
  PROVE  /\ dispatcher' \in [Attempts ->
              [step : {"idle", "acquiring", "issuing", "calling", "reconciling", "ended"},
               seen : Nat]]
         /\ told' \in [Attempts -> {"none", "unavailable", "died", "uncertain", "absent"}
                                   \cup Final]
         /\ expired' \subseteq Attempts
         /\ faults' \in 0..MaxFaults
<1>1. PICK a \in Attempts :
          \/ \E l \in Lines : CallSteps(a, l) \/ CallFaults(a, l)
          \/ WorkflowSteps(a) \/ Trigger(a) \/ DispatcherSteps(a) \/ Losses(a)
  BY DEF Next
<1>2. \/ UNCHANGED faults
      \/ faults < MaxFaults /\ faults' = faults + 1
  <2>1. ASSUME NEW l \in Lines, CallSteps(a, l) \/ CallFaults(a, l)
        PROVE  UNCHANGED faults \/ Fault
    BY <2>1 DEF CallSteps, CallFaults, Reserve, NotReserved, Executes, Refuses, Aborts, Replies,
         TimesOut, Correlates, CorrelationLost
  <2>2. WorkflowSteps(a) => UNCHANGED faults
    BY DEF WorkflowSteps, Intake, Started, ReadContext, ContextRefused, NextWrite, WriteRejected
  <2>3. Trigger(a) \/ DispatcherSteps(a) => UNCHANGED faults \/ Fault
    BY DEF DispatcherSteps, Trigger, AcquisitionFails, PostIssuance, PostWebhook, Reconcile,
         Confirmed, Unconfirmed
  <2>4. Losses(a) => Fault BY DEF Losses, ExecutesBadly, WorkflowLost, Dies, Expires
  <2> QED BY <1>1, <2>1, <2>2, <2>3, <2>4 DEF Fault
<1>3. faults' \in 0..MaxFaults BY <1>2, FaultsAssumption DEF TypeOK
<1>4. expired' \subseteq Attempts /\ (\/ UNCHANGED <<dispatcher, told>>
                                     \/ Trigger(a) \/ DispatcherSteps(a) \/ Dies(a))
  <2>1. ASSUME NEW l \in Lines, CallSteps(a, l) \/ CallFaults(a, l)
        PROVE  UNCHANGED <<dispatcher, told, expired>>
    BY <2>1 DEF CallSteps, CallFaults, Reserve, NotReserved, Executes, Refuses, Aborts, Replies,
         TimesOut, Correlates, CorrelationLost, Ends, others
  <2>2. WorkflowSteps(a) => UNCHANGED <<dispatcher, told, expired>>
    BY DEF WorkflowSteps, Intake, Started, ReadContext, ContextRefused, NextWrite, WriteRejected,
         Stop, Elsewhere
  <2>3. Trigger(a) \/ DispatcherSteps(a) => UNCHANGED expired
    BY DEF DispatcherSteps, Trigger, AcquisitionFails, PostIssuance, PostWebhook, Reconcile,
         Resolve, Confirmed, Unconfirmed
  <2>4. Losses(a) =>
          \/ UNCHANGED <<dispatcher, told, expired>>
          \/ Dies(a) /\ UNCHANGED expired
          \/ UNCHANGED <<dispatcher, told>> /\ expired' = expired \cup {a}
    BY DEF Losses, ExecutesBadly, Ends, others, WorkflowLost, Stop, Elsewhere, Dies, Expires
  <2> QED BY <1>1, <2>1, <2>2, <2>3, <2>4 DEF TypeOK
<1>5. CASE UNCHANGED <<dispatcher, told>> BY <1>3, <1>4, <1>5 DEF TypeOK
<1>6. CASE Trigger(a) BY <1>3, <1>4, <1>6 DEF TypeOK, Trigger
<1>7. CASE DispatcherSteps(a) \/ Dies(a)
  <2>1. \/ UNCHANGED told
        \/ \E answer \in {"unavailable", "died", "uncertain", "absent"} \cup Final :
              told' = [told EXCEPT ![a] = answer]
    BY <1>7 DEF DispatcherSteps, AcquisitionFails, PostIssuance, PostWebhook, Reconcile, Resolve,
         Confirmed, Unconfirmed, Dies, End
  <2>2. \E step \in {"issuing", "calling", "reconciling", "ended"} : Goto(a, step)
    BY <1>7 DEF DispatcherSteps, AcquisitionFails, PostIssuance, PostWebhook, Reconcile, Resolve,
         Confirmed, Unconfirmed, Dies, End
  <2>3. told' \in [Attempts -> {"none", "unavailable", "died", "uncertain", "absent"}
                              \cup Final]
    BY <2>1 DEF TypeOK
  <2>4. dispatcher' \in [Attempts ->
           [step : {"idle", "acquiring", "issuing", "calling", "reconciling", "ended"},
            seen : Nat]]
    <3>1. PICK step \in {"issuing", "calling", "reconciling", "ended"} :
                 dispatcher' = [dispatcher EXCEPT ![a].step = step]
      BY <2>2 DEF Goto
    <3>2. dispatcher[a] \in
            [step : {"idle", "acquiring", "issuing", "calling", "reconciling", "ended"},
             seen : Nat]
      BY DEF TypeOK
    <3> QED BY <3>1, <3>2 DEF TypeOK
  <2> QED BY <1>3, <1>4, <2>3, <2>4
<1> QED BY <1>4, <1>5, <1>6, <1>7

LEMMA Typed == TypeOK /\ [Next]_vars => TypeOK'
<1> SUFFICES ASSUME TypeOK, [Next]_vars PROVE TypeOK' OBVIOUS
<1>1. CASE UNCHANGED vars BY <1>1 DEF TypeOK, vars, rows
<1>2. CASE Next
  <2>1. RowTypes' BY <1>2, RowsMove, IssueTyped, ReconcileTyped, WriteTyped
                  DEF TypeOK, RowTypes, JobRows, DispatchRows, rows
  <2>2. call' \in [Attempts -> [Lines -> Calls]] BY <1>2, CallsTyped
  <2>3. workflow' \in [Attempts -> WorkflowRows] BY <1>2, WorkflowTyped
  <2> QED BY <1>2, <2>1, <2>2, <2>3, DispatchersTyped
       DEF TypeOK, RowTypes, JobRows, DispatchRows, WorkflowRows
<1> QED BY <1>1, <1>2

-----------------------------------------------------------------------------
(* The tables: one live dispatch, and the job follows the newest           *)

Tables == OneLiveDispatch /\ JobFollowsNewest /\ Generations

\* A live dispatch is the newest, and the only newest.
LEMMA LiveIsNewest ==
  ASSUME TypeOK, Tables, NEW a \in Attempts, dispatch[a].state \in Live
  PROVE  Newest(a) /\ \A b \in Attempts : Newest(b) => b = a
<1>1. \A b \in Attempts : dispatch[b].generation \in Nat BY DEF TypeOK
<1>2. \A b \in Attempts \ {a} : dispatch[b].generation < dispatch[a].generation
  BY DEF Tables, OneLiveDispatch
<1>3. dispatch[a].state # "absent" BY DEF Live
<1> QED BY <1>1, <1>2, <1>3 DEF Newest

LEMMA IssueTables ==
  ASSUME TypeOK, Tables, NEW a \in Attempts, MayIssue(a), IssueRows(a)
  PROVE  Tables'
<1>1. PICK top \in Attempts :
         /\ \A b \in Attempts : dispatch[b].generation <= dispatch[top].generation
         /\ dispatch' = [b \in Attempts |->
              IF b = a
              THEN [state |-> "pending", generation |-> dispatch[top].generation + 1]
              ELSE IF dispatch[b].state \in Live
              THEN [dispatch[b] EXCEPT !.state = "cancelled"]
              ELSE dispatch[b]]
  BY DEF IssueRows
<1>2. \A b \in Attempts : dispatch[b] \in DispatchRows BY DEF TypeOK, DispatchRows
<1>3. /\ dispatch'[a].state = "pending"
      /\ dispatch'[a].generation = dispatch[top].generation + 1
      /\ \A b \in Attempts \ {a} :
            /\ dispatch'[b].generation = dispatch[b].generation
            /\ dispatch'[b].state \notin Live
            /\ dispatch'[b].state = "absent" <=> dispatch[b].state = "absent"
  BY <1>1, <1>2 DEF DispatchRows, Live
<1>4. \A b \in Attempts : dispatch[b].generation \in Nat BY <1>2 DEF DispatchRows
<1>5. \A b \in Attempts \ {a} : dispatch'[b].generation < dispatch'[a].generation
  BY <1>1, <1>3, <1>4
<1>6. OneLiveDispatch' BY <1>3, <1>5 DEF OneLiveDispatch
<1>7. Generations' BY <1>3, <1>4, <1>5 DEF Generations, Tables
<1>8. JobFollowsNewest'
  <2>1. \A b \in Attempts \ {a} : ~Newest(b)' BY <1>3, <1>4, <1>5 DEF Newest
  <2>2. job'.status = "pending" BY DEF IssueRows, MoveJob
  <2> QED BY <1>3, <2>1, <2>2 DEF JobFollowsNewest, StatusOf
<1> QED BY <1>6, <1>7, <1>8 DEF Tables

\* One dispatch that was alive takes a new state, and the job with it.
LEMMA MoveTables ==
  ASSUME TypeOK, Tables, NEW a \in Attempts, NEW state \in Live \cup Final,
         dispatch[a].state \in Live,
         dispatch' = [dispatch EXCEPT ![a].state = state],
         job'.status = StatusOf(state)
  PROVE  Tables'
<1>1. \A b \in Attempts : dispatch[b] \in DispatchRows BY DEF TypeOK, DispatchRows
<1>2. dispatch'[a].state = state /\ \A b \in Attempts \ {a} : dispatch'[b] = dispatch[b]
  BY DEF TypeOK
<1>3. \A b \in Attempts : dispatch'[b].generation = dispatch[b].generation
  BY <1>1 DEF TypeOK, DispatchRows
<1>4. dispatch[a].state # "absent" /\ state # "absent" BY DEF Live, Final
<1>5. OneLiveDispatch' BY <1>2, <1>3 DEF Tables, OneLiveDispatch
<1>6. Generations' BY <1>2, <1>3, <1>4 DEF Tables, Generations
<1>7. \A b \in Attempts : Newest(b)' => b = a
  <2>1. \A b \in Attempts : Newest(b)' => Newest(b) BY <1>2, <1>3, <1>4 DEF Newest
  <2> QED BY <2>1, LiveIsNewest
<1>8. JobFollowsNewest' BY <1>2, <1>7 DEF JobFollowsNewest
<1> QED BY <1>5, <1>6, <1>8 DEF Tables

LEMMA ReconcileTables ==
  ASSUME TypeOK, Tables, NEW a \in Attempts, ReconcileRows(a)
  PROVE  Tables'
<1>1. CASE dispatch[a].state \in Live
  <2>1. ReconciledState(a) = "cancelled" BY <1>1 DEF ReconciledState
  <2>2. job'.status = "failed" BY <1>1, LiveIsNewest DEF ReconcileRows, MoveJob, Live
  <2>3. StatusOf("cancelled") = "failed" /\ "cancelled" \in Final BY DEF StatusOf, Final
  <2> QED BY <1>1, <2>1, <2>2, <2>3, MoveTables DEF ReconcileRows
<1>2. CASE dispatch[a].state \notin Live
  <2>1. dispatch' = dispatch BY <1>2 DEF ReconcileRows, ReconciledState, TypeOK
  <2>2. job'.status = job.status BY <1>2 DEF ReconcileRows, MoveJob
  <2> QED BY <2>1, <2>2 DEF Tables, OneLiveDispatch, JobFollowsNewest, Generations, Newest
<1> QED BY <1>1, <1>2

LEMMA WriteTables ==
  ASSUME TypeOK, Tables, NEW a \in Attempts, NEW w \in Writes, MayApply(a, w),
         ApplyRows(a, w) \/ WriteFailedRows(a, w)
  PROVE  Tables'
<1>1. dispatch[a].state \in Live BY DEF MayApply
<1>2. CASE WriteFailedRows(a, w)
  <2>1. StatusOf("failed") = "failed" /\ "failed" \in Final BY DEF StatusOf, Final
  <2>2. job'.status = "failed" BY <1>2 DEF WriteFailedRows, MoveJob
  <2> QED BY <1>1, <1>2, <2>1, <2>2, MoveTables DEF WriteFailedRows
<1>3. CASE ApplyRows(a, w)
  <2> DEFINE state == StateAfter(w, dispatch[a].state)
  <2>1. state \in Live \cup Final BY <1>1 DEF StateAfter, Live, Final
  <2>2. dispatch' = [dispatch EXCEPT ![a].state = state] BY <1>3 DEF ApplyRows
  <2>3. CASE w \in {Start, Complete, Fail}
    <3>1. state = StateAfter(w, "processing")
      BY <2>3 DEF StateAfter, Start, Complete, Fail, Write
    <3>2. job'.status = state BY <1>3, <2>3, <3>1 DEF ApplyRows, MoveJob
    <3>3. state # "cancelled" BY <2>3 DEF StateAfter, Start, Complete, Fail, Write
    <3> QED BY <1>1, <2>1, <2>2, <3>2, <3>3, MoveTables DEF StatusOf
  <2>4. CASE w \notin {Start, Complete, Fail}
    <3>1. state = dispatch[a].state BY <2>4 DEF StateAfter
    <3>2. job' = job BY <1>3, <2>4 DEF ApplyRows
    <3>3. job.status = StatusOf(dispatch[a].state)
      BY <1>1, LiveIsNewest DEF Tables, JobFollowsNewest
    <3> QED BY <1>1, <2>1, <2>2, <3>1, <3>2, <3>3, MoveTables
  <2> QED BY <2>3, <2>4
<1> QED BY <1>2, <1>3

LEMMA TablesKept == TypeOK /\ Tables /\ [Next]_vars => Tables'
<1> SUFFICES ASSUME TypeOK, Tables, [Next]_vars PROVE Tables' OBVIOUS
<1>1. CASE UNCHANGED rows
  BY <1>1 DEF rows, Tables, OneLiveDispatch, JobFollowsNewest, Generations, Newest
<1>2. CASE Next BY <1>1, <1>2, RowsMove, IssueTables, ReconcileTables, WriteTables
<1> QED BY <1>1, <1>2 DEF vars

-----------------------------------------------------------------------------
(* The calls: answers are what was committed                               *)

AnswerHolds(c) ==
    /\ c.answer \in Results => c.tx = c.answer
    /\ c.answer = "refused" => c.tx = "refused"

\* An answer changes no transaction, and a transaction ends before its answer.
LEMMA CallHolds ==
  ASSUME TypeOK, NEW a \in Attempts, NEW l \in Lines, AnswerHolds(call[a][l]),
         CallSteps(a, l) \/ CallFaults(a, l) \/ (l = "writer" /\ ExecutesBadly(a))
  PROVE  \E c \in Calls : call' = [call EXCEPT ![a][l] = c] /\ AnswerHolds(c)
<1>0. call[a][l] \in Calls BY DEF TypeOK
<1>1. "open" \notin Results /\ "refused" \notin Results /\ "unknown" \notin Results
      /\ "none" \notin Results
  BY DEF Results, Final
<1>2. ASSUME NEW tx, call[a][l].tx = "open", Ends(a, l, tx)
      PROVE  AnswerHolds([phase |-> call[a][l].phase, tx |-> tx, answer |-> call[a][l].answer])
  BY <1>0, <1>1, <1>2 DEF AnswerHolds, Calls
<1> DEFINE Moved == \E c : call' = [call EXCEPT ![a][l] = c] /\ AnswerHolds(c)
<1>7. ASSUME NEW phase, NEW tx, NEW answer, SetCall(a, l, phase, tx, answer),
             answer \in Results \cup {"refused"} => tx = answer
      PROVE  Moved
  <2> DEFINE c == [phase |-> phase, tx |-> tx, answer |-> answer]
  <2>1. call' = [call EXCEPT ![a][l] = c] BY <1>7 DEF SetCall
  <2>2. AnswerHolds(c) BY <1>7 DEF AnswerHolds
  <2> HIDE DEF c
  <2> QED BY <2>1, <2>2
<1>3. Moved
  <2>1. CASE Reserve(a, l) BY <1>1, <1>7, <2>1 DEF Reserve
  <2>2. CASE NotReserved(a, l) BY <1>1, <1>7, <2>2 DEF NotReserved
  <2>3. CASE Executes(a, l)
    <3>1. PICK tx : call[a][l].tx = "open" /\ Ends(a, l, tx) BY <2>3 DEF Executes
    <3> QED BY <1>2, <3>1 DEF Ends, SetCall
  <2>4. CASE Refuses(a, l) BY <1>2, <2>4 DEF Refuses, Ends, SetCall
  <2>5. CASE Aborts(a, l) BY <1>2, <2>5 DEF Aborts, Ends, SetCall
  <2>6. CASE Replies(a, l) BY <1>1, <1>7, <2>6 DEF Replies
  <2>7. CASE TimesOut(a, l) BY <1>1, <1>7, <2>7 DEF TimesOut
  <2>8. CASE Correlates(a, l) BY <1>1, <1>7, <2>8 DEF Correlates, Correlated
  <2>9. CASE CorrelationLost(a, l) BY <1>1, <1>7, <2>9 DEF CorrelationLost
  <2>10. CASE l = "writer" /\ ExecutesBadly(a) BY <1>2, <2>10 DEF ExecutesBadly, Ends, SetCall
  <2> QED BY <2>1, <2>2, <2>3, <2>4, <2>5, <2>6, <2>7, <2>8, <2>9, <2>10
       DEF CallSteps, CallFaults
<1>4. call' \in [Attempts -> [Lines -> Calls]]
  <2>1. CASE CallSteps(a, l) \/ CallFaults(a, l) BY <2>1, CallStepsTyped
  <2>2. CASE l = "writer" /\ ExecutesBadly(a)
    <3>1. "writeFailed" \in Results BY DEF Results
    <3> QED BY <2>2, <3>1, EndTyped DEF ExecutesBadly
  <2> QED BY <2>1, <2>2
<1>5. PICK c : call' = [call EXCEPT ![a][l] = c] /\ AnswerHolds(c) BY <1>3
<1>6. c \in Calls
  <2>1. call'[a][l] = c BY <1>5 DEF TypeOK
  <2> QED BY <1>4, <2>1
<1> QED BY <1>5, <1>6

LEMMA SentHolds == Sent \in Calls /\ AnswerHolds(Sent)
BY DEF Sent, Calls, AnswerHolds, Results, Final

\* A step sends a call, moves one on, or leaves the calls alone.
LEMMA CallMoves ==
  ASSUME TypeOK, AnswersMatchCommits, Next
  PROVE  \/ UNCHANGED call
         \/ \E a \in Attempts, l \in Lines, c \in Calls :
               call' = [call EXCEPT ![a][l] = c] /\ AnswerHolds(c)
<1>1. PICK a \in Attempts :
          \/ \E l \in Lines : CallSteps(a, l) \/ CallFaults(a, l)
          \/ WorkflowSteps(a) \/ Trigger(a) \/ DispatcherSteps(a) \/ Losses(a)
  BY DEF Next
<1>2. "issuer" \in Lines /\ "writer" \in Lines /\ "resolver" \in Lines BY DEF Lines
<1>3. \A l \in Lines : AnswerHolds(call[a][l]) BY DEF AnswersMatchCommits, AnswerHolds
<1>4. CASE \E l \in Lines : CallSteps(a, l) \/ CallFaults(a, l) BY <1>3, <1>4, CallHolds
<1>5. CASE WorkflowSteps(a)
  <2>1. UNCHANGED call \/ SendWrite(a)
    BY <1>5 DEF WorkflowSteps, Intake, Started, ReadContext, ContextRefused, NextWrite,
         WriteRejected, Stop
  <2> QED BY <1>2, <2>1, SentHolds DEF SendWrite
<1>6. CASE Trigger(a) \/ DispatcherSteps(a)
  <2>1. \/ UNCHANGED call
        \/ call' = [call EXCEPT ![a]["issuer"] = Sent]
        \/ call' = [call EXCEPT ![a]["resolver"] = Sent]
    BY <1>6 DEF DispatcherSteps, Trigger, AcquisitionFails, PostIssuance, PostWebhook, Reconcile,
         Resolve, Confirmed, Unconfirmed
  <2> QED BY <1>2, <2>1, SentHolds
<1>7. CASE Losses(a)
  <2>1. UNCHANGED call \/ ExecutesBadly(a)
    BY <1>7 DEF Losses, WorkflowLost, Stop, Dies, Expires
  <2> QED BY <1>2, <1>3, <2>1, CallHolds
<1> QED BY <1>1, <1>4, <1>5, <1>6, <1>7

LEMMA AnswersKept == TypeOK /\ AnswersMatchCommits /\ [Next]_vars => AnswersMatchCommits'
<1> SUFFICES ASSUME TypeOK, AnswersMatchCommits, [Next]_vars PROVE AnswersMatchCommits'
  OBVIOUS
<1>1. CASE UNCHANGED call BY <1>1 DEF AnswersMatchCommits
<1>2. ASSUME NEW a \in Attempts, NEW l \in Lines, NEW c \in Calls,
             call' = [call EXCEPT ![a][l] = c], AnswerHolds(c)
      PROVE  AnswersMatchCommits'
  <2>1. \A b \in Attempts, k \in Lines :
           call'[b][k] = IF b = a /\ k = l THEN c ELSE call[b][k]
    BY <1>2 DEF TypeOK
  <2>2. \A b \in Attempts, k \in Lines : AnswerHolds(call'[b][k])
    BY <1>2, <2>1 DEF AnswersMatchCommits, AnswerHolds
  <2> QED BY <2>2 DEF AnswersMatchCommits, AnswerHolds
<1> QED BY <1>1, <1>2, CallMoves DEF vars

-----------------------------------------------------------------------------
(* What is decided stays decided                                           *)

\* A final state stays, and an attempt the job has moved past stays absent.
LEMMA Kept ==
  ASSUME TypeOK, Next, NEW b \in Attempts
  PROVE  /\ job'.revision \in {job.revision, job.revision + 1}
         /\ dispatch[b].state \in Final => dispatch'[b].state = dispatch[b].state
         /\ dispatch[b].state = "absent" /\ dispatcher[b].seen < job.revision =>
               dispatch'[b].state = "absent"
<1>0. dispatch[b] \in DispatchRows /\ job.revision \in Nat /\ dispatcher[b].seen \in Nat
  BY DEF TypeOK, DispatchRows
<1>1. CASE UNCHANGED rows BY <1>1 DEF rows
<1>2. ASSUME NEW a \in Attempts, MayIssue(a), IssueRows(a)
      PROVE  /\ job'.revision = job.revision + 1
             /\ dispatch[b].state \in Final => dispatch'[b].state = dispatch[b].state
             /\ dispatch[b].state = "absent" /\ dispatcher[b].seen < job.revision =>
                   dispatch'[b].state = "absent"
  BY <1>0, <1>2 DEF MayIssue, IssueRows, MoveJob, Live, Final
<1>3. ASSUME NEW a \in Attempts, ReconcileRows(a)
      PROVE  /\ job'.revision \in {job.revision, job.revision + 1}
             /\ dispatch[b].state \in Final \cup {"absent"} =>
                   dispatch'[b].state = dispatch[b].state
  <2>1. job'.revision \in {job.revision, job.revision + 1} BY <1>3 DEF ReconcileRows, MoveJob
  <2>2. dispatch' = [dispatch EXCEPT ![a].state = ReconciledState(a)] BY <1>3 DEF ReconcileRows
  <2>3. dispatch[a].state \in Final \cup {"absent"} => ReconciledState(a) = dispatch[a].state
    BY DEF ReconciledState, Live, Final
  <2> QED BY <1>0, <2>1, <2>2, <2>3 DEF TypeOK
<1>4. ASSUME NEW a \in Attempts, NEW w \in Writes, MayApply(a, w),
             ApplyRows(a, w) \/ WriteFailedRows(a, w)
      PROVE  /\ job'.revision \in {job.revision, job.revision + 1}
             /\ dispatch[b].state \in Final \cup {"absent"} =>
                   dispatch'[b].state = dispatch[b].state
  <2>1. job'.revision \in {job.revision, job.revision + 1}
    BY <1>4 DEF ApplyRows, WriteFailedRows, MoveJob
  <2>2. dispatch[a].state \notin Final \cup {"absent"} BY <1>4 DEF MayApply, Live, Final
  <2>3. a # b => dispatch'[b] = dispatch[b] BY <1>4 DEF ApplyRows, WriteFailedRows, TypeOK
  <2> QED BY <2>1, <2>2, <2>3
<1> QED BY <1>1, <1>2, <1>3, <1>4, RowsMove

\* Only a trigger changes what a dispatcher captured.
LEMMA SeenKept ==
  ASSUME TypeOK, Next, NEW b \in Attempts
  PROVE  \/ /\ dispatcher'[b].seen = dispatcher[b].seen
            /\ dispatcher'[b].step = "idle" <=> dispatcher[b].step = "idle"
         \/ /\ Trigger(b)
            /\ dispatcher'[b] = [step |-> "acquiring", seen |-> job.revision]
<1>1. PICK a \in Attempts :
          \/ \E l \in Lines : CallSteps(a, l) \/ CallFaults(a, l)
          \/ WorkflowSteps(a) \/ Trigger(a) \/ DispatcherSteps(a) \/ Losses(a)
  BY DEF Next
<1>2. CASE UNCHANGED dispatcher BY <1>2
<1>3. CASE Trigger(a) BY <1>3 DEF Trigger, TypeOK
<1>4. ASSUME NEW l \in Lines, CallSteps(a, l) \/ CallFaults(a, l)
      PROVE  UNCHANGED dispatcher
  BY <1>4 DEF CallSteps, CallFaults, Reserve, NotReserved, Executes, Refuses, Aborts, Replies,
       TimesOut, Correlates, CorrelationLost, Ends, others
<1>5. WorkflowSteps(a) => UNCHANGED dispatcher
  BY DEF WorkflowSteps, Intake, Started, ReadContext, ContextRefused, NextWrite, WriteRejected,
       Stop, Elsewhere
<1>6. CASE DispatcherSteps(a) \/ Dies(a)
  <2>1. dispatcher[a].step # "idle"
    BY <1>6 DEF DispatcherSteps, AcquisitionFails, PostIssuance, PostWebhook, Reconcile,
         Confirmed, Unconfirmed, Dies
  <2>2. PICK step \in {"issuing", "calling", "reconciling", "ended"} :
           dispatcher' = [dispatcher EXCEPT ![a].step = step]
    BY <1>6 DEF DispatcherSteps, AcquisitionFails, PostIssuance, PostWebhook, Reconcile, Resolve,
         Confirmed, Unconfirmed, Dies, End, Goto
  <2> QED BY <2>1, <2>2 DEF TypeOK
<1>7. Losses(a) => Dies(a) \/ UNCHANGED dispatcher
  BY DEF Losses, ExecutesBadly, Ends, others, WorkflowLost, Stop, Elsewhere, Expires
<1> QED BY <1>1, <1>2, <1>3, <1>4, <1>5, <1>6, <1>7

LEMMA StandsKept ==
  ASSUME TypeOK, Next, NEW b \in Attempts, NEW answer, Stands(b, answer),
         dispatcher'[b].seen = dispatcher[b].seen
  PROVE  /\ answer \in Final => dispatch'[b].state = answer
         /\ answer = "absent" =>
              /\ dispatch'[b].state = "absent"
              /\ dispatcher'[b].seen \in 1..(job'.revision - 1)
<1>1. job.revision \in Nat /\ dispatcher[b].seen \in Nat BY DEF TypeOK
<1>2. answer \in Final => dispatch'[b].state = answer BY Kept DEF Stands
<1>3. ASSUME answer = "absent"
      PROVE  dispatch'[b].state = "absent" /\ dispatcher'[b].seen \in 1..(job'.revision - 1)
  <2>1. dispatch[b].state = "absent" /\ dispatcher[b].seen \in 1..(job.revision - 1)
    BY <1>3 DEF Stands
  <2>2. dispatch'[b].state = "absent" BY <1>1, <2>1, Kept
  <2>3. job'.revision \in {job.revision, job.revision + 1} BY Kept
  <2> QED BY <1>1, <2>1, <2>2, <2>3
<1> QED BY <1>2, <1>3

\* What may happen to the call that asks what became of an attempt.
LEMMA ResolverMoves ==
  ASSUME TypeOK, Next, NEW b \in Attempts
  PROVE  \/ call'[b]["resolver"] = call[b]["resolver"]
         \/ call'[b]["resolver"] = Sent /\ dispatcher[b].step # "idle"
         \/ /\ call[b]["resolver"].phase # "idle" \/ call[b]["resolver"].tx = "open"
            /\ UNCHANGED dispatcher
            /\ \/ call'[b]["resolver"].tx \in {call[b]["resolver"].tx, "none", "open", "aborted"}
               \/ /\ ReconcileRows(b)
                  /\ call'[b]["resolver"].tx = ReconciledState(b)
<1>1. PICK a \in Attempts :
          \/ \E l \in Lines : CallSteps(a, l) \/ CallFaults(a, l)
          \/ WorkflowSteps(a) \/ Trigger(a) \/ DispatcherSteps(a) \/ Losses(a)
  BY DEF Next
<1>2. "issuer" \in Lines /\ "writer" \in Lines /\ "resolver" \in Lines BY DEF Lines
<1>3. ASSUME NEW l \in Lines, NEW c, call' = [call EXCEPT ![a][l] = c],
             a # b \/ l # "resolver"
      PROVE  call'[b]["resolver"] = call[b]["resolver"]
  BY <1>2, <1>3 DEF TypeOK
<1>4. ASSUME NEW l \in Lines, CallSteps(a, l) \/ CallFaults(a, l)
      PROVE  /\ UNCHANGED dispatcher
             /\ \E c : call' = [call EXCEPT ![a][l] = c]
  BY <1>4 DEF CallSteps, CallFaults, Reserve, NotReserved, Executes, Refuses, Aborts, Replies,
       TimesOut, Correlates, CorrelationLost, Ends, SetCall, others
<1>5. ASSUME CallSteps(b, "resolver") \/ CallFaults(b, "resolver")
      PROVE  /\ call[b]["resolver"].phase # "idle" \/ call[b]["resolver"].tx = "open"
             /\ \/ call'[b]["resolver"].tx \in {call[b]["resolver"].tx, "none", "open", "aborted"}
                \/ /\ ReconcileRows(b)
                   /\ call'[b]["resolver"].tx = ReconciledState(b)
  <2> DEFINE Tx(t) == call'[b]["resolver"].tx = t
  <2>1. ASSUME NEW phase, NEW tx, NEW answer, SetCall(b, "resolver", phase, tx, answer)
        PROVE  Tx(tx)
    BY <1>2, <2>1 DEF SetCall, TypeOK
  <2> HIDE DEF Tx
  <2>2. CASE Reserve(b, "resolver")
    <3>1. Tx("open") BY <2>1, <2>2 DEF Reserve
    <3> QED BY <2>2, <3>1 DEF Reserve, Tx
  <2>3. CASE NotReserved(b, "resolver")
    <3>1. Tx("none") BY <2>1, <2>3 DEF NotReserved
    <3> QED BY <2>3, <3>1 DEF NotReserved, Tx
  <2>4. CASE Executes(b, "resolver")
    <3>1. Tx(ReconciledState(b)) BY <2>1, <2>4 DEF Executes, Ends
    <3> QED BY <2>4, <3>1 DEF Executes, Tx
  <2>5. CASE Aborts(b, "resolver")
    <3>1. Tx("aborted") BY <2>1, <2>5 DEF Aborts, Ends
    <3> QED BY <2>5, <3>1 DEF Aborts, Tx
  <2>6. CASE Replies(b, "resolver")
    <3>1. Tx(call[b]["resolver"].tx) BY <2>1, <2>6 DEF Replies
    <3> QED BY <2>6, <3>1 DEF Replies, Tx
  <2>7. CASE TimesOut(b, "resolver")
    <3>1. Tx(call[b]["resolver"].tx) BY <2>1, <2>7 DEF TimesOut
    <3> QED BY <2>7, <3>1 DEF TimesOut, Tx
  <2>8. CASE Correlates(b, "resolver")
    <3>1. Tx(call[b]["resolver"].tx) BY <2>1, <2>8 DEF Correlates
    <3> QED BY <2>8, <3>1 DEF Correlates, Tx
  <2>9. CASE CorrelationLost(b, "resolver")
    <3>1. Tx(call[b]["resolver"].tx) BY <2>1, <2>9 DEF CorrelationLost
    <3> QED BY <2>9, <3>1 DEF CorrelationLost, Tx
  <2>10. ~Refuses(b, "resolver") BY DEF Refuses
  <2> QED BY <1>5, <2>2, <2>3, <2>4, <2>5, <2>6, <2>7, <2>8, <2>9, <2>10
       DEF CallSteps, CallFaults
<1>6. CASE \E l \in Lines : CallSteps(a, l) \/ CallFaults(a, l)
  <2>1. PICK l \in Lines : CallSteps(a, l) \/ CallFaults(a, l) BY <1>6
  <2>2. CASE a = b /\ l = "resolver" BY <1>4, <1>5, <2>1, <2>2
  <2>3. CASE a # b \/ l # "resolver" BY <1>3, <1>4, <2>1, <2>3
  <2> QED BY <2>2, <2>3
<1>7. CASE WorkflowSteps(a)
  <2>1. UNCHANGED call \/ SendWrite(a)
    BY <1>7 DEF WorkflowSteps, Intake, Started, ReadContext, ContextRefused, NextWrite,
         WriteRejected, Stop
  <2> QED BY <1>2, <1>3, <2>1 DEF SendWrite
<1>8. CASE Trigger(a) \/ DispatcherSteps(a)
  <2>1. \/ UNCHANGED call
        \/ call' = [call EXCEPT ![a]["issuer"] = Sent]
        \/ /\ call' = [call EXCEPT ![a]["resolver"] = Sent]
           /\ dispatcher[a].step # "idle"
    BY <1>8 DEF DispatcherSteps, Trigger, AcquisitionFails, PostIssuance, PostWebhook, Reconcile,
         Resolve, Confirmed, Unconfirmed
  <2>2. CASE UNCHANGED call BY <2>2
  <2>3. CASE call' = [call EXCEPT ![a]["issuer"] = Sent]
    <3>1. "issuer" # "resolver" OBVIOUS
    <3> QED BY <1>2, <1>3, <2>3, <3>1
  <2>4. CASE /\ call' = [call EXCEPT ![a]["resolver"] = Sent]
             /\ dispatcher[a].step # "idle"
    <3>1. CASE a = b BY <1>2, <2>4, <3>1 DEF TypeOK
    <3>2. CASE a # b BY <1>2, <1>3, <2>4, <3>2
    <3> QED BY <3>1, <3>2
  <2> QED BY <2>1, <2>2, <2>3, <2>4
<1>9. CASE Losses(a)
  <2>1. UNCHANGED call \/ \E c : call' = [call EXCEPT ![a]["writer"] = c]
    BY <1>9 DEF Losses, ExecutesBadly, Ends, SetCall, WorkflowLost, Stop, Dies, Expires
  <2> QED BY <1>2, <1>3, <2>1
<1> QED BY <1>1, <1>6, <1>7, <1>8, <1>9

LEMMA CapturedKept == TypeOK /\ Captured /\ [Next]_vars => Captured'
<1> SUFFICES ASSUME TypeOK, Captured, [Next]_vars PROVE Captured' OBVIOUS
<1>1. CASE UNCHANGED vars BY <1>1 DEF vars, rows, Captured
<1>2. ASSUME Next, NEW b \in Attempts
      PROVE  /\ dispatcher'[b].seen <= job'.revision
             /\ dispatcher'[b].step = "idle" =>
                  /\ dispatcher'[b].seen = 0
                  /\ call'[b]["resolver"].phase = "idle"
                  /\ call'[b]["resolver"].tx = "none"
             /\ dispatcher'[b].step # "idle" => dispatcher'[b].seen > 0
  <2>1. job.revision \in Nat \ {0} /\ dispatcher[b].seen \in Nat BY DEF TypeOK
  <2>2. job'.revision \in {job.revision, job.revision + 1} BY <1>2, Kept
  <2>3. CASE dispatcher'[b] = [step |-> "acquiring", seen |-> job.revision]
    BY <2>1, <2>2, <2>3
  <2>4. CASE /\ dispatcher'[b].seen = dispatcher[b].seen
             /\ dispatcher'[b].step = "idle" <=> dispatcher[b].step = "idle"
    <3>1. dispatcher'[b].seen <= job'.revision BY <2>1, <2>2, <2>4 DEF Captured
    <3>2. dispatcher[b].step = "idle" => call'[b]["resolver"] = call[b]["resolver"]
      BY <1>2, ResolverMoves DEF Captured
    <3> QED BY <2>4, <3>1, <3>2 DEF Captured
  <2> QED BY <1>2, <2>3, <2>4, SeenKept
<1> QED BY <1>1, <1>2 DEF Captured

LEMMA ResolvedKept == TypeOK /\ Captured /\ Resolved /\ [Next]_vars => Resolved'
<1> SUFFICES ASSUME TypeOK, Captured, Resolved, [Next]_vars PROVE Resolved' OBVIOUS
<1>0. "none" \notin Final /\ "open" \notin Final /\ "aborted" \notin Final BY DEF Final
<1>1. CASE UNCHANGED vars BY <1>1 DEF vars, rows, Resolved, Stands
<1>2. ASSUME Next, NEW b \in Attempts
      PROVE  Stands(b, call[b]["resolver"].tx)'
  <2>1. CASE call'[b]["resolver"].tx \in {"none", "open", "aborted"} BY <1>0, <2>1 DEF Stands
  <2>2. CASE call'[b]["resolver"].tx = call[b]["resolver"].tx
    <3>1. CASE dispatcher'[b].seen = dispatcher[b].seen
      BY <1>2, <2>2, <3>1, StandsKept DEF Resolved, Stands
    <3>2. CASE Trigger(b) BY <1>0, <2>2, <3>2 DEF Trigger, Captured, Stands
    <3> QED BY <1>2, <3>1, <3>2, SeenKept
  <2>3. CASE /\ call[b]["resolver"].phase # "idle" \/ call[b]["resolver"].tx = "open"
             /\ UNCHANGED dispatcher
             /\ ReconcileRows(b)
             /\ call'[b]["resolver"].tx = ReconciledState(b)
    <3>1. dispatcher[b].seen > 0 /\ dispatcher[b].seen <= job.revision BY <2>3 DEF Captured
    <3>2. dispatch'[b].state = ReconciledState(b) BY <2>3 DEF ReconcileRows, TypeOK
    <3>3. job.revision \in Nat /\ dispatcher[b].seen \in Nat BY DEF TypeOK
    <3>4. ASSUME ReconciledState(b) = "absent"
          PROVE  dispatcher[b].seen \in 1..(job'.revision - 1)
      <4>1. dispatch[b].state = "absent" BY <3>4 DEF ReconciledState
      <4>2. CASE job.revision = dispatcher[b].seen
        <5>1. job'.revision = job.revision + 1 BY <2>3, <4>1, <4>2 DEF ReconcileRows, MoveJob
        <5> QED BY <3>1, <3>3, <4>2, <5>1
      <4>3. CASE job.revision # dispatcher[b].seen
        <5>1. job' = job BY <2>3, <4>1, <4>3 DEF ReconcileRows, Live
        <5> QED BY <3>1, <3>3, <4>3, <5>1
      <4> QED BY <4>2, <4>3
    <3> QED BY <2>3, <3>2, <3>4 DEF Stands
  <2>4. CASE call'[b]["resolver"] = Sent BY <2>1, <2>4 DEF Sent
  <2> QED BY <1>2, <2>1, <2>2, <2>3, <2>4, ResolverMoves
<1> QED BY <1>1, <1>2 DEF Resolved

\* How a dispatcher may end, and what it is told then.
LEMMA ToldMoves ==
  ASSUME TypeOK, Next, NEW b \in Attempts
  PROVE  \/ /\ told'[b] = told[b]
            /\ dispatcher'[b].step # "ended" => dispatcher[b].step # "ended"
         \/ /\ dispatcher[b].step \notin {"idle", "ended"}
            /\ dispatcher'[b].step = "ended"
            /\ told'[b] \in {"unavailable", "died", "uncertain"}
         \/ /\ Confirmed(b)
            /\ dispatcher[b].step = "reconciling"
            /\ dispatcher'[b].step = "ended"
            /\ told'[b] = call[b]["resolver"].answer
            /\ told'[b] \in Final \cup {"absent"}
<1>1. PICK a \in Attempts :
          \/ \E l \in Lines : CallSteps(a, l) \/ CallFaults(a, l)
          \/ WorkflowSteps(a) \/ Trigger(a) \/ DispatcherSteps(a) \/ Losses(a)
  BY DEF Next
<1>2. CASE UNCHANGED <<dispatcher, told>> BY <1>2
<1>3. ASSUME NEW l \in Lines, CallSteps(a, l) \/ CallFaults(a, l)
      PROVE  UNCHANGED <<dispatcher, told>>
  BY <1>3 DEF CallSteps, CallFaults, Reserve, NotReserved, Executes, Refuses, Aborts, Replies,
       TimesOut, Correlates, CorrelationLost, Ends, others
<1>4. WorkflowSteps(a) => UNCHANGED <<dispatcher, told>>
  BY DEF WorkflowSteps, Intake, Started, ReadContext, ContextRefused, NextWrite, WriteRejected,
       Stop, Elsewhere
<1>5. CASE Trigger(a) BY <1>5 DEF Trigger, TypeOK
<1>6. CASE \/ AcquisitionFails(a) /\ End(a, "unavailable")
           \/ Unconfirmed(a) /\ End(a, "uncertain")
           \/ Dies(a) /\ End(a, "died")
  <2>1. dispatcher[a].step \notin {"idle", "ended"}
    BY <1>6 DEF AcquisitionFails, Unconfirmed, Dies
  <2>2. PICK answer \in {"unavailable", "uncertain", "died"} : End(a, answer) BY <1>6
  <2> QED BY <2>1, <2>2 DEF End, Goto, TypeOK
<1>7. CASE Confirmed(a) BY <1>7 DEF Confirmed, End, Goto, TypeOK
<1>8. CASE PostIssuance(a) \/ PostWebhook(a) \/ Reconcile(a)
  <2>1. /\ dispatcher[a].step # "ended"
        /\ UNCHANGED told
    BY <1>8 DEF PostIssuance, PostWebhook, Reconcile, Resolve
  <2>2. PICK step \in {"issuing", "calling", "reconciling"} : Goto(a, step)
    BY <1>8 DEF PostIssuance, PostWebhook, Reconcile, Resolve
  <2> QED BY <2>1, <2>2 DEF Goto, TypeOK
<1>9. DispatcherSteps(a) =>
        \/ AcquisitionFails(a) /\ End(a, "unavailable")
        \/ Unconfirmed(a) /\ End(a, "uncertain")
        \/ Confirmed(a) \/ PostIssuance(a) \/ PostWebhook(a) \/ Reconcile(a)
  BY DEF DispatcherSteps, AcquisitionFails, Unconfirmed
<1>10. Losses(a) => (Dies(a) /\ End(a, "died")) \/ UNCHANGED <<dispatcher, told>>
  BY DEF Losses, Dies, ExecutesBadly, Ends, others, WorkflowLost, Stop, Elsewhere, Expires
<1> QED BY <1>1, <1>2, <1>3, <1>4, <1>5, <1>6, <1>7, <1>8, <1>9, <1>10

LEMMA ReportsKept ==
  TypeOK /\ AnswersMatchCommits /\ Resolved /\ Captured /\ Reports /\ [Next]_vars => Reports'
<1> SUFFICES ASSUME TypeOK, AnswersMatchCommits, Resolved, Captured, Reports, [Next]_vars
             PROVE  Reports'
  OBVIOUS
<1>0. \A t \in {"none", "unavailable", "died", "uncertain"} : t \notin Final /\ t # "absent"
  BY DEF Final
<1>1. CASE UNCHANGED vars BY <1>1 DEF vars, rows, Reports, Stands
<1>2. ASSUME Next, NEW b \in Attempts
      PROVE  /\ Stands(b, told[b])'
             /\ dispatcher'[b].step # "ended" => told'[b] = "none"
  <2>1. CASE /\ told'[b] = told[b]
             /\ dispatcher'[b].step # "ended" => dispatcher[b].step # "ended"
    <3>1. CASE dispatcher'[b].seen = dispatcher[b].seen
      BY <1>2, <2>1, <3>1, StandsKept DEF Reports, Stands
    <3>2. CASE Trigger(b)
      <4>1. told[b] = "none" BY <3>2 DEF Trigger, Reports
      <4> QED BY <1>0, <2>1, <4>1 DEF Stands
    <3> QED BY <1>2, <3>1, <3>2, SeenKept
  <2>2. CASE /\ dispatcher'[b].step = "ended"
             /\ told'[b] \in {"unavailable", "died", "uncertain"}
    BY <1>0, <2>2 DEF Stands
  <2>3. CASE /\ dispatcher[b].step = "reconciling"
             /\ dispatcher'[b].step = "ended"
             /\ told'[b] = call[b]["resolver"].answer
             /\ told'[b] \in Final \cup {"absent"}
    <3>1. dispatcher'[b].seen = dispatcher[b].seen BY <1>2, <2>3, SeenKept DEF Trigger
    <3>2. told'[b] = call[b]["resolver"].tx
      BY <2>3 DEF AnswersMatchCommits, Results, Lines
    <3>3. Stands(b, told'[b]) BY <3>2 DEF Resolved
    <3>4. /\ told'[b] \in Final => dispatch'[b].state = told'[b]
          /\ told'[b] = "absent" =>
               /\ dispatch'[b].state = "absent"
               /\ dispatcher'[b].seen \in 1..(job'.revision - 1)
      BY <1>2, <3>1, <3>3, StandsKept
    <3> QED BY <2>3, <3>4 DEF Stands
  <2> QED BY <1>2, <2>1, <2>2, <2>3, ToldMoves
<1> QED BY <1>1, <1>2 DEF Reports

-----------------------------------------------------------------------------
(* The theorems                                                            *)

LEMMA InitSafe == Init => IInv
<1> SUFFICES ASSUME Init PROVE IInv OBVIOUS
<1>1. TypeOK
  <2>1. 1 \in 1..(RawChunks + CleanChunks + 2) BY ChunksAssumption
  <2>2. NoCall \in Calls BY DEF NoCall, Calls
  <2>3. call \in [Attempts -> [Lines -> Calls]] BY <2>2 DEF Init
  <2>4. workflow \in [Attempts -> WorkflowRows] BY <2>1 DEF Init, WorkflowRows
  <2>5. faults \in 0..MaxFaults BY FaultsAssumption DEF Init
  <2> QED BY <2>3, <2>4, <2>5 DEF Init, TypeOK, WorkflowRows
<1>2. OneLiveDispatch /\ JobFollowsNewest /\ Generations
  BY DEF Init, OneLiveDispatch, JobFollowsNewest, Generations, Newest, Live
<1>3. AnswersMatchCommits BY DEF Init, AnswersMatchCommits, NoCall, Results, Final
<1>4. Captured
  <2>1. job.revision = 1 /\ \A a \in Attempts : dispatcher[a] = [step |-> "idle", seen |-> 0]
    BY DEF Init
  <2>2. \A a \in Attempts : call[a]["resolver"] = NoCall BY DEF Init, Lines
  <2>3. ASSUME NEW a \in Attempts
        PROVE  /\ dispatcher[a].step = "idle" /\ dispatcher[a].seen = 0
               /\ call[a]["resolver"].phase = "idle" /\ call[a]["resolver"].tx = "none"
    BY <2>1, <2>2 DEF NoCall
  <2>4. 0 <= job.revision BY <2>1
  <2> QED BY <2>3, <2>4 DEF Captured
<1>5. Resolved /\ Reports BY DEF Init, Resolved, Reports, Stands, NoCall, Lines, Final
<1> QED BY <1>1, <1>2, <1>3, <1>4, <1>5 DEF IInv

LEMMA StepSafe == IInv /\ [Next]_vars => IInv'
BY Typed, TablesKept, AnswersKept, CapturedKept, ResolvedKept, ReportsKept DEF IInv, Tables

\* The strengthened invariant of the dispatch holds in every reachable state.
THEOREM DispatchSafe == Spec => []IInv
BY InitSafe, StepSafe, PTL DEF Spec

\* Every variable of the dispatch keeps its type, the faults their bound.
THEOREM DispatchTyped == Spec => []TypeOK
<1>1. IInv => TypeOK BY DEF IInv
<1> QED BY <1>1, DispatchSafe, PTL

\* However many attempts overlap, at most the newest one's dispatch is alive.
THEOREM OneDispatchLives == Spec => []OneLiveDispatch
<1>1. IInv => OneLiveDispatch BY DEF IInv
<1> QED BY <1>1, DispatchSafe, PTL

\* The status of the job is that of its newest dispatch.
THEOREM JobsFollow == Spec => []JobFollowsNewest
<1>1. IInv => JobFollowsNewest BY DEF IInv
<1> QED BY <1>1, DispatchSafe, PTL

\* What the admission bridge answers is what was committed.
THEOREM AnswersAreCommits == Spec => []AnswersMatchCommits
<1>1. IInv => AnswersMatchCommits BY DEF IInv
<1> QED BY <1>1, DispatchSafe, PTL

\* A write is the newest dispatch's, and its dispatcher has not been told that
\* the attempt ended: a told attempt stands, so it takes no write.
THEOREM WritesStayCurrent == Spec => WritesAreCurrent
<1> DEFINE Current == \A a \in Attempts : receipts'[a] # receipts[a] =>
                         Newest(a) /\ told[a] \notin Final \cup {"absent"}
<1>1. IInv /\ [Next]_vars => Current
  <2> SUFFICES ASSUME IInv, [Next]_vars, NEW a \in Attempts, receipts'[a] # receipts[a]
               PROVE  Newest(a) /\ told[a] \notin Final \cup {"absent"}
    OBVIOUS
  <2>1. Next /\ ~UNCHANGED rows BY DEF vars, rows
  <2>2. PICK b \in Attempts :
          \/ MayIssue(b) /\ IssueRows(b)
          \/ ReconcileRows(b)
          \/ \E w \in Writes : MayApply(b, w) /\ (ApplyRows(b, w) \/ WriteFailedRows(b, w))
    BY <2>1, RowsMove
  <2>3. PICK w \in Writes : MayApply(b, w) /\ (ApplyRows(b, w) \/ WriteFailedRows(b, w))
    BY <2>2 DEF IssueRows, ReconcileRows
  <2>4. a = b BY <2>3 DEF ApplyRows, WriteFailedRows, IInv, TypeOK
  <2>5. dispatch[a].state \in Live BY <2>3, <2>4 DEF MayApply
  <2>6. Newest(a) BY <2>5, LiveIsNewest DEF IInv, Tables
  <2>7. Stands(a, told[a]) BY DEF IInv, Reports
  <2>8. told[a] \notin Final \cup {"absent"} BY <2>5, <2>7 DEF Stands, Live, Final
  <2> QED BY <2>6, <2>8
<1>2. IInv /\ [Next]_vars => [Current]_vars BY <1>1
<1> QED BY <1>2, DispatchSafe, PTL DEF Spec, WritesAreCurrent

\* A verdict once reached is not changed by any step.
LEMMA VerdictKept ==
  ASSUME IInv, Next, NEW b \in Attempts
  PROVE  /\ Verdict(b)' \in {"open", "never"} \cup Final
         /\ Verdict(b) # "open" => Verdict(b)' = Verdict(b)
<1>0. /\ dispatch[b].state \in {"absent"} \cup Live \cup Final
      /\ dispatch'[b].state \in {"absent"} \cup Live \cup Final
      /\ dispatcher[b].seen \in Nat /\ job.revision \in Nat
  <2>1. TypeOK' BY Typed DEF IInv
  <2> QED BY <2>1 DEF IInv, TypeOK
<1>1. Verdict(b)' \in {"open", "never"} \cup Final BY <1>0 DEF Verdict, Live, Final
<1>2. CASE dispatch[b].state \in Final
  <2>1. dispatch'[b].state = dispatch[b].state BY <1>2, Kept DEF IInv
  <2> QED BY <1>1, <1>2, <2>1 DEF Verdict, Live, Final
<1>3. CASE dispatch[b].state = "absent" /\ dispatcher[b].seen \in 1..(job.revision - 1)
  <2>1. Stands(b, "absent") BY <1>3 DEF Stands, Final
  <2>2. dispatcher'[b].seen = dispatcher[b].seen
    BY <1>0, <1>3, SeenKept DEF IInv, Captured, Trigger
  <2>3. dispatch'[b].state = "absent" /\ dispatcher'[b].seen \in 1..(job'.revision - 1)
    BY <2>1, <2>2, StandsKept DEF IInv
  <2> QED BY <1>1, <1>3, <2>3 DEF Verdict
<1>4. CASE Verdict(b) = "open" BY <1>1, <1>4
<1> QED BY <1>0, <1>2, <1>3, <1>4 DEF Verdict

\* A report that changes is the verdict, and only its own attempt's changes.
LEMMA ReportMoves ==
  ASSUME IInv, Next
  PROVE  \/ \A b \in Attempts : Reported(b)' = Reported(b)
         \/ \E a \in Attempts : Outcome!Report(a)
<1>1. TypeOK BY DEF IInv
<1>2. CASE \E a \in Attempts : Confirmed(a)
  <2>1. PICK a \in Attempts : Confirmed(a) BY <1>2
  <2>2. /\ UNCHANGED <<rows, dispatch, job>>
        /\ dispatcher' = [dispatcher EXCEPT ![a].step = "ended"]
        /\ told' = [told EXCEPT ![a] = call[a]["resolver"].answer]
        /\ dispatcher[a].step = "reconciling"
        /\ call[a]["resolver"].answer \in Final \cup {"absent"}
    BY <2>1 DEF Confirmed, End, Goto, rows
  <2>3. call[a]["resolver"].tx = call[a]["resolver"].answer
    BY <2>2 DEF IInv, AnswersMatchCommits, Results, Lines
  <2>4. Stands(a, call[a]["resolver"].answer) BY <2>3 DEF IInv, Resolved
  <2>5. told[a] = "none" BY <2>2 DEF IInv, Reports
  <2>6. \A b \in Attempts : dispatcher'[b].seen = dispatcher[b].seen BY <1>1, <2>2 DEF TypeOK
  <2>7. \A b \in Attempts : Verdict(b)' = Verdict(b) BY <2>2, <2>6 DEF Verdict
  <2>8. \A b \in Attempts : Reported(b)' =
           IF b = a THEN Reported(a)' ELSE Reported(b)
    BY <1>1, <2>2 DEF Reported, TypeOK
  <2>9. told'[a] = call[a]["resolver"].answer BY <1>1, <2>2 DEF TypeOK
  <2>10. Reported(a)' = Verdict(a) /\ Verdict(a) # "open"
    BY <2>2, <2>4, <2>9 DEF Reported, Verdict, Stands, Live, Final
  <2>11. Reported(a) = "none" BY <2>5 DEF Reported, Final
  <2>12. Outcome!Report(a) BY <2>7, <2>8, <2>10, <2>11 DEF Outcome!Report
  <2> QED BY <2>12
<1>3. CASE ~\E a \in Attempts : Confirmed(a)
  <2>1. ASSUME NEW b \in Attempts PROVE Reported(b)' = Reported(b)
    <3>1. CASE told'[b] = told[b] BY <3>1 DEF Reported
    <3>2. CASE /\ dispatcher[b].step \notin {"idle", "ended"}
               /\ told'[b] \in {"unavailable", "died", "uncertain"}
      <4>1. told[b] = "none" BY <3>2 DEF IInv, Reports
      <4> QED BY <3>2, <4>1 DEF Reported, Final
    <3> QED BY <1>1, <1>3, <3>1, <3>2, ToldMoves
  <2> QED BY <2>1
<1> QED BY <1>2, <1>3

\* Whoever dispatches a buyer search gets the outcomes AttemptOutcome promises.
THEOREM OutcomeRefined == Spec => ImplementsOutcome
<1>1. Init => Outcome!Init
  BY DEF Init, Outcome!Init, Verdict, Reported, Final
<1>2. IInv /\ [Next]_vars =>
        [Outcome!Next]_<<[a \in Attempts |-> Verdict(a)], [a \in Attempts |-> Reported(a)]>>
  <2> SUFFICES ASSUME IInv, [Next]_vars
               PROVE  \/ Outcome!Next
                      \/ /\ [a \in Attempts |-> Verdict(a)]' = [a \in Attempts |-> Verdict(a)]
                         /\ [a \in Attempts |-> Reported(a)]' = [a \in Attempts |-> Reported(a)]
    OBVIOUS
  <2>1. CASE UNCHANGED vars BY <2>1 DEF vars, rows, Verdict, Reported
  <2>2. CASE Next /\ \A b \in Attempts : Reported(b)' = Reported(b)
    <3>1. Outcome!Decide
      <4>1. \A b \in Attempts : /\ Verdict(b)' \in {"open", "never"} \cup Final
                                /\ Verdict(b) # "open" => Verdict(b)' = Verdict(b)
        BY <2>2, VerdictKept
      <4> QED BY <2>2, <4>1 DEF Outcome!Decide, Outcome!Verdicts, Final
    <3> QED BY <3>1 DEF Outcome!Next
  <2>3. CASE Next /\ \E a \in Attempts : Outcome!Report(a) BY <2>3 DEF Outcome!Next
  <2> QED BY <2>1, <2>2, <2>3, ReportMoves
<1> QED BY <1>1, <1>2, DispatchSafe, PTL DEF Spec, ImplementsOutcome, Outcome!Spec
=============================================================================
