---------------------------- MODULE BuyerDispatch ----------------------------
(***************************************************************************)
(* The scoped dispatch of a buyer search.  A dispatcher in the frontend    *)
(* (buyer-scoped-dispatch.ts) issues a dispatch, calls a workflow and asks *)
(* what became of the dispatch; the workflow (n8n-workflow.js) writes the  *)
(* sales chunk by chunk; every call goes through the admission bridge      *)
(* (admission-bridge.js) to a routine of the database (sql/install.sql),   *)
(* where it is one transaction under the lock of the job.  Several         *)
(* attempts at one job overlap; a request, an answer or a transaction may  *)
(* be lost, and a transaction may commit after its caller gave up.         *)
(***************************************************************************)
EXTENDS Naturals, Sequences

CONSTANTS
    Attempts,       \* dispatchers of one job, one per trigger
    RawChunks,      \* chunks of raw sales the workflow writes
    CleanChunks,    \* chunks of clean sales it writes after them
    MaxFaults       \* bound on losses, failures, timeouts and deaths

ASSUME ChunksAssumption ==
    RawChunks \in Nat /\ CleanChunks \in Nat /\ (RawChunks = 0 => CleanChunks = 0)
ASSUME FaultsAssumption == MaxFaults \in Nat

VARIABLES
    job,        \* the SearchJob row: its status and its revision (updated_at)
    dispatch,   \* per attempt, the dispatches row its request id names
    receipts,   \* per attempt, the receipt of every write
    expired,    \* the attempts whose dispatch has expired
    dispatcher, \* per attempt, its dispatcher and the revision it captured
    workflow,   \* per attempt, its workflow execution
    call,       \* per attempt and line, the call on it
    told,       \* per attempt, how dispatchScopedBuyer ended
    faults

rows == <<job, dispatch, receipts>>
vars == <<rows, expired, dispatcher, workflow, call, told, faults>>

-----------------------------------------------------------------------------
(* Types.                                                                  *)

Write(kind, index) == [kind |-> kind, index |-> index]
Raw == {Write("raw.append", i) : i \in 0..(RawChunks - 1)}
Clean == {Write("clean.append", i) : i \in 0..(CleanChunks - 1)}
Start == Write("start", 0)
Commit == Write("buyers.commit", 0)
Complete == Write("complete", 0)
Fail == Write("fail", 0)
Writes == Raw \cup Clean \cup {Start, Commit, Complete, Fail}

\* What planBuyerWrites makes of good sources, and the one write of bad ones.
Plan == [i \in 1..(RawChunks + CleanChunks + 2) |->
           IF i <= RawChunks THEN Write("raw.append", i - 1)
           ELSE IF i <= RawChunks + CleanChunks
           THEN Write("clean.append", i - RawChunks - 1)
           ELSE IF i = RawChunks + CleanChunks + 1 THEN Commit ELSE Complete]
Plans == {Plan, <<Fail>>}

Live == {"pending", "processing"}
Final == {"completed", "failed", "cancelled"}
Lines == {"issuer", "writer", "resolver"}
NoCall == [phase |-> "idle", tx |-> "none", answer |-> "none"]
Sent == [phase |-> "sent", tx |-> "none", answer |-> "none"]
Results == {"ok", "writeFailed", "absent"} \cup Final
Calls == [phase : {"idle", "sent", "executing", "correlating", "answered"},
          tx : {"none", "open", "refused", "aborted"} \cup Results,
          answer : {"none", "refused", "unknown"} \cup Results]

\* The type of every variable.
TypeOK ==
    /\ job \in [status : {"pending", "processing", "completed", "failed"},
                revision : Nat \ {0}]
    /\ dispatch \in [Attempts -> [state : {"absent"} \cup Live \cup Final,
                                  generation : Nat]]
    /\ receipts \in [Attempts -> [Writes -> {"none", "ok", "failed"}]]
    /\ expired \subseteq Attempts
    /\ dispatcher \in [Attempts ->
         [step : {"idle", "acquiring", "issuing", "calling", "reconciling", "ended"},
          seen : Nat]]
    /\ workflow \in [Attempts ->
         [step : {"none", "sent", "starting", "reading", "writing", "responded",
                  "stopped"},
          plan : Plans \cup {<< >>}, next : 1..(RawChunks + CleanChunks + 2)]]
    /\ call \in [Attempts -> [Lines -> Calls]]
    /\ told \in [Attempts -> {"none", "unavailable", "died", "uncertain", "absent"}
                             \cup Final]
    /\ faults \in 0..MaxFaults

Init ==
    /\ job = [status |-> "pending", revision |-> 1]
    /\ dispatch = [a \in Attempts |-> [state |-> "absent", generation |-> 0]]
    /\ receipts = [a \in Attempts |-> [w \in Writes |-> "none"]]
    /\ expired = {}
    /\ dispatcher = [a \in Attempts |-> [step |-> "idle", seen |-> 0]]
    /\ workflow = [a \in Attempts |-> [step |-> "none", plan |-> << >>, next |-> 1]]
    /\ call = [a \in Attempts |-> [l \in Lines |-> NoCall]]
    /\ told = [a \in Attempts |-> "none"]
    /\ faults = 0

Fault == faults < MaxFaults /\ faults' = faults + 1

-----------------------------------------------------------------------------
(* The routines of the database.  Each is a transaction under the lock of  *)
(* the job, so each is one step.  The counters of a dispatch (raw_next,    *)
(* clean_next, buyers_committed) move only together with a receipt, and    *)
(* are read off the receipts here.                                         *)

Written(a, w) == receipts[a][w] = "ok"

\* No dispatch of the job has a higher generation.
Newest(a) ==
    /\ dispatch[a].state # "absent"
    /\ \A b \in Attempts : dispatch[b].generation <= dispatch[a].generation

MoveJob(status) == job' = [status |-> status, revision |-> job.revision + 1]

\* issue: only at the revision the dispatcher captured, and over its rivals.
MayIssue(a) ==
    /\ job.revision = dispatcher[a].seen
    /\ dispatch[a].state = "absent"

\* Mutant: the issue leaves its rivals alone.
IssueRowsBeside(a) ==
    /\ \E top \in Attempts :
          /\ \A b \in Attempts : dispatch[b].generation <= dispatch[top].generation
          /\ dispatch' = [dispatch EXCEPT ![a] =
                [state |-> "pending", generation |-> dispatch[top].generation + 1]]
    /\ MoveJob("pending")
    /\ UNCHANGED receipts

IssueRows(a) ==
    /\ \E top \in Attempts :
          /\ \A b \in Attempts : dispatch[b].generation <= dispatch[top].generation
          /\ dispatch' = [b \in Attempts |->
                IF b = a
                THEN [state |-> "pending", generation |-> dispatch[top].generation + 1]
                ELSE IF dispatch[b].state \in Live
                THEN [dispatch[b] EXCEPT !.state = "cancelled"]
                ELSE dispatch[b]]
    /\ MoveJob("pending")
    /\ UNCHANGED receipts

\* reconcile: an attempt still alive is cancelled; one that was never issued
\* is kept from it by moving the job on from the revision it captured.
ReconciledState(a) ==
    IF dispatch[a].state \in Live THEN "cancelled" ELSE dispatch[a].state

\* Mutant: an attempt that was never issued is reported and left possible.
ReconcileRowsLenient(a) ==
    /\ dispatch' = [dispatch EXCEPT ![a].state = ReconciledState(a)]
    /\ IF dispatch[a].state \in Live /\ Newest(a)
       THEN MoveJob("failed")
       ELSE UNCHANGED job
    /\ UNCHANGED receipts

ReconcileRows(a) ==
    /\ dispatch' = [dispatch EXCEPT ![a].state = ReconciledState(a)]
    /\ IF dispatch[a].state = "absent" /\ job.revision = dispatcher[a].seen
       THEN MoveJob(job.status)
       ELSE IF dispatch[a].state \in Live /\ Newest(a)
       THEN MoveJob("failed")
       ELSE UNCHANGED job
    /\ UNCHANGED receipts

\* apply: what it accepts of each write.
NextOf(a, chunks, w) ==
    \A v \in chunks : Written(a, v) <=> v.index < w.index

\* Mutant: a failure is taken from a dispatch that was superseded.
MayApplyLate(a, w) ==
    /\ a \notin expired
    /\ receipts[a][w] = "none"
    /\ \/ w = Start /\ dispatch[a].state = "pending" /\ job.status = "pending"
       \/ w \in Raw \cup Clean \cup {Commit} /\ dispatch[a].state = "processing"
       \/ w = Complete /\ dispatch[a].state = "processing" /\ Written(a, Commit)
       \/ w = Fail

MayApply(a, w) ==
    /\ dispatch[a].state \in Live
    /\ a \notin expired
    /\ receipts[a][w] = "none"
    /\ \/ /\ w = Start
          /\ dispatch[a].state = "pending"
          /\ job.status = "pending"
       \/ /\ w \in Raw
          /\ dispatch[a].state = "processing"
          /\ ~Written(a, Commit)
          /\ NextOf(a, Raw, w)
          /\ \A v \in Clean : ~Written(a, v)
       \/ /\ w \in Clean
          /\ dispatch[a].state = "processing"
          /\ ~Written(a, Commit)
          /\ \A v \in Raw : Written(a, v)
          /\ NextOf(a, Clean, w)
       \/ /\ w = Commit
          /\ dispatch[a].state = "processing"
          /\ (\E v \in Raw : Written(a, v)) => \A v \in Raw \cup Clean : Written(a, v)
       \/ /\ w = Complete
          /\ dispatch[a].state = "processing"
          /\ Written(a, Commit)
       \/ w = Fail

StateAfter(w, state) ==
    CASE w = Start -> "processing"
      [] w = Complete -> "completed"
      [] w = Fail -> "failed"
      [] OTHER -> state

ApplyRows(a, w) ==
    /\ receipts' = [receipts EXCEPT ![a][w] = "ok"]
    /\ dispatch' = [dispatch EXCEPT ![a].state = StateAfter(w, @)]
    /\ IF w \in {Start, Complete, Fail}
       THEN MoveJob(StateAfter(w, "processing")) ELSE UNCHANGED job

\* Mutant: the failure is kept for the dispatch and not for the job.
WriteFailedRowsQuietly(a, w) ==
    /\ receipts' = [receipts EXCEPT ![a][w] = "failed"]
    /\ dispatch' = [dispatch EXCEPT ![a].state = "failed"]
    /\ UNCHANGED job

\* The effects of a write are rolled back, the failure is kept.
WriteFailedRows(a, w) ==
    /\ receipts' = [receipts EXCEPT ![a][w] = "failed"]
    /\ dispatch' = [dispatch EXCEPT ![a].state = "failed"]
    /\ MoveJob("failed")

-----------------------------------------------------------------------------
(* A call.  The bridge reserves the admission of the call, executes it,    *)
(* and when that gives no definite result asks what the admission row      *)
(* says.  The row is reserved until a transaction that changes it commits. *)

\* What the workflow of an attempt is writing.
CurrentWrite(a) ==
    IF workflow[a].plan = << >> THEN Start ELSE workflow[a].plan[workflow[a].next]

SetCall(a, l, phase, tx, answer) ==
    call' = [call EXCEPT ![a][l] = [phase |-> phase, tx |-> tx, answer |-> answer]]

others == <<expired, dispatcher, workflow, told>>

\* reserve_operation: the admission row is there, the call executes.
Reserve(a, l) ==
    /\ call[a][l].phase = "sent"
    /\ SetCall(a, l, "executing", "open", "none")
    /\ UNCHANGED <<rows, others, faults>>

\* The request is lost, or the reservation is late or fails.
NotReserved(a, l) ==
    /\ call[a][l].phase = "sent"
    /\ SetCall(a, l, "answered", "none", "unknown")
    /\ Fault
    /\ UNCHANGED <<rows, others>>

Ends(a, l, tx) ==
    SetCall(a, l, call[a][l].phase, tx, call[a][l].answer) /\ UNCHANGED others

\* The transaction commits, however long ago its caller stopped waiting.
Executes(a, l) ==
    /\ call[a][l].tx = "open"
    /\ \/ /\ l = "issuer"
          /\ MayIssue(a)
          /\ IssueRows(a)
          /\ Ends(a, l, "ok")
       \/ /\ l = "writer"
          /\ MayApply(a, CurrentWrite(a))
          /\ ApplyRows(a, CurrentWrite(a))
          /\ Ends(a, l, "ok")
       \/ /\ l = "resolver"
          /\ ReconcileRows(a)
          /\ Ends(a, l, ReconciledState(a))
    /\ UNCHANGED faults

\* The effects of the write fail in the database.
ExecutesBadly(a) ==
    /\ call[a]["writer"].tx = "open"
    /\ MayApply(a, CurrentWrite(a))
    /\ WriteFailedRows(a, CurrentWrite(a))
    /\ Ends(a, "writer", "writeFailed")
    /\ Fault

\* The routine raises, and the transaction leaves nothing behind.
Refuses(a, l) ==
    /\ call[a][l].tx = "open"
    /\ \/ l = "issuer" /\ ~MayIssue(a)
       \/ l = "writer" /\ ~MayApply(a, CurrentWrite(a))
    /\ Ends(a, l, "refused")
    /\ UNCHANGED <<rows, faults>>

\* The transaction is lost with its connection, or times out on the lock.
Aborts(a, l) ==
    /\ call[a][l].tx = "open"
    /\ Ends(a, l, "aborted")
    /\ Fault
    /\ UNCHANGED rows

\* The bridge has the result of the execution.
Replies(a, l) ==
    /\ call[a][l].phase = "executing"
    /\ call[a][l].tx \in Results \cup {"refused"}
    /\ SetCall(a, l, "answered", call[a][l].tx, call[a][l].tx)
    /\ UNCHANGED <<rows, others, faults>>

\* It has none: its connection failed, or it waited too long.
TimesOut(a, l) ==
    /\ call[a][l].phase = "executing"
    /\ SetCall(a, l, "correlating", call[a][l].tx, "none")
    /\ \/ call[a][l].tx = "aborted" /\ UNCHANGED faults
       \/ call[a][l].tx # "aborted" /\ Fault
    /\ UNCHANGED <<rows, others>>

\* Mutant: a row still reserved is read as a refusal.
CorrelatedHastily(tx) == IF tx \in Results THEN tx ELSE "refused"

\* correlate_admission: the result in the admission row, if there is one.
Correlated(tx) == IF tx \in Results THEN tx ELSE "unknown"

Correlates(a, l) ==
    /\ call[a][l].phase = "correlating"
    /\ SetCall(a, l, "answered", call[a][l].tx, Correlated(call[a][l].tx))
    /\ UNCHANGED <<rows, others, faults>>

\* The correlation gets no answer: a fault counted when the call had none.
CorrelationLost(a, l) ==
    /\ call[a][l].phase = "correlating"
    /\ SetCall(a, l, "answered", call[a][l].tx, "unknown")
    /\ UNCHANGED <<rows, others, faults>>

-----------------------------------------------------------------------------
(* The workflow: start, read the context, write the plan; it stops at the  *)
(* first answer that is not a receipt of what it wrote.                    *)

SetWorkflow(a, step, plan, next) ==
    workflow' = [workflow EXCEPT ![a] = [step |-> step, plan |-> plan, next |-> next]]

SendWrite(a) == call' = [call EXCEPT ![a]["writer"] = Sent]

Elsewhere(a) == UNCHANGED <<rows, expired, dispatcher, told>>

\* The webhook takes the request.
Intake(a) ==
    /\ workflow[a].step = "sent"
    /\ SetWorkflow(a, "starting", << >>, 1)
    /\ SendWrite(a)
    /\ Elsewhere(a) /\ UNCHANGED faults

Started(a) ==
    /\ workflow[a].step = "starting"
    /\ call[a]["writer"].answer = "ok"
    /\ SetWorkflow(a, "reading", << >>, 1)
    /\ UNCHANGED call
    /\ Elsewhere(a) /\ UNCHANGED faults

\* context gives the sources to the newest, running, unexpired dispatch only.
ReadContext(a) ==
    /\ workflow[a].step = "reading"
    /\ dispatch[a].state = "processing" /\ Newest(a) /\ a \notin expired
    /\ \E plan \in Plans : SetWorkflow(a, "writing", plan, 1)
    /\ SendWrite(a)
    /\ Elsewhere(a) /\ UNCHANGED faults

ContextRefused(a) ==
    /\ workflow[a].step = "reading"
    /\ ~(dispatch[a].state = "processing" /\ Newest(a) /\ a \notin expired)
    /\ SetWorkflow(a, "stopped", << >>, 1)
    /\ UNCHANGED call
    /\ Elsewhere(a) /\ UNCHANGED faults

\* A receipt: the next write, or the answer to the webhook.
NextWrite(a) ==
    /\ workflow[a].step = "writing"
    /\ call[a]["writer"].answer = "ok"
    /\ LET w == workflow[a] IN
       IF w.next < Len(w.plan)
       THEN SetWorkflow(a, "writing", w.plan, w.next + 1) /\ SendWrite(a)
       ELSE /\ SetWorkflow(a, IF w.plan = Plan THEN "responded" ELSE "stopped",
                           w.plan, w.next)
            /\ UNCHANGED call
    /\ Elsewhere(a) /\ UNCHANGED faults

Stop(a) ==
    /\ SetWorkflow(a, "stopped", workflow[a].plan, workflow[a].next)
    /\ UNCHANGED call
    /\ Elsewhere(a)

\* Any other answer ends the execution, and nothing is retried.
WriteRejected(a) ==
    /\ workflow[a].step \in {"starting", "writing"}
    /\ call[a]["writer"].answer \in {"refused", "unknown", "writeFailed"}
    /\ Stop(a) /\ UNCHANGED faults

\* A request is lost or times out, or the execution reaches its time limit.
WorkflowLost(a) ==
    /\ workflow[a].step \in {"sent", "starting", "reading", "writing"}
    /\ Stop(a) /\ Fault

-----------------------------------------------------------------------------
(* The dispatcher.                                                         *)

Goto(a, step) == dispatcher' = [dispatcher EXCEPT ![a].step = step]
End(a, answer) == Goto(a, "ended") /\ told' = [told EXCEPT ![a] = answer]
Resolve(a) ==
    /\ Goto(a, "reconciling")
    /\ call' = [call EXCEPT ![a]["resolver"] = Sent]
    /\ UNCHANGED <<rows, expired, workflow, told>>

\* A trigger reads the job, its revision included; acquisition takes a while.
Trigger(a) ==
    /\ dispatcher[a].step = "idle"
    /\ dispatcher' = [dispatcher EXCEPT ![a] =
                        [step |-> "acquiring", seen |-> job.revision]]
    /\ UNCHANGED <<rows, expired, workflow, call, told, faults>>

\* No source, no owner or no time left: nothing was sent.
AcquisitionFails(a) ==
    /\ dispatcher[a].step = "acquiring"
    /\ End(a, "unavailable")
    /\ UNCHANGED <<rows, expired, workflow, call, faults>>

PostIssuance(a) ==
    /\ dispatcher[a].step = "acquiring"
    /\ Goto(a, "issuing")
    /\ call' = [call EXCEPT ![a]["issuer"] = Sent]
    /\ UNCHANGED <<rows, expired, workflow, told, faults>>

\* The dispatch is issued and its owner still current: call the workflow.
PostWebhook(a) ==
    /\ dispatcher[a].step = "issuing"
    /\ call[a]["issuer"].answer = "ok"
    /\ Goto(a, "calling")
    /\ SetWorkflow(a, "sent", << >>, 1)
    /\ UNCHANGED <<rows, expired, call, told, faults>>

\* Mutant: an attempt whose posts failed ends without asking.
ReconcileAnswered(a) ==
    \/ /\ dispatcher[a].step = "calling"
       /\ workflow[a].step = "responded"
       /\ Resolve(a)
       /\ UNCHANGED faults
    \/ /\ dispatcher[a].step = "calling" => workflow[a].step = "stopped"
       /\ dispatcher[a].step = "issuing" =>
            call[a]["issuer"].answer \in {"refused", "unknown"}
       /\ dispatcher[a].step \in {"issuing", "calling"}
       /\ End(a, "unavailable")
       /\ UNCHANGED <<rows, expired, workflow, call, faults>>

\* Whatever else comes of the two posts, the attempt is reconciled.
Reconcile(a) ==
    /\ \/ /\ dispatcher[a].step = "issuing"
          /\ call[a]["issuer"].answer \in {"refused", "unknown"}
          /\ UNCHANGED faults
       \/ /\ dispatcher[a].step = "calling"
          /\ workflow[a].step \in {"responded", "stopped"}
          /\ UNCHANGED faults
       \/ /\ dispatcher[a].step \in {"issuing", "calling"}
          /\ Fault
    /\ Resolve(a)

Confirmed(a) ==
    /\ dispatcher[a].step = "reconciling"
    /\ call[a]["resolver"].answer \in Final \cup {"absent"}
    /\ End(a, call[a]["resolver"].answer)
    /\ UNCHANGED <<rows, expired, workflow, call, faults>>

Unconfirmed(a) ==
    /\ dispatcher[a].step = "reconciling"
    /\ End(a, "uncertain")
    /\ \/ call[a]["resolver"].answer = "unknown" /\ UNCHANGED faults
       \/ Fault
    /\ UNCHANGED <<rows, expired, workflow, call>>

\* The process that runs the dispatcher ends.
Dies(a) ==
    /\ dispatcher[a].step \in {"acquiring", "issuing", "calling", "reconciling"}
    /\ End(a, "died")
    /\ Fault
    /\ UNCHANGED <<rows, expired, workflow, call>>

\* Five minutes after its issue the dispatch takes no more writes.
Expires(a) ==
    /\ dispatch[a].state # "absent"
    /\ a \notin expired
    /\ expired' = expired \cup {a}
    /\ Fault
    /\ UNCHANGED <<rows, dispatcher, workflow, call, told>>

-----------------------------------------------------------------------------

CallSteps(a, l) == \/ Reserve(a, l) \/ Executes(a, l) \/ Refuses(a, l)
                   \/ Replies(a, l) \/ Correlates(a, l)
CallFaults(a, l) == \/ NotReserved(a, l) \/ Aborts(a, l) \/ TimesOut(a, l)
                    \/ CorrelationLost(a, l)
WorkflowSteps(a) == \/ Intake(a) \/ Started(a) \/ ReadContext(a)
                    \/ ContextRefused(a) \/ NextWrite(a) \/ WriteRejected(a)
DispatcherSteps(a) == \/ AcquisitionFails(a) \/ PostIssuance(a) \/ PostWebhook(a)
                      \/ Reconcile(a) \/ Confirmed(a) \/ Unconfirmed(a)
Losses(a) == ExecutesBadly(a) \/ WorkflowLost(a) \/ Dies(a) \/ Expires(a)

Next ==
    \E a \in Attempts :
       \/ \E l \in Lines : CallSteps(a, l) \/ CallFaults(a, l)
       \/ WorkflowSteps(a)
       \/ Trigger(a)
       \/ DispatcherSteps(a)
       \/ Losses(a)

Spec == Init /\ [][Next]_vars

\* Every wait in the chain has a time limit, so a call, an execution or a
\* dispatcher that can go on does.
FairSpec ==
    /\ Spec
    /\ \A a \in Attempts :
          /\ \A l \in Lines : WF_vars(CallSteps(a, l) \/ CallFaults(a, l))
          /\ WF_vars(WorkflowSteps(a))
          /\ WF_vars(DispatcherSteps(a))

-----------------------------------------------------------------------------
(* Properties.                                                             *)

\* At most one dispatch of the job is alive, and it is the newest: an issue
\* cancels what earlier attempts left, also while their workflows write.
OneLiveDispatch ==
    \A a \in Attempts : dispatch[a].state \in Live =>
       \A b \in Attempts \ {a} :
          /\ dispatch[b].state \notin Live
          /\ dispatch[b].generation < dispatch[a].generation

StatusOf(state) == IF state = "cancelled" THEN "failed" ELSE state

\* The status of the job is that of its newest dispatch, whichever of the
\* dispatchers, workflows and late transactions moved either of them last.
JobFollowsNewest ==
    \A a \in Attempts : Newest(a) => job.status = StatusOf(dispatch[a].state)

\* What the bridge answers is so: what it calls done is committed, and what it
\* calls refused neither is nor will be, although it may ask the admission row
\* while the transaction is still open.
AnswersMatchCommits ==
    \A a \in Attempts : \A l \in Lines :
       /\ call[a][l].answer \in Results => call[a][l].tx = call[a][l].answer
       /\ call[a][l].answer = "refused" => call[a][l].tx = "refused"

\* A write reaches the job only for its newest dispatch, and never after the
\* dispatcher of that attempt was told what became of it.
WritesAreCurrent ==
    [][\A a \in Attempts : receipts'[a] # receipts[a] =>
         Newest(a) /\ told[a] \notin Final \cup {"absent"}]_vars

Verdict(a) ==
    CASE dispatch[a].state = "absent" ->
           IF dispatcher[a].seen \in 1..(job.revision - 1) THEN "never" ELSE "open"
      [] dispatch[a].state \in Live -> "open"
      [] OTHER -> dispatch[a].state

Reported(a) ==
    CASE told[a] = "absent" -> "never"
      [] told[a] \in Final -> told[a]
      [] OTHER -> "none"

Outcome == INSTANCE AttemptOutcome WITH
    verdict <- [a \in Attempts |-> Verdict(a)],
    report <- [a \in Attempts |-> Reported(a)]

\* Every attempt has one verdict for good, and what its dispatcher reports is
\* that verdict: an attempt reported absent is never issued by a request that
\* was under way, one reported cancelled or failed is never completed.
ImplementsOutcome == Outcome!Spec

\* A dispatch does not stay alive, unless its dispatcher died or could not
\* learn what became of it.
DispatchesEnd ==
    \A a \in Attempts : dispatch[a].state \in Live ~>
       (dispatch[a].state \notin Live \/ told[a] \in {"died", "uncertain"})
=============================================================================
