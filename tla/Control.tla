------------------------------ MODULE Control -------------------------------
(***************************************************************************)
(* What administrators do to tasks through the API server                   *)
(* (taskRoute, /api/stop, apps/api/server.js) and what channels do through   *)
(* the cancellation path (packages/unified-input/unified.js).  A handler is  *)
(* several statements with the workers of other processes in between; the    *)
(* API process runs one handler at a time, the Telegram bot another.         *)
(***************************************************************************)
EXTENDS TaskEngine

CONSTANT MaxAsks   \* bound: requests made

VARIABLES
    desk,         \* the handler the API process is in
    cancelling,   \* tasks a cancellation has found unfinished
    asks          \* requests made so far

controlVars == <<desk, cancelling, asks>>

ASSUME ControlAssumption == MaxAsks \in Nat

NoRequest == [op |-> "none"]
Request == [op : {"approve", "reject", "pause", "resume"}, task : Task,
            step : {"find", "insert", "decide", "apply"}]

ControlInit == desk = NoRequest /\ cancelling = {} /\ asks = 0

Ask == asks < MaxAsks /\ asks' = asks + 1
Opens(op, t, step) == desk' = [op |-> op, task |-> t, step |-> step]
In(op, step) == desk # NoRequest /\ desk.op = op /\ desk.step = step
Onto(step) == desk' = [desk EXCEPT !.step = step]
Replies == desk' = NoRequest

\* Mutant: only the restricted tasks are refused.
ElevatableDenied(t) == ~profile[t].restricted

\* "task authority cannot be elevated": denied and restricted tasks are refused.
Elevatable(t) == profile[t].decision # "denied" /\ ~profile[t].restricted

\* The status is read once, on entry.
Approve(t) ==
    /\ desk = NoRequest /\ Ask
    /\ Exists(t) /\ Elevatable(t)
    /\ status[t] # "waiting_for_manual_response"
    /\ Opens("approve", t, "find")
    /\ UNCHANGED <<engineVars, cancelling>>

Pause(t) ==
    /\ desk = NoRequest /\ Ask
    /\ Exists(t) /\ Elevatable(t)
    /\ status[t] # "waiting_for_manual_response"
    /\ Opens("pause", t, "apply")
    /\ UNCHANGED <<engineVars, cancelling>>

Resume(t) ==
    /\ desk = NoRequest /\ Ask
    /\ Exists(t) /\ Elevatable(t)
    /\ status[t] = "waiting_for_approval"
    /\ Opens("resume", t, "apply")
    /\ UNCHANGED <<engineVars, cancelling>>

Reject(t) ==
    /\ desk = NoRequest /\ Ask
    /\ Exists(t)
    /\ Opens("reject", t, "decide")
    /\ UNCHANGED <<engineVars, cancelling>>

\* approve creates the missing row of a task whose policy asks for one.
FindPending ==
    /\ In("approve", "find")
    /\ Onto(IF NonePending(desk.task) /\ profile[desk.task].decision = "approval_required"
            THEN "insert" ELSE "decide")
    /\ UNCHANGED <<engineVars, cancelling, asks>>

InsertRow ==
    /\ In("approve", "insert")
    /\ CreateApproval(desk.task, FALSE)
    /\ Onto("decide")
    /\ UNCHANGED <<cancelling, asks>>

\* A row that has expired refuses the approval; no row at all does not.
DecideRow(op, d) ==
    /\ In(op, "decide")
    /\ LET t == desk.task
           gone == \E i \in 1..Len(approvals[t]) : NewestPending(t, i) /\ approvals[t][i].cold
       IN  /\ DecideApproval(t, d) \/ (NonePending(t) /\ UNCHANGED engineVars)
           /\ IF op = "approve" /\ gone THEN Replies ELSE Onto("apply")
    /\ UNCHANGED <<cancelling, asks>>

Target == [approve |-> "queued", resume |-> "queued",
           pause |-> "waiting_for_approval", reject |-> "cancelled"]

\* The handler's transition names no claim and repeats no check.
Apply ==
    /\ desk # NoRequest /\ desk.step = "apply"
    /\ Transition(desk.task, Target[desk.op], NoClaim)
    /\ Replies
    /\ UNCHANGED <<cancelling, asks>>

\* requestCancellation, from the API or a channel: look, then cancel.
CancelLooks(t) ==
    /\ Ask
    /\ Exists(t)
    /\ status[t] \notin {"completed", "failed", "cancelled"}
    /\ cancelling' = cancelling \cup {t}
    /\ UNCHANGED <<engineVars, desk>>

CancelApplies(t) ==
    /\ t \in cancelling
    /\ Transition(t, "cancelled", NoClaim)
    /\ cancelling' = cancelling \ {t}
    /\ UNCHANGED <<desk, asks>>

\* /api/stop and /api/stop/reset
EmergencyStop(on) ==
    /\ desk = NoRequest /\ Ask
    /\ SetStop(on)
    /\ UNCHANGED <<desk, cancelling>>

Asking ==
    \/ \E t \in Task : Approve(t) \/ Pause(t) \/ Resume(t) \/ Reject(t) \/ CancelLooks(t)
    \/ \E on \in BOOLEAN : EmergencyStop(on)

Handling ==
    \/ FindPending \/ InsertRow
    \/ DecideRow("approve", "approved") \/ DecideRow("reject", "rejected")
    \/ Apply
    \/ \E t \in Task : CancelApplies(t)

\* The API process dies in the middle of a handler.
DeskAborts ==
    /\ desk # NoRequest
    /\ Replies
    /\ UNCHANGED <<engineVars, cancelling, asks>>

=============================================================================
