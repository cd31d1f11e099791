------------------------------- MODULE Outbox -------------------------------
(***************************************************************************)
(* The Telegram outbox: how a change of a task becomes an event, a delivery  *)
(* and at last a message (transition, recordTaskEvent and the delivery rows  *)
(* of packages/task-engine/tasks.js, drainTelegramOutbox of                  *)
(* packages/unified-input/unified.js, the worker's deliverEvents).           *)
(*                                                                         *)
(* One conversation and one chat.  A step is one statement, one transaction  *)
(* or one call of the Telegram API; processes die between steps.  Message    *)
(* text and redaction are left out.                                         *)
(***************************************************************************)
EXTENDS Integers, Sequences, FiniteSets

CONSTANTS
    Process,        \* the API process and the workers
    Drainer,        \* the workers, which empty the outbox
    Change,         \* changes of tasks
    NoChange,
    MaxAttempts,    \* TELEGRAM_OUTBOX_MAX_ATTEMPTS
    Limit,          \* deliveries a drain takes at once
    MaxFaults       \* bound: deaths of processes

ASSUME OutboxAssumption ==
    /\ Drainer \subseteq Process
    /\ IsFiniteSet(Drainer) /\ Drainer # {}
    /\ NoChange \notin Change
    /\ MaxAttempts \in Nat \ {0}
    /\ Limit \in Nat \ {0}
    /\ MaxFaults \in Nat

VARIABLES
    stage,       \* how far a change is: none, made, recorded or done
    bound,       \* the conversation is bound to a chat
    queue,       \* channel_deliveries by created_at
    delivery,    \* a row's status, its attempts, and whether its retry is not due yet
    process,     \* what a process does: at, for which change, and its batch of the queue
    stop,        \* the emergency stop flag
    sends,       \* history: calls of the Telegram API for a change
    faults       \* deaths so far

tables == <<stage, bound, queue, delivery>>
vars == <<tables, process, stop, sends, faults>>

Stage == {"none", "made", "recorded", "done"}
Row == [status : {"none", "pending", "delivered", "failed"}, attempts : Nat, waits : BOOLEAN]

\* A process is at rest or ready, or busy with one change.
Busy == {"made", "recorded", "send", "sent", "refused", "threw"}
Work == [at : Busy \cup {"flag", "ready"}, change : Change \cup {NoChange}, batch : SUBSET Nat]

NoDelivery == [status |-> "none", attempts |-> 0, waits |-> FALSE]

\* A worker begins with the stop flag; the API process is always ready.
AtRest(p) == [at |-> IF p \in Drainer THEN "flag" ELSE "ready", change |-> NoChange, batch |-> {}]

Is(p, at) == process[p].at = at
Step(p, at) == process' = [process EXCEPT ![p].at = at]

Init ==
    /\ stage = [c \in Change |-> "none"]
    /\ bound \in BOOLEAN
    /\ queue = <<>>
    /\ delivery = [c \in Change |-> NoDelivery]
    /\ process = [p \in Process |-> AtRest(p)]
    /\ stop = FALSE
    /\ sends = [c \in Change |-> 0]
    /\ faults = 0

-----------------------------------------------------------------------------
(* From a change to a delivery                                             *)

\* The loop over the chat bindings at the end of recordTaskEvent.
Enqueue(c, chat) ==
    /\ stage' = [stage EXCEPT ![c] = "done"]
    /\ IF chat
       THEN /\ queue' = Append(queue, c)
            /\ delivery' = [delivery EXCEPT ![c].status = "pending"]
       ELSE UNCHANGED <<queue, delivery>>

\* createUnifiedInput: the binding, the task, its event and its delivery are
\* one transaction.  It reads the stop flag before the transaction, so that a
\* stop may be on when the transaction runs.
CreateUnifiedInput(p, c) ==
    /\ Is(p, "ready") /\ p \notin Drainer
    /\ stage[c] = "none"
    /\ \E chat \in {bound, TRUE} : bound' = chat /\ Enqueue(c, chat)
    /\ UNCHANGED process

\* finalizeCapabilitySuccess: the same for the end of a capability task.
FinalizeCapabilitySuccess(p, c) ==
    /\ Is(p, "ready") /\ p \in Drainer
    /\ ~stop
    /\ stage[c] = "none"
    /\ Enqueue(c, bound)
    /\ UNCHANGED <<bound, process>>

\* transition: the row first, then the event, then the delivery.
UpdateTask(p, c) ==
    /\ Is(p, "ready")
    /\ stage[c] = "none"
    /\ stage' = [stage EXCEPT ![c] = "made"]
    /\ process' = [process EXCEPT ![p].at = "made", ![p].change = c]
    /\ UNCHANGED <<bound, queue, delivery>>

InsertEvent(p) ==
    /\ Is(p, "made")
    /\ stage' = [stage EXCEPT ![process[p].change] = "recorded"]
    /\ Step(p, "recorded")
    /\ UNCHANGED <<bound, queue, delivery>>

\* Mutant: the delivery is withheld while the stop flag is on.
InsertDeliveryUnlessStopped(p) ==
    /\ Is(p, "recorded")
    /\ IF stop THEN UNCHANGED <<stage, queue, delivery>> ELSE Enqueue(process[p].change, bound)
    /\ process' = [process EXCEPT ![p].at = "ready", ![p].change = NoChange]
    /\ UNCHANGED bound

InsertDelivery(p) ==
    /\ Is(p, "recorded")
    /\ Enqueue(process[p].change, bound)
    /\ process' = [process EXCEPT ![p].at = "ready", ![p].change = NoChange]
    /\ UNCHANGED bound

Report(p) ==
    /\ \/ \E c \in Change : CreateUnifiedInput(p, c) \/ FinalizeCapabilitySuccess(p, c) \/ UpdateTask(p, c)
       \/ InsertEvent(p) \/ InsertDelivery(p)
    /\ UNCHANGED sends

-----------------------------------------------------------------------------
(* The drain                                                              *)

\* executeAdmittedTick: a tick passes the stop flag once, at its beginning.
Tick(p) ==
    /\ Is(p, "flag")
    /\ ~stop
    /\ Step(p, "ready")
    /\ UNCHANGED <<tables, sends>>

\* Mutant: a row that failed once is never taken again.
DueFresh(c) == delivery[c].status = "pending" /\ delivery[c].attempts = 0

\* pendingDeliveries: the oldest pending rows whose retry is due.
Due(c) == delivery[c].status = "pending" /\ ~delivery[c].waits

PendingDeliveries ==
    LET due == {i \in 1..Len(queue) : Due(queue[i])}
    IN {i \in due : Cardinality({j \in due : j < i}) < Limit}

\* The next row of a batch, oldest first, or the end of the tick.
GoOn(p, batch) ==
    \/ /\ batch = {}
       /\ process' = [process EXCEPT ![p] = AtRest(p)]
    \/ \E i \in batch :
        /\ \A j \in batch : i <= j
        /\ process' = [process EXCEPT ![p] =
                        [at |-> "send", change |-> queue[i], batch |-> batch \ {i}]]

StartDrain(p) ==
    /\ Is(p, "ready") /\ p \in Drainer
    /\ GoOn(p, PendingDeliveries)
    /\ UNCHANGED <<tables, sends>>

\* dispatchReply: Telegram takes the message or refuses it, or the call throws.
Send(p) ==
    /\ Is(p, "send")
    /\ sends' = [sends EXCEPT ![process[p].change] = @ + 1]
    /\ \E answer \in {"sent", "refused", "threw"} : Step(p, answer)
    /\ UNCHANGED tables

\* Nobody looks at what the answer says: a call that returns has sent.
Returned(p) == Is(p, "sent") \/ Is(p, "refused")

\* Mutant: the row is written again as it was read.
CompleteDeliveryLate(p) ==
    /\ Returned(p)
    /\ GoOn(p, process[p].batch)
    /\ UNCHANGED <<tables, sends>>

\* completeDelivery writes whatever the row has become meanwhile; if the
\* statement throws, the row goes on to failDelivery.
CompleteDelivery(p) ==
    /\ Returned(p)
    /\ \/ /\ delivery' = [delivery EXCEPT ![process[p].change].status = "delivered"]
          /\ GoOn(p, process[p].batch)
       \/ Step(p, "threw") /\ UNCHANGED delivery
    /\ UNCHANGED <<stage, bound, queue, sends>>

\* Mutant: the attempt at hand is not counted.
FailedOnceMore(row) ==
    LET last == row.attempts >= MaxAttempts
    IN [status |-> IF last THEN "failed" ELSE "pending", attempts |-> row.attempts + 1, waits |-> ~last]

\* failDelivery: so does this, a row that another worker delivered included.
Failed(row) ==
    LET last == row.attempts + 1 >= MaxAttempts
    IN [status |-> IF last THEN "failed" ELSE "pending", attempts |-> row.attempts + 1, waits |-> ~last]

\* Mutant: a row that fails takes the rest of its batch with it.
FailBatch(p) ==
    /\ Is(p, "threw")
    /\ delivery' = [c \in Change |->
                    IF c = process[p].change \/ \E i \in process[p].batch : queue[i] = c
                    THEN Failed(delivery[c]) ELSE delivery[c]]
    /\ process' = [process EXCEPT ![p] = AtRest(p)]
    /\ UNCHANGED <<stage, bound, queue, sends>>

FailDelivery(p) ==
    /\ Is(p, "threw")
    /\ delivery' = [delivery EXCEPT ![process[p].change] = Failed(@)]
    /\ GoOn(p, process[p].batch)
    /\ UNCHANGED <<stage, bound, queue, sends>>

Drain(p) == Tick(p) \/ StartDrain(p) \/ Send(p) \/ CompleteDelivery(p) \/ FailDelivery(p)

-----------------------------------------------------------------------------
(* Everyone together                                                      *)

Acts(p) == (Report(p) \/ Drain(p)) /\ UNCHANGED <<stop, faults>>

RetryComesDue(c) ==
    /\ delivery[c].waits
    /\ delivery' = [delivery EXCEPT ![c].waits = FALSE]
    /\ UNCHANGED <<stage, bound, queue, process, stop, sends, faults>>

SetStop ==
    /\ stop' = ~stop
    /\ UNCHANGED <<tables, process, sends, faults>>

\* A process dies and is started again; so does a tick that a failing
\* statement ends early.
Dies(p) ==
    /\ faults < MaxFaults
    /\ faults' = faults + 1
    /\ process[p] # AtRest(p)
    /\ process' = [process EXCEPT ![p] = AtRest(p)]
    /\ UNCHANGED <<tables, stop, sends>>

Next ==
    \/ \E p \in Process : Acts(p) \/ Dies(p)
    \/ \E c \in Change : RetryComesDue(c)
    \/ SetStop

Spec == Init /\ [][Next]_vars

\* Workers tick on a timer, calls of the Telegram API have an end, time passes.
FairSpec ==
    /\ Spec
    /\ \A p \in Process : WF_vars(Acts(p)) /\ WF_vars(Drain(p) /\ UNCHANGED <<stop, faults>>)
    /\ \A c \in Change : WF_vars(RetryComesDue(c))

-----------------------------------------------------------------------------
(* What holds                                                             *)

TypeOK ==
    /\ stage \in [Change -> Stage]
    /\ bound \in BOOLEAN
    /\ queue \in Seq(Change)
    /\ delivery \in [Change -> Row]
    /\ process \in [Process -> Work]
    /\ \A p \in Process : process[p].batch \subseteq 1..Len(queue)
    /\ \A p \in Process : process[p].at \in Busy => process[p].change \in Change
    /\ stop \in BOOLEAN
    /\ sends \in [Change -> Nat]
    /\ faults \in 0..MaxFaults

\* What a row records was done: each counted attempt, and the delivery, stands for
\* a call of its own, though workers with old batches write one row by turns and
\* a completeDelivery that throws becomes a failDelivery.
AttemptsWereMade ==
    \A c \in Change :
        delivery[c].attempts + (IF delivery[c].status = "delivered" THEN 1 ELSE 0) <= sends[c]

\* failDelivery gives up a row at the configured number of counted attempts and
\* no earlier, and workers with old batches overshoot it by one each.
GivenUpInTime ==
    \A c \in Change :
        /\ delivery[c].status = "pending" => delivery[c].attempts < MaxAttempts
        /\ delivery[c].status = "failed" => delivery[c].attempts >= MaxAttempts
        /\ delivery[c].attempts < MaxAttempts + Cardinality(Drainer)

\* However workers overlap, a message is sent at most once per worker for every
\* attempt, and once more for every death: a drain ends.
SendsAreBounded ==
    \A c \in Change : sends[c] <= MaxAttempts * Cardinality(Drainer) + faults

\* A change of a task whose row is written but whose event or delivery nobody is
\* about to write any more.
Dropped(c) ==
    /\ stage[c] \in {"made", "recorded"}
    /\ \A p \in Process : ~(Is(p, stage[c]) /\ process[p].change = c)

\* transition writes the task, its event and its delivery in three statements.
\* Only a death between two of them loses the report, one change for a death:
\* no stop flag, no failing delivery and no other process can.
UnreportedByDeath == Cardinality({c \in Change : Dropped(c)}) <= faults

\* A change that commits its delivery is reported in the end and stays so:
\* delivered, or failed for good, once the emergency stop stays off.
ReportedForGood ==
    (<>[]~stop) => \A c \in Change : (delivery[c].status = "pending") ~>
                                     [](delivery[c].status \in {"delivered", "failed"})

\* "A channel delivery failure remains pending for retry": a row becomes delivered
\* only on the answer of a call that Telegram took.
RefusalsAreFailures ==
    [][\A c \in Change :
            delivery[c].status = "pending" /\ delivery'[c].status = "delivered" =>
                \E p \in Drainer : Is(p, "sent") /\ process[p].change = c]_vars

=============================================================================
