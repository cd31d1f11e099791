---------------------------- MODULE OutboxProofs ----------------------------
(***************************************************************************)
(* What module Outbox promises, proved for every set of processes and       *)
(* changes and every bound.                                                *)
(***************************************************************************)
EXTENDS Outbox, TLAPS, FiniteSetTheorems

-----------------------------------------------------------------------------
(* The pieces of a step                                                    *)

\* The part of the state a process step may get wrong.
Working ==
    /\ process \in [Process -> Work]
    /\ \A p \in Process : process[p].batch \subseteq 1..Len(queue)
    /\ \A p \in Process : process[p].at \in Busy => process[p].change \in Change

LEMMA AtRestTyped ==
  ASSUME NEW p PROVE AtRest(p) \in Work /\ AtRest(p).batch = {} /\ AtRest(p).at \notin Busy
BY DEF AtRest, Work, Busy

\* A process that goes on works on a row of the queue.
LEMMA GoesOn ==
  ASSUME TypeOK, NEW p \in Process, NEW batch \in SUBSET (1..Len(queue)), GoOn(p, batch), queue' = queue
  PROVE  Working'
<1>1. CASE batch = {} /\ process' = [process EXCEPT ![p] = AtRest(p)]
  BY <1>1, AtRestTyped DEF TypeOK, Working, Busy
<1>2. ASSUME NEW i \in batch, process' = [process EXCEPT ![p] =
                [at |-> "send", change |-> queue[i], batch |-> batch \ {i}]]
      PROVE  Working'
  <2>1. queue[i] \in Change BY DEF TypeOK
  <2> DEFINE next == [at |-> "send", change |-> queue[i], batch |-> batch \ {i}]
  <2>2. next \in Work BY <2>1 DEF Work, Busy
  <2>3. \A q \in Process : process'[q] = IF q = p THEN next ELSE process[q]
    BY <1>2 DEF TypeOK
  <2>4. process' \in [Process -> Work] BY <1>2, <2>2 DEF TypeOK
  <2>5. next.batch \subseteq 1..Len(queue) /\ next.at = "send" /\ next.change \in Change
    BY <2>1
  <2> HIDE DEF next
  <2> QED BY <2>3, <2>4, <2>5 DEF TypeOK, Working
<1> QED BY <1>1, <1>2 DEF GoOn

\* A process that takes a step of a change leaves its batch alone.
LEMMA Turns ==
  ASSUME TypeOK, NEW p \in Process, NEW at \in Busy \cup {"ready"}, NEW c \in Change \cup {NoChange},
         at \in Busy => c \in Change,
         process' = [process EXCEPT ![p].at = at, ![p].change = c],
         1..Len(queue) \subseteq 1..Len(queue')
  PROVE  Working'
<1> DEFINE next == [process[p] EXCEPT !.at = at, !.change = c]
<1>1. process[p] \in Work BY DEF TypeOK
<1>2. next \in Work /\ next.at = at /\ next.change = c /\ next.batch = process[p].batch
  BY <1>1 DEF Work
<1>3. process' = [process EXCEPT ![p] = next] BY DEF TypeOK
<1>4. \A q \in Process : process'[q] = IF q = p THEN next ELSE process[q]
  BY <1>3 DEF TypeOK
<1>5. process' \in [Process -> Work] BY <1>2, <1>3 DEF TypeOK
<1> HIDE DEF next
<1> QED BY <1>2, <1>4, <1>5 DEF TypeOK, Working

\* So does one that stays with its change.
LEMMA Steps ==
  ASSUME TypeOK, NEW p \in Process, NEW at \in Busy \cup {"ready"}, Step(p, at),
         at \in Busy => process[p].change \in Change, queue' = queue
  PROVE  Working'
<1>1. process[p].change \in Change \cup {NoChange} BY DEF TypeOK, Work
<1>2. process' = [process EXCEPT ![p].at = at, ![p].change = process[p].change]
  BY DEF Step, TypeOK, Work
<1> QED BY <1>1, <1>2, Turns

LEMMA Enqueues ==
  ASSUME TypeOK, NEW c \in Change, NEW chat \in BOOLEAN, Enqueue(c, chat)
  PROVE  /\ stage' \in [Change -> Stage]
         /\ queue' \in Seq(Change)
         /\ 1..Len(queue) \subseteq 1..Len(queue')
         /\ delivery' \in [Change -> Row]
<1>1. stage' \in [Change -> Stage] BY DEF TypeOK, Enqueue, Stage
<1>2. CASE chat
  <2>1. queue' = Append(queue, c) /\ delivery' = [delivery EXCEPT ![c].status = "pending"]
    BY <1>2 DEF Enqueue
  <2>2. queue' \in Seq(Change) /\ Len(queue') = Len(queue) + 1 /\ Len(queue) \in Nat
    BY <2>1 DEF TypeOK
  <2>3. delivery' \in [Change -> Row] BY <2>1 DEF TypeOK, Row
  <2> QED BY <1>1, <2>2, <2>3
<1>3. CASE ~chat
  BY <1>1, <1>3 DEF Enqueue, TypeOK
<1> QED BY <1>2, <1>3

-----------------------------------------------------------------------------
(* Types                                                                   *)

LEMMA OutboxInit == Init => TypeOK
<1> SUFFICES ASSUME Init PROVE TypeOK
  OBVIOUS
<1>1. NoDelivery \in Row BY DEF NoDelivery, Row
<1>2. \A p \in Process : process[p] = AtRest(p) BY DEF Init
<1>3. process \in [Process -> Work] BY <1>2, AtRestTyped DEF Init
<1>4. Working BY <1>2, <1>3, AtRestTyped DEF Working
<1>5. delivery \in [Change -> Row] /\ stage \in [Change -> Stage] /\ queue \in Seq(Change)
  BY <1>1 DEF Init, Stage
<1>6. faults \in 0..MaxFaults BY OutboxAssumption DEF Init
<1>7. bound \in BOOLEAN /\ stop \in BOOLEAN /\ sends \in [Change -> Nat] BY DEF Init
<1> QED BY <1>4, <1>5, <1>6, <1>7 DEF TypeOK, Working

\* What a step must keep, part by part.
LEMMA Kept ==
  ASSUME TypeOK, stage' \in [Change -> Stage], bound' \in BOOLEAN, queue' \in Seq(Change),
         delivery' \in [Change -> Row], Working', stop' \in BOOLEAN,
         sends' \in [Change -> Nat], faults' \in 0..MaxFaults
  PROVE  TypeOK'
BY DEF TypeOK, Working

LEMMA ReportKeeps ==
  ASSUME TypeOK, NEW p \in Process, Report(p), UNCHANGED <<stop, faults>>
  PROVE  TypeOK'
<1>0. process[p].at \in Busy => process[p].change \in Change BY DEF TypeOK
<1>a. stop' \in BOOLEAN /\ sends' \in [Change -> Nat] /\ faults' \in 0..MaxFaults
  BY DEF TypeOK, Report
<1>1. ASSUME NEW c \in Change, NEW chat \in BOOLEAN, Enqueue(c, chat), bound' \in BOOLEAN,
             process' = process
      PROVE  TypeOK'
  <2>1. Working' BY <1>1, Enqueues DEF TypeOK, Working
  <2> QED BY <1>a, <1>1, <2>1, Enqueues, Kept
<1>2. ASSUME NEW c \in Change, CreateUnifiedInput(p, c) PROVE TypeOK'
  <2>1. PICK chat \in {bound, TRUE} : bound' = chat /\ Enqueue(c, chat)
    BY <1>2 DEF CreateUnifiedInput
  <2>2. chat \in BOOLEAN BY DEF TypeOK
  <2> QED BY <1>1, <1>2, <2>1, <2>2 DEF CreateUnifiedInput
<1>3. ASSUME NEW c \in Change, FinalizeCapabilitySuccess(p, c) PROVE TypeOK'
  BY <1>1, <1>3 DEF FinalizeCapabilitySuccess, TypeOK
<1>4. ASSUME NEW c \in Change, UpdateTask(p, c) PROVE TypeOK'
  <2>1. stage' \in [Change -> Stage] BY <1>4 DEF UpdateTask, TypeOK, Stage
  <2>2. Working' BY <1>4, Turns DEF UpdateTask, Busy
  <2> QED BY <1>a, <1>4, <2>1, <2>2, Kept DEF UpdateTask, TypeOK
<1>5. CASE InsertEvent(p)
  <2>1. process[p].change \in Change BY <1>0, <1>5 DEF InsertEvent, Is, Busy
  <2>2. stage' \in [Change -> Stage] BY <1>5 DEF InsertEvent, TypeOK, Stage
  <2>3. Working' BY <1>5, <2>1, Steps DEF InsertEvent, Busy
  <2> QED BY <1>a, <1>5, <2>2, <2>3, Kept DEF InsertEvent, TypeOK
<1>6. CASE InsertDelivery(p)
  <2>1. process[p].change \in Change BY <1>0, <1>6 DEF InsertDelivery, Is, Busy
  <2>2. Enqueue(process[p].change, bound) /\ bound \in BOOLEAN /\ bound' = bound
    BY <1>6 DEF InsertDelivery, TypeOK
  <2>3. 1..Len(queue) \subseteq 1..Len(queue') BY <2>1, <2>2, Enqueues
  <2>4. Working'
    <3> DEFINE at == "ready"
    <3>1. process' = [process EXCEPT ![p].at = at, ![p].change = NoChange] BY <1>6 DEF InsertDelivery
    <3>2. at \in Busy \cup {"ready"} /\ at \notin Busy BY DEF Busy
    <3> HIDE DEF at
    <3>3. NoChange \in Change \cup {NoChange} OBVIOUS
    <3> QED BY <2>3, <3>1, <3>2, <3>3, Turns
  <2> QED BY <1>a, <2>1, <2>2, <2>4, Enqueues, Kept
<1> QED BY <1>1, <1>2, <1>3, <1>4, <1>5, <1>6 DEF Report

LEMMA DrainKeeps ==
  ASSUME TypeOK, NEW p \in Process, Drain(p), UNCHANGED <<stop, faults>>
  PROVE  TypeOK'
<1>0. process[p].at \in Busy => process[p].change \in Change BY DEF TypeOK
<1>a. stop' \in BOOLEAN /\ faults' \in 0..MaxFaults BY DEF TypeOK
<1>b. process[p].batch \in SUBSET (1..Len(queue)) BY DEF TypeOK
<1>1. CASE Tick(p)
  <2>1. UNCHANGED <<stage, bound, queue, delivery, sends>> BY <1>1 DEF Tick, tables
  <2>2. Working' BY <1>1, <2>1, Steps DEF Tick, Busy
  <2> QED BY <1>a, <2>1, <2>2, Kept DEF TypeOK
<1>2. CASE StartDrain(p)
  <2>1. PendingDeliveries \in SUBSET (1..Len(queue)) BY DEF PendingDeliveries
  <2>2. UNCHANGED <<stage, bound, queue, delivery, sends>> /\ GoOn(p, PendingDeliveries)
    BY <1>2 DEF StartDrain, tables
  <2>3. Working' BY <2>1, <2>2, GoesOn
  <2> QED BY <1>a, <2>2, <2>3, Kept DEF TypeOK
<1>3. CASE Send(p)
  <2>1. process[p].change \in Change BY <1>0, <1>3 DEF Send, Is, Busy
  <2>2. UNCHANGED <<stage, bound, queue, delivery>> BY <1>3 DEF Send, tables
  <2>3. sends' \in [Change -> Nat] BY <1>3, <2>1 DEF Send, TypeOK
  <2>4. PICK answer \in {"sent", "refused", "threw"} : Step(p, answer) BY <1>3 DEF Send
  <2>5. Working' BY <2>1, <2>2, <2>4, Steps DEF Busy
  <2> QED BY <1>a, <2>2, <2>3, <2>5, Kept DEF TypeOK
<1>4. CASE CompleteDelivery(p)
  <2>1. process[p].change \in Change BY <1>0, <1>4 DEF CompleteDelivery, Returned, Is, Busy
  <2>2. UNCHANGED <<stage, bound, queue, sends>> BY <1>4 DEF CompleteDelivery
  <2>3. delivery' \in [Change -> Row]
    <3>1. CASE delivery' = delivery BY <3>1 DEF TypeOK
    <3>2. CASE delivery' = [delivery EXCEPT ![process[p].change].status = "delivered"]
      BY <2>1, <3>2 DEF TypeOK, Row
    <3> QED BY <1>4, <3>1, <3>2 DEF CompleteDelivery
  <2>4. Working' BY <1>4, <1>b, <2>1, <2>2, GoesOn, Steps DEF CompleteDelivery, Busy
  <2> QED BY <1>a, <2>2, <2>3, <2>4, Kept DEF TypeOK
<1>5. CASE FailDelivery(p)
  <2>1. process[p].change \in Change BY <1>0, <1>5 DEF FailDelivery, Is, Busy
  <2>2. UNCHANGED <<stage, bound, queue, sends>> /\ GoOn(p, process[p].batch)
        /\ delivery' = [delivery EXCEPT ![process[p].change] = Failed(@)]
    BY <1>5 DEF FailDelivery
  <2>3. \A row \in Row : Failed(row) \in Row BY OutboxAssumption DEF Failed, Row
  <2>4. delivery' \in [Change -> Row] BY <2>1, <2>2, <2>3 DEF TypeOK
  <2>5. Working' BY <1>b, <2>2, GoesOn
  <2> QED BY <1>a, <2>2, <2>4, <2>5, Kept DEF TypeOK
<1> QED BY <1>1, <1>2, <1>3, <1>4, <1>5 DEF Drain

LEMMA OutboxStep == TypeOK /\ [Next]_vars => TypeOK'
<1> SUFFICES ASSUME TypeOK, [Next]_vars PROVE TypeOK'
  OBVIOUS
<1>1. ASSUME NEW p \in Process, Acts(p) PROVE TypeOK'
  BY <1>1, ReportKeeps, DrainKeeps DEF Acts
<1>2. ASSUME NEW p \in Process, Dies(p) PROVE TypeOK'
  <2>1. UNCHANGED <<tables, stop, sends>> /\ faults' \in 0..MaxFaults
    BY <1>2, OutboxAssumption DEF Dies, TypeOK
  <2>2. \A q \in Process : process'[q] = IF q = p THEN AtRest(p) ELSE process[q]
    BY <1>2 DEF Dies, TypeOK
  <2>3. process' \in [Process -> Work] BY <1>2, AtRestTyped DEF Dies, TypeOK
  <2>4. Working' BY <2>1, <2>2, <2>3, AtRestTyped DEF Working, TypeOK, tables
  <2> QED BY <2>1, <2>4 DEF TypeOK, Working, tables
<1>3. ASSUME NEW c \in Change, RetryComesDue(c) PROVE TypeOK'
  <2>1. delivery' \in [Change -> Row] BY <1>3 DEF RetryComesDue, TypeOK, Row
  <2> QED BY <1>3, <2>1 DEF RetryComesDue, TypeOK
<1>4. CASE SetStop
  BY <1>4 DEF SetStop, TypeOK, tables
<1>5. CASE UNCHANGED vars
  BY <1>5 DEF vars, TypeOK, tables
<1> QED BY <1>1, <1>2, <1>3, <1>4, <1>5 DEF Next

\* The outbox tables and the processes keep their types.
THEOREM OutboxTyped == Spec => []TypeOK
BY OutboxInit, OutboxStep, PTL DEF Spec

-----------------------------------------------------------------------------
(* Who has a row in hand                                                   *)

Handing == {"send", "sent", "refused", "threw"}

\* The rows of a worker's tick that it has not settled, and the ones it has not sent.
Waiting(p, c) == \E i \in process[p].batch : queue[i] = c
Has(p, c) == (process[p].at \in Handing /\ process[p].change = c) \/ Waiting(p, c)
Owes(p, c) == (process[p].at = "send" /\ process[p].change = c) \/ Waiting(p, c)

Holders(c) == {p \in Drainer : Has(p, c)}
Owing(c) == {p \in Drainer : Owes(p, c)}

Sound(p) ==
    LET work == process[p] IN
    /\ work.at \in Handing =>
          p \in Drainer /\ stage[work.change] = "done" /\ \A i \in work.batch : queue[i] # work.change
    /\ work.at \notin Handing => work.batch = {}
    /\ work.at \in {"made", "recorded"} => stage[work.change] = work.at

\* A change has one row in the queue, from its last stage on, and one reporter
\* before that.
QueueInv ==
    /\ \A p \in Process : Sound(p)
    /\ \A p, q \in Process :
          /\ process[p].at \in {"made", "recorded"} /\ process[q].at \in {"made", "recorded"}
          /\ process[p].change = process[q].change
          => p = q
    /\ \A i, j \in 1..Len(queue) : queue[i] = queue[j] => i = j
    /\ \A i \in 1..Len(queue) : stage[queue[i]] = "done"
    /\ \A c \in Change : stage[c] # "done" => delivery[c] = NoDelivery /\ sends[c] = 0

\* A step of one process.
Alone(p) == \A q \in Process \ {p} : process'[q] = process[q]

LEMMA StepsAlone ==
  ASSUME TypeOK, NEW p \in Process, NEW at, Step(p, at)
  PROVE  /\ Alone(p) /\ process'[p].at = at
         /\ process'[p].change = process[p].change /\ process'[p].batch = process[p].batch
BY DEF TypeOK, Work, Step, Alone

LEMMA TurnsAlone ==
  ASSUME TypeOK, NEW p \in Process, NEW at, NEW c,
         process' = [process EXCEPT ![p].at = at, ![p].change = c]
  PROVE  /\ Alone(p) /\ process'[p].at = at
         /\ process'[p].change = c /\ process'[p].batch = process[p].batch
BY DEF TypeOK, Work, Alone

LEMMA RestsAlone ==
  ASSUME TypeOK, NEW p \in Process, process' = [process EXCEPT ![p] = AtRest(p)]
  PROVE  /\ Alone(p) /\ process'[p].at \in {"flag", "ready"} /\ process'[p].batch = {}
BY DEF TypeOK, Alone, AtRest

\* What the end of one row, or the beginning of a tick, leaves a worker with.
LEMMA GoesOnWith ==
  ASSUME TypeOK, QueueInv, NEW p \in Drainer, NEW batch \in SUBSET (1..Len(queue)), GoOn(p, batch),
         stage' = stage, queue' = queue
  PROVE  /\ Alone(p) /\ Sound(p)' /\ process'[p].at \in {"flag", "ready", "send"}
         /\ \A c \in Change : (Has(p, c)' <=> \E i \in batch : queue[i] = c)
         /\ \A c \in Change : (Owes(p, c)' <=> \E i \in batch : queue[i] = c)
<1>0. p \in Process BY OutboxAssumption
<1>1. CASE batch = {} /\ process' = [process EXCEPT ![p] = AtRest(p)]
  <2>1. Alone(p) /\ process'[p].at \in {"flag", "ready"} /\ process'[p].batch = {} BY <1>0, <1>1, RestsAlone
  <2> QED BY <1>1, <2>1 DEF Sound, Has, Owes, Waiting, Handing
<1>2. ASSUME NEW i \in batch, process' = [process EXCEPT ![p] =
                [at |-> "send", change |-> queue[i], batch |-> batch \ {i}]]
      PROVE  /\ Alone(p) /\ Sound(p)' /\ process'[p].at \in {"flag", "ready", "send"}
             /\ \A c \in Change : (Has(p, c)' <=> \E j \in batch : queue[j] = c)
             /\ \A c \in Change : (Owes(p, c)' <=> \E j \in batch : queue[j] = c)
  <2>1. Alone(p) /\ process'[p].at = "send" /\ process'[p].change = queue[i] /\ process'[p].batch = batch \ {i}
    BY <1>0, <1>2 DEF TypeOK, Alone
  <2>2. i \in 1..Len(queue) /\ stage[queue[i]] = "done" BY DEF QueueInv
  <2>3. \A j \in batch \ {i} : queue[j] # queue[i] BY <2>2 DEF QueueInv
  <2>4. Sound(p)' BY <2>1, <2>2, <2>3 DEF Sound, Handing
  <2> QED BY <2>1, <2>4 DEF Has, Owes, Waiting, Handing
<1> QED BY <1>1, <1>2 DEF GoOn

-----------------------------------------------------------------------------
(* One row in the queue                                                    *)

LEMMA EnqueueKeeps ==
  ASSUME TypeOK, QueueInv, NEW p \in Process, Alone(p), NEW c \in Change, NEW chat \in BOOLEAN, Enqueue(c, chat),
         sends' = sends, stage[c] # "done",
         \A q \in Process \ {p} : process[q].at \in {"made", "recorded"} => process[q].change # c,
         process'[p].at = "ready", process'[p].batch = {}
  PROVE  QueueInv'
<1>1. \A d \in Change : stage'[d] = IF d = c THEN "done" ELSE stage[d] BY DEF Enqueue, TypeOK
<1>2. queue \in Seq(Change) /\ Len(queue) \in Nat BY DEF TypeOK
<1>3. /\ Len(queue') \in Nat /\ Len(queue) <= Len(queue')
      /\ \A i \in 1..Len(queue) : queue'[i] = queue[i] /\ queue[i] \in Change
      /\ \A i \in 1..Len(queue') : i \in 1..Len(queue) \/ (i = Len(queue) + 1 /\ queue'[i] = c)
  BY <1>2 DEF Enqueue
<1>4. \A i \in 1..Len(queue) : queue[i] # c BY DEF QueueInv
<1>5. ASSUME NEW q \in Process PROVE Sound(q)'
  <2>1. CASE q = p BY <2>1 DEF Sound, Handing
  <2>2. CASE q # p
    <3>1. process'[q] = process[q] /\ Sound(q) BY <2>2 DEF Alone, QueueInv
    <3>2. process[q].batch \subseteq 1..Len(queue) BY DEF TypeOK
    <3>3. process[q].at \in Handing \cup {"made", "recorded"} => process[q].change \in Change
      BY DEF TypeOK, Busy, Handing
    <3>4. process[q].at \in {"made", "recorded"} => process[q].change # c BY <2>2
    <3>5. process[q].at \in Handing =>
            q \in Drainer /\ stage'[process[q].change] = "done" /\ \A i \in process[q].batch : queue'[i] # process[q].change
      BY <1>1, <1>3, <3>1, <3>2, <3>3 DEF Sound
    <3>6. process[q].at \in {"made", "recorded"} => stage'[process[q].change] = process[q].at
      BY <1>1, <3>1, <3>3, <3>4 DEF Sound
    <3> QED BY <3>1, <3>5, <3>6 DEF Sound
  <2> QED BY <2>1, <2>2
<1>6. \A d \in Change : stage'[d] # "done" => delivery'[d] = NoDelivery /\ sends'[d] = 0
  BY <1>1 DEF Enqueue, TypeOK, QueueInv
<1>7. \A i, j \in 1..Len(queue') : queue'[i] = queue'[j] => i = j
  BY <1>3, <1>4 DEF QueueInv
<1>8. \A i \in 1..Len(queue') : stage'[queue'[i]] = "done"
  BY <1>1, <1>3 DEF QueueInv
<1>9. ASSUME NEW q \in Process, NEW r \in Process, process'[q].at \in {"made", "recorded"},
             process'[r].at \in {"made", "recorded"}, process'[q].change = process'[r].change
      PROVE  q = r
  <2>1. q # p /\ r # p BY <1>9
  <2>2. process'[q] = process[q] /\ process'[r] = process[r] BY <2>1 DEF Alone
  <2> QED BY <1>9, <2>2 DEF QueueInv
<1> QED BY <1>5, <1>6, <1>7, <1>8, <1>9 DEF QueueInv

\* A step of one process that leaves queue and stages alone.
LEMMA AloneKeeps ==
  ASSUME TypeOK, QueueInv, NEW p \in Process, Alone(p), Sound(p)', stage' = stage, queue' = queue,
         process'[p].at \notin {"made", "recorded"},
         \A c \in Change : stage[c] # "done" => delivery'[c] = delivery[c] /\ sends'[c] = sends[c]
  PROVE  QueueInv'
<1>1. \A q \in Process : Sound(q)' BY DEF Alone, QueueInv, Sound
<1>2. ASSUME NEW q \in Process, NEW r \in Process, process'[q].at \in {"made", "recorded"},
             process'[r].at \in {"made", "recorded"}, process'[q].change = process'[r].change
      PROVE  q = r
  <2>1. process'[q] = process[q] /\ process'[r] = process[r] BY <1>2 DEF Alone
  <2> QED BY <1>2, <2>1 DEF QueueInv
<1> QED BY <1>1, <1>2 DEF QueueInv

-----------------------------------------------------------------------------
(* What a row may still cost                                               *)

Workers == Cardinality(Drainer)

\* The sends a row allows: one per worker for every attempt that is behind it,
\* and while it is pending one for everybody who has it in hand.
Allowed(status, attempts, holders) ==
    IF status = "pending" THEN Workers * attempts + holders
    ELSE IF attempts < MaxAttempts THEN Workers * attempts + Workers
    ELSE Workers * MaxAttempts

Count(status, attempts, holders, owing, sent, deaths) ==
    /\ status = "pending" => attempts < MaxAttempts
    /\ status = "failed" => attempts >= MaxAttempts
    /\ attempts + holders < MaxAttempts + Workers
    /\ sent + owing <= deaths + Allowed(status, attempts, holders)
    /\ attempts + (IF status = "delivered" THEN 1 ELSE 0) + holders <= sent + owing

Counted(c) ==
    Count(delivery[c].status, delivery[c].attempts,
          Cardinality(Holders(c)), Cardinality(Owing(c)), sends[c], faults)

CountInv == \A c \in Change : Counted(c)

LEMMA WorkersAreSome == Workers \in Nat /\ Workers >= 1
BY OutboxAssumption, FS_EmptySet, FS_CardinalityType DEF Workers

LEMMA OneAttemptMore ==
  ASSUME NEW n \in Nat, NEW a \in Nat PROVE n * (a + 1) = n * a + n /\ n * a \in Nat
OBVIOUS

\* The arithmetic of one step: a worker takes a row, sends it, writes it, fails it
\* or dies with it.
LEMMA CountTakes ==
  ASSUME NEW s, NEW a \in Nat, NEW h \in Nat, NEW u \in Nat, NEW n \in Nat, NEW f \in Nat,
         Count(s, a, h, u, n, f), s = "pending", h < Workers
  PROVE  Count(s, a, h + 1, u + 1, n, f)
BY WorkersAreSome, OneAttemptMore, OutboxAssumption DEF Count, Allowed

LEMMA CountSends ==
  ASSUME NEW s, NEW a \in Nat, NEW h \in Nat, NEW u \in Nat, NEW n \in Nat, NEW f \in Nat,
         Count(s, a, h, u, n, f)
  PROVE  Count(s, a, h, u - 1, n + 1, f)
BY WorkersAreSome, OneAttemptMore, OutboxAssumption DEF Count, Allowed

LEMMA CountWrites ==
  ASSUME NEW s, NEW a \in Nat, NEW h \in Nat, NEW u \in Nat, NEW n \in Nat, NEW f \in Nat,
         Count(s, a, h, u, n, f), 1 <= h, h <= Workers
  PROVE  Count("delivered", a, h - 1, u, n, f)
BY WorkersAreSome, OneAttemptMore, OutboxAssumption DEF Count, Allowed

LEMMA CountFails ==
  ASSUME NEW s, NEW a \in Nat, NEW h \in Nat, NEW u \in Nat, NEW n \in Nat, NEW f \in Nat,
         Count(s, a, h, u, n, f), 1 <= h, h <= Workers
  PROVE  Count(IF a + 1 >= MaxAttempts THEN "failed" ELSE "pending", a + 1, h - 1, u, n, f)
<1>0. Workers \in Nat /\ Workers >= 1 /\ MaxAttempts \in Nat BY WorkersAreSome, OutboxAssumption
<1>1. Workers * (a + 1) = Workers * a + Workers /\ Workers * a \in Nat /\ Workers * MaxAttempts \in Nat
  BY <1>0, OneAttemptMore
<1>2. CASE a + 1 < MaxAttempts
  BY <1>0, <1>1, <1>2 DEF Count, Allowed
<1>3. CASE a + 1 = MaxAttempts
  <2>1. Workers * MaxAttempts = Workers * a + Workers BY <1>1, <1>3
  <2> QED BY <1>0, <1>1, <1>3, <2>1 DEF Count, Allowed
<1>4. CASE a + 1 > MaxAttempts
  BY <1>0, <1>1, <1>4 DEF Count, Allowed
<1> QED BY <1>0, <1>2, <1>3, <1>4

LEMMA CountDies ==
  ASSUME NEW s, NEW a \in Nat, NEW h \in Nat, NEW u \in Nat, NEW n \in Nat, NEW f \in Nat,
         Count(s, a, h, u, n, f), NEW g \in Nat, NEW v \in Nat, h - 1 <= g, g <= h, v <= u, g + u <= h + v
  PROVE  Count(s, a, g, v, n, f + 1)
BY WorkersAreSome, OneAttemptMore, OutboxAssumption DEF Count, Allowed

-----------------------------------------------------------------------------
(* How a step of one process changes who has a row                          *)

LEMMA SameButOne ==
  ASSUME NEW S, NEW T, IsFiniteSet(S), NEW p, \A q : q # p => (q \in S <=> q \in T)
  PROVE  /\ IsFiniteSet(T)
         /\ Cardinality(T) = IF p \in T /\ p \notin S THEN Cardinality(S) + 1
                             ELSE IF p \in S /\ p \notin T THEN Cardinality(S) - 1
                             ELSE Cardinality(S)
<1>1. CASE p \in T /\ p \notin S
  <2>1. T = S \cup {p} BY <1>1
  <2> QED BY <1>1, <2>1, FS_AddElement
<1>2. CASE p \in S /\ p \notin T
  <2>1. T = S \ {p} BY <1>2
  <2> QED BY <1>2, <2>1, FS_RemoveElement
<1>3. CASE p \in S <=> p \in T
  <2>1. T = S BY <1>3
  <2> QED BY <1>3, <2>1
<1> QED BY <1>1, <1>2, <1>3

LEMMA HoldersAreFew ==
  ASSUME NEW c
  PROVE  /\ IsFiniteSet(Holders(c)) /\ IsFiniteSet(Owing(c))
         /\ Cardinality(Holders(c)) \in Nat /\ Cardinality(Owing(c)) \in Nat
         /\ Cardinality(Holders(c)) <= Workers
         /\ \A p \in Drainer \ Holders(c) : Cardinality(Holders(c)) < Workers
         /\ \A p \in Holders(c) : Cardinality(Holders(c)) >= 1
<1>1. Holders(c) \subseteq Drainer /\ Owing(c) \subseteq Drainer BY DEF Holders, Owing
<1>2. /\ IsFiniteSet(Holders(c)) /\ IsFiniteSet(Owing(c))
      /\ Cardinality(Holders(c)) <= Workers
      /\ Cardinality(Holders(c)) \in Nat /\ Cardinality(Owing(c)) \in Nat
  BY <1>1, OutboxAssumption, FS_Subset, FS_CardinalityType DEF Workers
<1>3. ASSUME NEW p \in Drainer \ Holders(c) PROVE Cardinality(Holders(c)) < Workers
  <2>1. Cardinality(Holders(c)) # Cardinality(Drainer)
    BY <1>1, <1>3, OutboxAssumption, FS_Subset
  <2> QED BY <1>2, <2>1, WorkersAreSome DEF Workers
<1>4. ASSUME NEW p \in Holders(c) PROVE Cardinality(Holders(c)) >= 1
  BY <1>2, <1>4, FS_EmptySet
<1> QED BY <1>2, <1>3, <1>4

\* A step of p moves nobody else, so that the counts change by p at most.
LEMMA Moved ==
  ASSUME TypeOK, NEW p \in Process, Alone(p), NEW c,
         \A i \in 1..Len(queue) : queue'[i] = queue[i]
  PROVE  LET before == p \in Holders(c)
             after == p \in Holders(c)'
             owed == p \in Owing(c)
             owes == p \in Owing(c)'
             held == Cardinality(Holders(c))
             open == Cardinality(Owing(c))
         IN  /\ Cardinality(Holders(c)') = IF after /\ ~before THEN held + 1
                                           ELSE IF before /\ ~after THEN held - 1 ELSE held
             /\ Cardinality(Owing(c)') = IF owes /\ ~owed THEN open + 1
                                         ELSE IF owed /\ ~owes THEN open - 1 ELSE open
<1>1. ASSUME NEW q, q # p
      PROVE  (q \in Holders(c) <=> q \in Holders(c)') /\ (q \in Owing(c) <=> q \in Owing(c)')
  <2>1. CASE q \in Drainer
    <3>1. q \in Process /\ process'[q] = process[q] BY <1>1, <2>1, OutboxAssumption DEF Alone
    <3>2. \A i \in process[q].batch : queue'[i] = queue[i] BY <3>1 DEF TypeOK
    <3> QED BY <2>1, <3>1, <3>2 DEF Holders, Owing, Has, Owes, Waiting
  <2>2. CASE q \notin Drainer BY <2>2 DEF Holders, Owing
  <2> QED BY <2>1, <2>2
<1>2. IsFiniteSet(Holders(c)) /\ IsFiniteSet(Owing(c)) BY HoldersAreFew
<1>3. \A q : q # p => (q \in Holders(c) <=> q \in Holders(c)') BY <1>1
<1>4. \A q : q # p => (q \in Owing(c) <=> q \in Owing(c)') BY <1>1
<1> DEFINE H == Holders(c) G == Holders(c)' O == Owing(c) N == Owing(c)'
<1> HIDE DEF H, G, O, N
<1>5. Cardinality(G) = IF p \in G /\ p \notin H THEN Cardinality(H) + 1
                       ELSE IF p \in H /\ p \notin G THEN Cardinality(H) - 1 ELSE Cardinality(H)
  <2>1. IsFiniteSet(H) /\ \A q : q # p => (q \in H <=> q \in G) BY <1>2, <1>3 DEF H, G
  <2> QED BY <2>1, SameButOne
<1>6. Cardinality(N) = IF p \in N /\ p \notin O THEN Cardinality(O) + 1
                       ELSE IF p \in O /\ p \notin N THEN Cardinality(O) - 1 ELSE Cardinality(O)
  <2>1. IsFiniteSet(O) /\ \A q : q # p => (q \in O <=> q \in N) BY <1>2, <1>4 DEF O, N
  <2> QED BY <2>1, SameButOne
<1> QED BY <1>5, <1>6 DEF H, G, O, N

\* Nothing about a row changes.
LEMMA CountStays ==
  ASSUME TypeOK, CountInv, NEW p \in Process, Alone(p), NEW c \in Change,
         \A i \in 1..Len(queue) : queue'[i] = queue[i],
         Has(p, c)' <=> Has(p, c), Owes(p, c)' <=> Owes(p, c),
         delivery'[c].status = delivery[c].status, delivery'[c].attempts = delivery[c].attempts,
         sends'[c] = sends[c], faults' = faults
  PROVE  Counted(c)'
<1>1. (p \in Holders(c)' <=> p \in Holders(c)) /\ (p \in Owing(c)' <=> p \in Owing(c))
  BY DEF Holders, Owing
<1>2. Cardinality(Holders(c)') = Cardinality(Holders(c)) /\ Cardinality(Owing(c)') = Cardinality(Owing(c))
  BY <1>1, Moved
<1>3. Counted(c) BY DEF CountInv
<1> QED BY <1>2, <1>3 DEF Counted, Count, Allowed, Workers

-----------------------------------------------------------------------------
(* Every step keeps the counts                                             *)

RowsInv == QueueInv /\ CountInv

\* A row of the counts is made of numbers.
LEMMA RowTyped ==
  ASSUME TypeOK, NEW c \in Change
  PROVE  /\ delivery[c] \in Row /\ delivery[c].attempts \in Nat
         /\ sends[c] \in Nat /\ faults \in Nat
BY OutboxAssumption DEF TypeOK, Row

LEMMA RowsInit == Init => RowsInv
<1> SUFFICES ASSUME Init PROVE RowsInv
  OBVIOUS
<1>1. \A p \in Process : process[p].at \in {"flag", "ready"} /\ process[p].batch = {}
  BY DEF Init, AtRest
<1>2. queue = <<>> /\ Len(queue) = 0 BY DEF Init
<1>3. QueueInv BY <1>1, <1>2 DEF Init, QueueInv, Sound, Handing
<1>4. ASSUME NEW c \in Change PROVE Counted(c)
  <2>1. Holders(c) = {} /\ Owing(c) = {}
    BY <1>1, OutboxAssumption DEF Holders, Owing, Has, Owes, Waiting, Handing
  <2>2. Cardinality(Holders(c)) = 0 /\ Cardinality(Owing(c)) = 0 BY <2>1, FS_EmptySet
  <2>3. delivery[c] = NoDelivery /\ sends[c] = 0 /\ faults = 0 BY DEF Init
  <2>4. Count("none", 0, 0, 0, 0, 0)
    BY WorkersAreSome, OneAttemptMore, OutboxAssumption DEF Count, Allowed
  <2> QED BY <2>2, <2>3, <2>4 DEF Counted, NoDelivery
<1> QED BY <1>3, <1>4 DEF RowsInv, CountInv

\* Who reports has no row in hand, before and after.
LEMMA ReportsEmptyHanded ==
  ASSUME QueueInv, NEW p \in Process, process[p].at \notin Handing,
         process'[p].at \notin Handing, process'[p].batch = {}
  PROVE  \A c : /\ ~Has(p, c) /\ ~Owes(p, c)
                /\ ~Has(p, c)' /\ ~Owes(p, c)'
BY DEF QueueInv, Sound, Has, Owes, Waiting, Handing

LEMMA EnqueueCounts ==
  ASSUME TypeOK, RowsInv, NEW p \in Process, Alone(p), NEW c \in Change, NEW chat \in BOOLEAN, Enqueue(c, chat),
         sends' = sends, faults' = faults, stage[c] # "done",
         process[p].at \notin Handing, process'[p].at \notin Handing, process'[p].batch = {}
  PROVE  CountInv'
<1> USE DEF RowsInv
<1>1. \A i \in 1..Len(queue) : queue'[i] = queue[i] BY DEF Enqueue, TypeOK
<1>2. \A d : ~Has(p, d) /\ ~Owes(p, d) /\ ~Has(p, d)' /\ ~Owes(p, d)' BY ReportsEmptyHanded
<1>3. ASSUME NEW d \in Change, d # c PROVE Counted(d)'
  <2>1. delivery'[d] = delivery[d] BY <1>3 DEF Enqueue, TypeOK
  <2> QED BY <1>1, <1>2, <2>1, CountStays
<1>4. Counted(c)'
  <2>1. \A q \in Drainer : ~Has(q, c) /\ ~Owes(q, c)
    BY OutboxAssumption DEF QueueInv, Sound, Has, Owes, Waiting, Handing, TypeOK
  <2>2. Holders(c) = {} /\ Owing(c) = {} BY <2>1 DEF Holders, Owing
  <2>3. p \notin Holders(c)' /\ p \notin Owing(c)' BY <1>2 DEF Holders, Owing
  <2>4. Cardinality(Holders(c)') = 0 /\ Cardinality(Owing(c)') = 0
    <3>1. Cardinality(Holders(c)) = 0 /\ Cardinality(Owing(c)) = 0 BY <2>2, FS_EmptySet
    <3>2. p \notin Holders(c) /\ p \notin Owing(c) BY <2>2
    <3> QED BY <1>1, <2>3, <3>1, <3>2, Moved
  <2>5. delivery[c] = NoDelivery /\ sends'[c] = 0 BY DEF QueueInv
  <2>6. delivery'[c].attempts = 0 /\ delivery'[c].status \in {"none", "pending"}
    BY <2>5 DEF Enqueue, TypeOK, NoDelivery
  <2>7. \A s \in {"none", "pending"}, f \in Nat : Count(s, 0, 0, 0, 0, f)
    BY WorkersAreSome, OneAttemptMore, OutboxAssumption DEF Count, Allowed
  <2>8. faults' \in Nat BY RowTyped
  <2> QED BY <2>4, <2>5, <2>6, <2>7, <2>8 DEF Counted
<1> QED BY <1>3, <1>4 DEF CountInv

\* The row of a change is on its way to its event.
LEMMA StageKeeps ==
  ASSUME TypeOK, RowsInv, NEW p \in Process, Alone(p), NEW c \in Change, NEW at \in {"made", "recorded"},
         stage[c] # "done", \A d \in Change : stage'[d] = IF d = c THEN at ELSE stage[d],
         process[p].at \notin Handing, process'[p].at = at, process'[p].change = c, process'[p].batch = {},
         \A q \in Process \ {p} : process[q].at \in {"made", "recorded"} => process[q].change # c,
         UNCHANGED <<queue, delivery, sends, faults>>
  PROVE  RowsInv'
<1> USE DEF RowsInv
<1>0. \A d \in Change : stage'[d] = IF d = c THEN at ELSE stage[d] OBVIOUS
<1>1. \A d : ~Has(p, d) /\ ~Owes(p, d) /\ ~Has(p, d)' /\ ~Owes(p, d)'
  BY ReportsEmptyHanded DEF Handing
<1>2. CountInv'
  <2>1. ASSUME NEW d \in Change PROVE Counted(d)' BY <1>1, CountStays
  <2> QED BY <2>1 DEF CountInv
<1>3. ASSUME NEW q \in Process PROVE Sound(q)'
  <2>1. CASE q = p BY <1>0, <2>1 DEF Sound, Handing
  <2>2. CASE q # p
    <3>1. process'[q] = process[q] /\ Sound(q) BY <2>2 DEF Alone, QueueInv
    <3>2. process[q].at \in Handing \cup {"made", "recorded"} => process[q].change \in Change
      BY DEF TypeOK, Busy, Handing
    <3>3. process[q].at \in {"made", "recorded"} => process[q].change # c BY <2>2
    <3>4. process[q].at \in Handing => process[q].change # c BY <3>1 DEF Sound
    <3> QED BY <1>0, <3>1, <3>2, <3>3, <3>4 DEF Sound
  <2> QED BY <2>1, <2>2
<1>4. ASSUME NEW q \in Process, NEW r \in Process, process'[q].at \in {"made", "recorded"},
             process'[r].at \in {"made", "recorded"}, process'[q].change = process'[r].change
      PROVE  q = r
  <2>1. \A x \in Process \ {p} : process'[x] = process[x] BY DEF Alone
  <2>2. CASE q = p \/ r = p BY <1>4, <2>1, <2>2
  <2>3. CASE q # p /\ r # p
    <3>1. process'[q] = process[q] /\ process'[r] = process[r] BY <2>1, <2>3
    <3> QED BY <1>4, <3>1 DEF QueueInv
  <2> QED BY <2>2, <2>3
<1>5. \A i \in 1..Len(queue) : stage'[queue[i]] = "done"
  BY <1>0 DEF QueueInv, TypeOK
<1>6. \A d \in Change : stage'[d] # "done" => delivery'[d] = NoDelivery /\ sends'[d] = 0
  BY <1>0 DEF QueueInv
<1>7. QueueInv' BY <1>3, <1>4, <1>5, <1>6 DEF QueueInv
<1> QED BY <1>2, <1>7

LEMMA ReportCounts ==
  ASSUME TypeOK, RowsInv, NEW p \in Process, Report(p), UNCHANGED <<stop, faults>>
  PROVE  RowsInv'
<1> USE DEF RowsInv
<1>0. sends' = sends BY DEF Report
<1>a. Sound(p) BY DEF QueueInv
<1>1. ASSUME NEW c \in Change, NEW chat \in BOOLEAN, Enqueue(c, chat), process' = process,
             Is(p, "ready"), stage[c] = "none"
      PROVE  RowsInv'
  <2>1. Alone(p) /\ process'[p].at = "ready" /\ process'[p].batch = {}
    BY <1>a, <1>1 DEF Alone, Is, Sound, Handing
  <2>2. process[p].at \notin Handing BY <1>1 DEF Is, Handing
  <2>3. \A q \in Process \ {p} : process[q].at \in {"made", "recorded"} => process[q].change # c
    BY <1>1 DEF QueueInv, Sound
  <2>4. QueueInv' BY <1>0, <1>1, <2>1, <2>3, EnqueueKeeps
  <2>5. CountInv' BY <1>0, <1>1, <2>1, <2>2, EnqueueCounts DEF Handing
  <2> QED BY <2>4, <2>5
<1>2. ASSUME NEW c \in Change, CreateUnifiedInput(p, c) PROVE RowsInv'
  <2>1. PICK chat \in {bound, TRUE} : Enqueue(c, chat) BY <1>2 DEF CreateUnifiedInput
  <2>2. chat \in BOOLEAN BY DEF TypeOK
  <2> QED BY <1>1, <1>2, <2>1, <2>2 DEF CreateUnifiedInput
<1>3. ASSUME NEW c \in Change, FinalizeCapabilitySuccess(p, c) PROVE RowsInv'
  BY <1>1, <1>3 DEF FinalizeCapabilitySuccess, TypeOK
<1>4. ASSUME NEW c \in Change, UpdateTask(p, c) PROVE RowsInv'
  <2>1. Is(p, "ready") /\ stage[c] = "none" BY <1>4 DEF UpdateTask
  <2>2. process' = [process EXCEPT ![p].at = "made", ![p].change = c] BY <1>4 DEF UpdateTask
  <2>3. Alone(p) /\ process'[p].at = "made" /\ process'[p].change = c /\ process'[p].batch = process[p].batch
    BY <2>2 DEF TypeOK, Work, Alone
  <2>4. process[p].at \notin Handing /\ process[p].batch = {} BY <1>a, <2>1 DEF Is, Sound, Handing
  <2>5. \A q \in Process \ {p} : process[q].at \in {"made", "recorded"} => process[q].change # c
    BY <2>1 DEF QueueInv, Sound
  <2>6. (\A d \in Change : stage'[d] = IF d = c THEN "made" ELSE stage[d]) /\ UNCHANGED <<queue, delivery>>
    BY <1>4 DEF UpdateTask, TypeOK
  <2> QED BY <1>0, <2>1, <2>3, <2>4, <2>5, <2>6, StageKeeps
<1>5. CASE InsertEvent(p)
  <2> DEFINE c == process[p].change
  <2>1. Is(p, "made") /\ c \in Change /\ stage[c] = "made"
    BY <1>a, <1>5 DEF InsertEvent, Is, TypeOK, Busy, Sound
  <2>2. Alone(p) /\ process'[p].at = "recorded" /\ process'[p].change = c /\ process'[p].batch = process[p].batch
    BY <1>5, StepsAlone DEF InsertEvent
  <2>3. process[p].at \notin Handing /\ process[p].batch = {} BY <1>a, <2>1 DEF Is, Sound, Handing
  <2>4. \A q \in Process \ {p} : process[q].at \in {"made", "recorded"} => process[q].change # c
    BY <2>1 DEF QueueInv, Is
  <2>5. (\A d \in Change : stage'[d] = IF d = c THEN "recorded" ELSE stage[d]) /\ UNCHANGED <<queue, delivery>>
    BY <1>5 DEF InsertEvent, TypeOK
  <2> HIDE DEF c
  <2> QED BY <1>0, <2>1, <2>2, <2>3, <2>4, <2>5, StageKeeps
<1>6. CASE InsertDelivery(p)
  <2> DEFINE c == process[p].change
  <2>1. Is(p, "recorded") /\ c \in Change /\ stage[c] = "recorded"
    BY <1>a, <1>6 DEF InsertDelivery, Is, TypeOK, Busy, Sound
  <2>2. process' = [process EXCEPT ![p].at = "ready", ![p].change = NoChange] BY <1>6 DEF InsertDelivery
  <2>3. Alone(p) /\ process'[p].at = "ready" /\ process'[p].batch = process[p].batch
    BY <2>2, TurnsAlone
  <2>4. process[p].at \notin Handing /\ process[p].batch = {} BY <1>a, <2>1 DEF Is, Sound, Handing
  <2>5. \A q \in Process \ {p} : process[q].at \in {"made", "recorded"} => process[q].change # c
    BY <2>1 DEF QueueInv, Is
  <2>6. Enqueue(c, bound) /\ bound \in BOOLEAN BY <1>6 DEF InsertDelivery, TypeOK
  <2> HIDE DEF c
  <2>7. QueueInv' BY <1>0, <2>1, <2>3, <2>4, <2>5, <2>6, EnqueueKeeps
  <2>8. CountInv' BY <1>0, <2>1, <2>3, <2>4, <2>6, EnqueueCounts DEF Handing
  <2> QED BY <2>7, <2>8
<1> QED BY <1>2, <1>3, <1>4, <1>5, <1>6 DEF Report

\* The end of a row: its worker had it in hand and has not any more, and keeps
\* the rest of its batch.
LEMMA RowEnds ==
  ASSUME TypeOK, RowsInv, NEW p \in Process, process[p].at \in {"sent", "refused", "threw"}, GoOn(p, process[p].batch),
         stage' = stage, queue' = queue, sends' = sends, faults' = faults,
         LET c == process[p].change IN
            /\ \A d \in Change \ {c} : delivery'[d] = delivery[d]
            /\ \A h, u \in Nat :
                /\ 1 <= h /\ h <= Workers
                /\ Count(delivery[c].status, delivery[c].attempts, h, u, sends[c], faults)
                => Count(delivery'[c].status, delivery'[c].attempts, h - 1, u, sends[c], faults)
  PROVE  RowsInv'
<1> USE DEF RowsInv
<1>c. PICK c \in Change : c = process[p].change BY DEF TypeOK, Busy
<1>0. p \in Drainer /\ stage[c] = "done" /\ \A i \in process[p].batch : queue[i] # c
  BY <1>c DEF QueueInv, Sound, Handing
<1>1. process[p].batch \in SUBSET (1..Len(queue)) BY DEF TypeOK
<1>2. /\ Alone(p) /\ Sound(p)' /\ process'[p].at \in {"flag", "ready", "send"}
      /\ \A d \in Change : (Has(p, d)' <=> Waiting(p, d)) /\ (Owes(p, d)' <=> Waiting(p, d))
  BY <1>0, <1>1, GoesOnWith DEF Waiting
<1>3. QueueInv' BY <1>c, <1>0, <1>2, AloneKeeps
<1>4. ASSUME NEW d \in Change, d # c PROVE Counted(d)'
  <2>1. (Has(p, d) <=> Waiting(p, d)) /\ (Owes(p, d) <=> Waiting(p, d)) BY <1>c, <1>4 DEF Has, Owes
  <2> QED BY <1>c, <1>2, <1>4, <2>1, CountStays
<1>5. Counted(c)'
  <2>1. Has(p, c) /\ ~Owes(p, c) /\ ~Waiting(p, c) BY <1>c, <1>0 DEF Has, Owes, Waiting, Handing
  <2>2. p \in Holders(c) /\ p \notin Owing(c) /\ p \notin Holders(c)' /\ p \notin Owing(c)'
    BY <1>0, <1>2, <2>1 DEF Holders, Owing
  <2>3. /\ Cardinality(Holders(c)') = Cardinality(Holders(c)) - 1
        /\ Cardinality(Owing(c)') = Cardinality(Owing(c))
    BY <1>2, <2>2, Moved
  <2>4. /\ Cardinality(Holders(c)) \in Nat /\ Cardinality(Owing(c)) \in Nat
        /\ 1 <= Cardinality(Holders(c)) /\ Cardinality(Holders(c)) <= Workers
    BY <2>2, HoldersAreFew
  <2>5. Count(delivery[c].status, delivery[c].attempts,
              Cardinality(Holders(c)), Cardinality(Owing(c)), sends[c], faults)
    BY <1>0 DEF CountInv, Counted
  <2>6. Count(delivery'[c].status, delivery'[c].attempts,
              Cardinality(Holders(c)) - 1, Cardinality(Owing(c)), sends[c], faults)
    BY <1>c, <2>4, <2>5
  <2> QED BY <2>3, <2>6 DEF Counted, Count, Allowed, Workers
<1> QED BY <1>3, <1>4, <1>5 DEF CountInv

\* A worker that neither takes nor settles a row.
LEMMA RowsStay ==
  ASSUME TypeOK, RowsInv, NEW p \in Process, Alone(p), stage' = stage, queue' = queue, faults' = faults,
         Sound(p)', process'[p].at \notin {"made", "recorded"},
         \A c \in Change : /\ delivery'[c].status = delivery[c].status
                           /\ delivery'[c].attempts = delivery[c].attempts
                           /\ stage[c] # "done" => delivery'[c] = delivery[c]
                           /\ sends'[c] = sends[c]
                           /\ Has(p, c)' <=> Has(p, c)
                           /\ Owes(p, c)' <=> Owes(p, c)
  PROVE  RowsInv'
<1> USE DEF RowsInv
<1>1. QueueInv' BY AloneKeeps
<1>2. \A c \in Change : Counted(c)' BY CountStays
<1> QED BY <1>1, <1>2 DEF CountInv

LEMMA DrainCounts ==
  ASSUME TypeOK, RowsInv, NEW p \in Process, Drain(p), UNCHANGED <<stop, faults>>
  PROVE  RowsInv'
<1> USE DEF RowsInv
<1>a. Sound(p) /\ (process[p].at \in Busy => process[p].change \in Change) BY DEF QueueInv, TypeOK
<1>1. CASE Tick(p)
  <2>1. /\ Alone(p) /\ process'[p].at = "ready" /\ process'[p].batch = process[p].batch
        /\ process[p].at = "flag"
    BY <1>1, StepsAlone DEF Tick, Is
  <2>2. process[p].batch = {} BY <1>a, <2>1 DEF Sound, Handing
  <2>3. \A c : ~Has(p, c) /\ ~Owes(p, c) /\ ~Has(p, c)' /\ ~Owes(p, c)'
    BY <2>1, <2>2, ReportsEmptyHanded DEF Handing
  <2>4. Sound(p)' BY <2>1, <2>2 DEF Sound, Handing
  <2>5. UNCHANGED <<stage, queue, delivery, sends>> BY <1>1 DEF Tick, tables
  <2> QED BY <2>1, <2>3, <2>4, <2>5, RowsStay
<1>2. CASE StartDrain(p)
  <2>1. p \in Drainer /\ process[p].at = "ready" /\ GoOn(p, PendingDeliveries)
        /\ UNCHANGED <<stage, queue, delivery, sends>>
    BY <1>2 DEF StartDrain, Is, tables
  <2>2. PendingDeliveries \in SUBSET (1..Len(queue)) /\ \A i \in PendingDeliveries : Due(queue[i])
    BY DEF PendingDeliveries
  <2>3. /\ Alone(p) /\ Sound(p)' /\ process'[p].at \in {"flag", "ready", "send"}
        /\ \A c \in Change : (Has(p, c)' <=> \E i \in PendingDeliveries : queue[i] = c)
        /\ \A c \in Change : (Owes(p, c)' <=> \E i \in PendingDeliveries : queue[i] = c)
    BY <2>1, <2>2, GoesOnWith
  <2>4. \A c : ~Has(p, c) /\ ~Owes(p, c) BY <1>a, <2>1 DEF Sound, Has, Owes, Waiting, Handing
  <2>5. QueueInv' BY <2>1, <2>3, AloneKeeps
  <2>6. ASSUME NEW c \in Change PROVE Counted(c)'
    <3>1. CASE ~Has(p, c)'
      <4>1. ~Owes(p, c)' BY <2>3, <3>1
      <4> QED BY <2>1, <2>3, <2>4, <3>1, <4>1, CountStays
    <3>2. CASE Has(p, c)'
      <4>1. Owes(p, c)' /\ delivery[c].status = "pending" BY <2>2, <2>3, <3>2 DEF Due
      <4>2. p \in Drainer \ Holders(c) /\ p \notin Owing(c) /\ p \in Holders(c)' /\ p \in Owing(c)'
        BY <2>1, <2>4, <3>2, <4>1 DEF Holders, Owing
      <4>3. /\ Cardinality(Holders(c)') = Cardinality(Holders(c)) + 1
            /\ Cardinality(Owing(c)') = Cardinality(Owing(c)) + 1
        BY <2>1, <2>3, <4>2, Moved
      <4>4. /\ Cardinality(Holders(c)) \in Nat /\ Cardinality(Owing(c)) \in Nat
            /\ Cardinality(Holders(c)) < Workers
        BY <4>2, HoldersAreFew
      <4>5. Count(delivery[c].status, delivery[c].attempts,
                  Cardinality(Holders(c)), Cardinality(Owing(c)), sends[c], faults)
        BY DEF CountInv, Counted
      <4>6. Count(delivery[c].status, delivery[c].attempts,
                  Cardinality(Holders(c)) + 1, Cardinality(Owing(c)) + 1, sends[c], faults)
        BY <4>1, <4>4, <4>5, CountTakes, RowTyped
      <4> QED BY <2>1, <4>3, <4>6 DEF Counted, Count, Allowed, Workers
    <3> QED BY <3>1, <3>2
  <2> QED BY <2>5, <2>6 DEF CountInv
<1>3. CASE Send(p)
  <2>c. PICK c \in Change : c = process[p].change BY <1>a, <1>3 DEF Send, Is, Busy
  <2>0. process[p].at = "send" /\ process[p].change = c BY <1>3, <2>c DEF Send, Is
  <2>1. p \in Drainer /\ stage[c] = "done" /\ \A i \in process[p].batch : queue[i] # c
    BY <1>a, <2>0 DEF Sound, Handing
  <2>2. /\ UNCHANGED <<stage, queue, delivery>>
        /\ \A d \in Change : sends'[d] = IF d = c THEN sends[d] + 1 ELSE sends[d]
    BY <1>3, <2>0 DEF Send, tables, TypeOK
  <2>3. PICK at \in {"sent", "refused", "threw"} : Step(p, at) BY <1>3 DEF Send
  <2>4. /\ Alone(p) /\ process'[p].at = at
        /\ process'[p].change = c /\ process'[p].batch = process[p].batch
    BY <2>0, <2>3, StepsAlone
  <2>5. Sound(p)' BY <2>1, <2>2, <2>4 DEF Sound, Handing
  <2>6. \A d : /\ Has(p, d)' <=> Has(p, d)
               /\ Owes(p, d)' <=> Waiting(p, d)
               /\ Owes(p, d) <=> (d = c \/ Waiting(p, d))
    BY <2>0, <2>2, <2>4 DEF Has, Owes, Waiting, Handing
  <2>7. ~Waiting(p, c) BY <2>1 DEF Waiting
  <2>8. QueueInv' BY <2>0, <2>1, <2>2, <2>4, <2>5, AloneKeeps
  <2>9. ASSUME NEW d \in Change, d # c PROVE Counted(d)'
    BY <2>2, <2>4, <2>6, <2>9, CountStays
  <2>10. Counted(c)'
    <3>1. (p \in Holders(c)' <=> p \in Holders(c)) /\ p \in Owing(c) /\ p \notin Owing(c)'
      BY <2>0, <2>1, <2>6, <2>7 DEF Holders, Owing
    <3>2. /\ Cardinality(Holders(c)') = Cardinality(Holders(c))
          /\ Cardinality(Owing(c)') = Cardinality(Owing(c)) - 1
      BY <2>2, <2>4, <3>1, Moved
    <3>3. Count(delivery[c].status, delivery[c].attempts,
                Cardinality(Holders(c)), Cardinality(Owing(c)), sends[c], faults)
      BY <2>0 DEF CountInv, Counted
    <3>4. Count(delivery[c].status, delivery[c].attempts,
                Cardinality(Holders(c)), Cardinality(Owing(c)) - 1, sends[c] + 1, faults)
      BY <2>0, <3>3, CountSends, RowTyped, HoldersAreFew
    <3> QED BY <2>0, <2>2, <3>2, <3>4 DEF Counted, Count, Allowed, Workers
  <2> QED BY <2>8, <2>9, <2>10 DEF CountInv
<1>4. CASE CompleteDelivery(p)
  <2> DEFINE c == process[p].change
  <2>0. process[p].at \in {"sent", "refused"} /\ c \in Change
    BY <1>a, <1>4 DEF CompleteDelivery, Returned, Is, Busy
  <2>1. UNCHANGED <<stage, queue, sends>> BY <1>4 DEF CompleteDelivery
  <2>2. CASE delivery' = [delivery EXCEPT ![c].status = "delivered"] /\ GoOn(p, process[p].batch)
    <3>1. /\ \A d \in Change \ {c} : delivery'[d] = delivery[d]
          /\ delivery'[c].status = "delivered" /\ delivery'[c].attempts = delivery[c].attempts
      BY <2>0, <2>2 DEF TypeOK, Row
    <3>2. \A h, u \in Nat :
              /\ 1 <= h /\ h <= Workers
              /\ Count(delivery[c].status, delivery[c].attempts, h, u, sends[c], faults)
              => Count(delivery'[c].status, delivery'[c].attempts, h - 1, u, sends[c], faults)
      BY <2>0, <3>1, CountWrites, RowTyped
    <3> QED BY <2>0, <2>1, <2>2, <3>1, <3>2, RowEnds
  <2>3. CASE Step(p, "threw") /\ UNCHANGED delivery
    <3>1. /\ Alone(p) /\ process'[p].at = "threw"
          /\ process'[p].change = c /\ process'[p].batch = process[p].batch
      BY <2>3, StepsAlone
    <3>2. Sound(p)' BY <1>a, <2>0, <2>1, <3>1 DEF Sound, Handing
    <3>3. \A d : (Has(p, d)' <=> Has(p, d)) /\ (Owes(p, d)' <=> Owes(p, d))
      BY <2>0, <2>1, <3>1 DEF Has, Owes, Waiting, Handing
    <3> QED BY <2>1, <2>3, <3>1, <3>2, <3>3, RowsStay
  <2> QED BY <1>4, <2>2, <2>3 DEF CompleteDelivery
<1>5. CASE FailDelivery(p)
  <2> DEFINE c == process[p].change
  <2>0. process[p].at = "threw" /\ c \in Change BY <1>a, <1>5 DEF FailDelivery, Is, Busy
  <2>1. UNCHANGED <<stage, queue, sends>> /\ GoOn(p, process[p].batch) BY <1>5 DEF FailDelivery
  <2>2. /\ \A d \in Change \ {c} : delivery'[d] = delivery[d]
        /\ delivery'[c].status = IF delivery[c].attempts + 1 >= MaxAttempts THEN "failed" ELSE "pending"
        /\ delivery'[c].attempts = delivery[c].attempts + 1
    BY <1>5, <2>0 DEF FailDelivery, TypeOK, Failed
  <2>3. \A h, u \in Nat :
            /\ 1 <= h /\ h <= Workers
            /\ Count(delivery[c].status, delivery[c].attempts, h, u, sends[c], faults)
            => Count(delivery'[c].status, delivery'[c].attempts, h - 1, u, sends[c], faults)
    BY <2>0, <2>2, CountFails, RowTyped
  <2> QED BY <2>0, <2>1, <2>2, <2>3, RowEnds
<1> QED BY <1>1, <1>2, <1>3, <1>4, <1>5 DEF Drain

\* A worker that dies has no row in hand any more, and may have sent some.
LEMMA DeathCounts ==
  ASSUME TypeOK, RowsInv, NEW p \in Process, Dies(p)
  PROVE  RowsInv'
<1> USE DEF RowsInv
<1>1. /\ UNCHANGED <<stage, queue, delivery, sends>> /\ faults' = faults + 1
      /\ process' = [process EXCEPT ![p] = AtRest(p)]
  BY DEF Dies, tables
<1>2. Alone(p) /\ process'[p].at \in {"flag", "ready"} /\ process'[p].batch = {} BY <1>1, RestsAlone
<1>3. Sound(p)' BY <1>2 DEF Sound, Handing
<1>4. QueueInv' BY <1>1, <1>2, <1>3, AloneKeeps
<1>5. ASSUME NEW c \in Change PROVE Counted(c)'
  <2>1. p \notin Holders(c)' /\ p \notin Owing(c)'
    BY <1>2 DEF Holders, Owing, Has, Owes, Waiting, Handing
  <2> DEFINE g == Cardinality(Holders(c)') v == Cardinality(Owing(c)')
  <2>2. /\ g = IF p \in Holders(c) THEN Cardinality(Holders(c)) - 1 ELSE Cardinality(Holders(c))
        /\ v = IF p \in Owing(c) THEN Cardinality(Owing(c)) - 1 ELSE Cardinality(Owing(c))
    BY <1>1, <1>2, <2>1, Moved
  <2>3. /\ Cardinality(Holders(c)) \in Nat /\ Cardinality(Owing(c)) \in Nat
        /\ p \in Holders(c) => Cardinality(Holders(c)) >= 1
        /\ p \in Owing(c) => Cardinality(Owing(c)) >= 1 /\ p \in Holders(c)
    <3>1. p \in Owing(c) => p \in Holders(c) BY DEF Holders, Owing, Has, Owes, Handing
    <3>2. p \in Owing(c) => Cardinality(Owing(c)) # 0 BY HoldersAreFew, FS_EmptySet
    <3> QED BY <3>1, <3>2, HoldersAreFew
  <2>4. Count(delivery[c].status, delivery[c].attempts,
              Cardinality(Holders(c)), Cardinality(Owing(c)), sends[c], faults)
    BY DEF CountInv, Counted
  <2>5. g \in Nat /\ v \in Nat /\ Cardinality(Holders(c)) - 1 <= g /\ g <= Cardinality(Holders(c))
        /\ v <= Cardinality(Owing(c)) /\ g + Cardinality(Owing(c)) <= Cardinality(Holders(c)) + v
    BY <2>2, <2>3
  <2> HIDE DEF g, v
  <2>6. Count(delivery[c].status, delivery[c].attempts, g, v, sends[c], faults + 1)
    BY <2>3, <2>4, <2>5, CountDies, RowTyped
  <2> QED BY <1>1, <2>6 DEF Counted, Count, Allowed, Workers, g, v
<1> QED BY <1>4, <1>5 DEF CountInv

\* A row's retry comes due, the flag is set, or nothing happens.
LEMMA IdleCounts ==
  ASSUME TypeOK, RowsInv, UNCHANGED <<stage, queue, process, sends, faults>>,
         \A c \in Change : /\ delivery'[c].status = delivery[c].status
                           /\ delivery'[c].attempts = delivery[c].attempts
                           /\ stage[c] # "done" => delivery'[c] = delivery[c]
  PROVE  RowsInv'
<1> USE DEF RowsInv
<1>1. \A p \in Process : Sound(p)' BY DEF QueueInv, Sound
<1>2. QueueInv' BY <1>1 DEF QueueInv
<1>3. ASSUME NEW c \in Change PROVE Counted(c)'
  <2>1. Holders(c)' = Holders(c) /\ Owing(c)' = Owing(c)
    BY DEF Holders, Owing, Has, Owes, Waiting, Handing
  <2>2. Counted(c) BY DEF CountInv
  <2> QED BY <2>1, <2>2 DEF Counted, Count, Allowed, Workers
<1> QED BY <1>2, <1>3 DEF CountInv

LEMMA RowsStep == TypeOK /\ RowsInv /\ [Next]_vars => RowsInv'
<1> SUFFICES ASSUME TypeOK, RowsInv, [Next]_vars PROVE RowsInv'
  OBVIOUS
<1>1. ASSUME NEW p \in Process, Acts(p) PROVE RowsInv'
  BY <1>1, ReportCounts, DrainCounts DEF Acts
<1>2. ASSUME NEW p \in Process, Dies(p) PROVE RowsInv'
  BY <1>2, DeathCounts
<1>3. ASSUME NEW c \in Change, RetryComesDue(c) PROVE RowsInv'
  <2>1. \A d \in Change : /\ delivery'[d].status = delivery[d].status
                          /\ delivery'[d].attempts = delivery[d].attempts
    BY <1>3 DEF RetryComesDue, TypeOK, Row
  <2>2. \A d \in Change : stage[d] # "done" => delivery'[d] = delivery[d]
    BY <1>3 DEF RetryComesDue, TypeOK, RowsInv, QueueInv, NoDelivery
  <2> QED BY <1>3, <2>1, <2>2, IdleCounts DEF RetryComesDue
<1>4. CASE SetStop
  BY <1>4, IdleCounts DEF SetStop, tables
<1>5. CASE UNCHANGED vars
  BY <1>5, IdleCounts DEF vars, tables
<1> QED BY <1>1, <1>2, <1>3, <1>4, <1>5 DEF Next

\* A row is given up at the configured number of counted attempts and no earlier,
\* and workers with old batches overshoot it by less than one each: in every order
\* of their reads and writes, every attempt that is counted beyond the limit is
\* the write of a worker that had taken the row before the limit was reached.
THEOREM GivenUp == Spec => []GivenUpInTime
<1>1. ASSUME TypeOK, RowsInv PROVE GivenUpInTime
  <2>1. \A c \in Change : Counted(c) /\ Cardinality(Holders(c)) \in Nat
    BY <1>1, HoldersAreFew DEF RowsInv, CountInv
  <2>2. \A c \in Change : delivery[c].attempts \in Nat BY <1>1, RowTyped
  <2>3. Workers \in Nat /\ MaxAttempts \in Nat BY WorkersAreSome, OutboxAssumption
  <2> QED BY <2>1, <2>2, <2>3 DEF GivenUpInTime, Counted, Count, Workers
<1> QED BY <1>1, OutboxInit, OutboxStep, RowsInit, RowsStep, PTL DEF Spec

\* However many workers overlap, and in whatever order they read, send and write,
\* a message is sent at most once per worker for every attempt, and once more for
\* every death.
THEOREM SendsBounded == Spec => []SendsAreBounded
<1>1. ASSUME TypeOK, RowsInv PROVE SendsAreBounded
  <2> SUFFICES ASSUME NEW c \in Change PROVE sends[c] <= MaxAttempts * Workers + faults
    BY DEF SendsAreBounded, Workers
  <2> DEFINE s == delivery[c].status a == delivery[c].attempts
             h == Cardinality(Holders(c)) u == Cardinality(Owing(c))
  <2>1. Count(s, a, h, u, sends[c], faults) BY <1>1 DEF RowsInv, CountInv, Counted
  <2>2. h \in Nat /\ u \in Nat /\ h <= Workers BY HoldersAreFew
  <2>3. a \in Nat /\ sends[c] \in Nat /\ faults \in Nat BY <1>1, RowTyped
  <2>4. Workers \in Nat /\ MaxAttempts \in Nat BY WorkersAreSome, OutboxAssumption
  <2> HIDE DEF s, a, h, u
  <2>5. a < MaxAttempts => Workers * a + Workers <= Workers * MaxAttempts
    <3> SUFFICES ASSUME a < MaxAttempts PROVE Workers * a + Workers <= Workers * MaxAttempts
      OBVIOUS
    <3>1. PICK k \in Nat : MaxAttempts = a + 1 + k
      <4>1. MaxAttempts - (a + 1) \in Nat BY <2>3, <2>4
      <4> QED BY <2>3, <2>4, <4>1
    <3>2. Workers * (a + 1 + k) = Workers * a + Workers + Workers * k /\ Workers * k \in Nat
          /\ Workers * a \in Nat
      BY <2>3, <2>4, <3>1
    <3> QED BY <2>3, <2>4, <3>1, <3>2
  <2>6. Allowed(s, a, h) <= Workers * MaxAttempts /\ Allowed(s, a, h) \in Nat
    <3>1. Workers * a \in Nat /\ Workers * MaxAttempts \in Nat BY <2>3, <2>4
    <3> QED BY <2>1, <2>2, <2>3, <2>4, <2>5, <3>1 DEF Allowed, Count
  <2>7. Workers * MaxAttempts = MaxAttempts * Workers /\ Workers * MaxAttempts \in Nat BY <2>4
  <2> QED BY <2>1, <2>2, <2>3, <2>6, <2>7 DEF Count
<1> QED BY <1>1, OutboxInit, OutboxStep, RowsInit, RowsStep, PTL DEF Spec

\* Every attempt that is counted, and the delivery of a row, is the outcome of a call
\* of its own, in whatever order workers that hold the same row send and write it:
\* a call and its record are a worker's two steps, and between them the worker holds
\* the row (this is why the count of holders belongs to the invariant).
THEOREM AttemptsAreReal == Spec => []AttemptsWereMade
<1>1. ASSUME TypeOK, RowsInv PROVE AttemptsWereMade
  <2> SUFFICES ASSUME NEW c \in Change
               PROVE  delivery[c].attempts + (IF delivery[c].status = "delivered" THEN 1 ELSE 0) <= sends[c]
    BY DEF AttemptsWereMade
  <2> DEFINE s == delivery[c].status a == delivery[c].attempts
             h == Cardinality(Holders(c)) u == Cardinality(Owing(c))
  <2>1. Count(s, a, h, u, sends[c], faults) BY <1>1 DEF RowsInv, CountInv, Counted
  <2>2. h \in Nat /\ u \in Nat /\ u <= h
    <3>1. Owing(c) \subseteq Holders(c) BY DEF Holders, Owing, Has, Owes, Handing
    <3> QED BY <3>1, HoldersAreFew, FS_Subset
  <2>3. a \in Nat /\ sends[c] \in Nat BY <1>1, RowTyped
  <2> HIDE DEF s, a, h, u
  <2>4. a + (IF s = "delivered" THEN 1 ELSE 0) <= sends[c] BY <2>1, <2>2, <2>3 DEF Count
  <2> QED BY <2>4 DEF s, a
<1> QED BY <1>1, OutboxInit, OutboxStep, RowsInit, RowsStep, PTL DEF Spec

-----------------------------------------------------------------------------
(* Reports that are lost                                                   *)

Reporting == {"made", "recorded"}
Losses == {c \in Change : Dropped(c)}

\* The count is inductive, with Change of any size: what was lost is finite because
\* every death adds one change at most.
DropInv == IsFiniteSet(Losses) /\ Cardinality(Losses) <= faults

\* A step that hands on every change whose report it is about to write, and takes
\* on only what it is about to report, drops nothing.
LEMMA DropsNothing ==
  ASSUME NEW p \in Process, Alone(p), NEW c \in Change,
         stage'[c] \in Reporting =>
            stage'[c] = stage[c] \/ (process'[p].at = stage'[c] /\ process'[p].change = c),
         stage[c] \in Reporting /\ process[p].at = stage[c] /\ process[p].change = c =>
            stage'[c] \notin Reporting \/ (process'[p].at = stage'[c] /\ process'[p].change = c),
         Dropped(c)'
  PROVE  Dropped(c)
<1> USE DEF Reporting
<1>1. stage'[c] \in Reporting /\ ~(process'[p].at = stage'[c] /\ process'[p].change = c)
  BY DEF Dropped, Is
<1>2. stage'[c] = stage[c] BY <1>1
<1>3. ~(process[p].at = stage[c] /\ process[p].change = c) BY <1>1, <1>2
<1>4. ASSUME NEW q \in Process, q # p PROVE ~(process[q].at = stage[c] /\ process[q].change = c)
  <2>1. process'[q] = process[q] BY <1>4 DEF Alone
  <2> QED BY <1>2, <2>1 DEF Dropped, Is
<1> QED BY <1>1, <1>2, <1>3, <1>4 DEF Dropped, Is

\* Losses that do not grow stay few.
LEMMA LossesShrink ==
  ASSUME TypeOK, DropInv, \A c \in Change : Dropped(c)' => Dropped(c), faults' = faults
  PROVE  DropInv'
<1>1. Losses' \subseteq Losses BY DEF Losses
<1>2. /\ IsFiniteSet(Losses') /\ Cardinality(Losses') <= Cardinality(Losses)
      /\ Cardinality(Losses') \in Nat /\ Cardinality(Losses) \in Nat
  BY <1>1, FS_Subset, FS_CardinalityType DEF DropInv
<1> QED BY <1>2, OutboxAssumption DEF DropInv, TypeOK

\* A process that stays outside of the two statements moves no stage.
LEMMA DrainDropsNothing ==
  ASSUME TypeOK, NEW p \in Process, Drain(p), NEW c \in Change, Dropped(c)'
  PROVE  Dropped(c)
<1>1. stage' = stage /\ process[p].at \notin Reporting
  BY DEF Drain, Tick, StartDrain, Send, CompleteDelivery, FailDelivery, Returned, Is, Reporting, tables
<1>2. Alone(p)
  <2>1. \A at : Step(p, at) => Alone(p) BY StepsAlone
  <2>2. \A batch : GoOn(p, batch) => Alone(p) BY DEF GoOn, Alone, TypeOK
  <2> QED BY <2>1, <2>2 DEF Drain, Tick, StartDrain, Send, CompleteDelivery, FailDelivery
<1> QED BY <1>1, <1>2, DropsNothing

LEMMA ReportDropsNothing ==
  ASSUME TypeOK, NEW p \in Process, Report(p), NEW c \in Change, Dropped(c)'
  PROVE  Dropped(c)
<1> USE DEF Reporting
<1>0. process[p].at \in Reporting => process[p].change \in Change BY DEF TypeOK, Busy
<1>1. ASSUME NEW d \in Change, NEW chat, Enqueue(d, chat), process[p].at = "ready", process' = process
      PROVE  Dropped(c)
  <2>1. stage'[c] \in Reporting => stage'[c] = stage[c] BY <1>1 DEF Enqueue, TypeOK
  <2> QED BY <1>1, <2>1, DropsNothing DEF Alone
<1>2. ASSUME NEW d \in Change, UpdateTask(p, d) PROVE Dropped(c)
  <2>1. Alone(p) /\ process'[p].at = "made" /\ process'[p].change = d
    BY <1>2 DEF UpdateTask, TypeOK, Work, Alone
  <2>2. stage'[c] = IF c = d THEN "made" ELSE stage[c] BY <1>2 DEF UpdateTask, TypeOK
  <2>3. process[p].at = "ready" BY <1>2 DEF UpdateTask, Is
  <2> QED BY <2>1, <2>2, <2>3, DropsNothing
<1>3. CASE InsertEvent(p)
  <2>1. PICK d \in Change : d = process[p].change BY <1>0, <1>3 DEF InsertEvent, Is
  <2>2. process[p].at = "made" BY <1>3 DEF InsertEvent, Is
  <2>3. Alone(p) /\ process'[p].at = "recorded" /\ process'[p].change = d
    BY <1>3, <2>1, StepsAlone DEF InsertEvent
  <2>4. stage'[c] = IF c = d THEN "recorded" ELSE stage[c] BY <1>3, <2>1 DEF InsertEvent, TypeOK
  <2> QED BY <2>1, <2>2, <2>3, <2>4, DropsNothing
<1>4. CASE InsertDelivery(p)
  <2>1. PICK d \in Change : d = process[p].change BY <1>0, <1>4 DEF InsertDelivery, Is
  <2>2. Alone(p) BY <1>4, TurnsAlone DEF InsertDelivery
  <2>3. stage'[c] = IF c = d THEN "done" ELSE stage[c] BY <1>4, <2>1 DEF InsertDelivery, Enqueue, TypeOK
  <2> QED BY <2>1, <2>2, <2>3, DropsNothing
<1> QED BY <1>1, <1>2, <1>3, <1>4 DEF Report, CreateUnifiedInput, FinalizeCapabilitySuccess, Is

\* A process that dies drops the one change it was about to report, if any.
LEMMA DeathDropsOne ==
  ASSUME TypeOK, DropInv, NEW p \in Process, Dies(p)
  PROVE  DropInv'
<1>1. stage' = stage /\ faults' = faults + 1 /\ faults \in Nat
  BY OutboxAssumption DEF Dies, tables, TypeOK
<1>2. Alone(p) BY RestsAlone DEF Dies
<1> DEFINE lost == process[p].change
           more == Losses \cup {lost}
<1>3. Losses' \subseteq more
  <2> SUFFICES ASSUME NEW c \in Change, Dropped(c)', c # lost PROVE Dropped(c)
    BY DEF Losses
  <2>1. \A q \in Process \ {p} : process'[q] = process[q] BY <1>2 DEF Alone
  <2> QED BY <1>1, <2>1 DEF Dropped, Is
<1>4. /\ IsFiniteSet(more) /\ Cardinality(more) <= Cardinality(Losses) + 1
      /\ Cardinality(Losses) \in Nat /\ Cardinality(more) \in Nat
  <2>1. IsFiniteSet(Losses) BY DEF DropInv
  <2>2. IsFiniteSet(more) /\ Cardinality(more) = IF lost \in Losses THEN Cardinality(Losses) ELSE Cardinality(Losses) + 1
    BY <2>1, FS_AddElement
  <2> QED BY <2>1, <2>2, FS_CardinalityType
<1> HIDE DEF more, lost
<1>5. IsFiniteSet(Losses') /\ Cardinality(Losses') <= Cardinality(more) /\ Cardinality(Losses') \in Nat
  BY <1>3, <1>4, FS_Subset, FS_CardinalityType
<1> QED BY <1>1, <1>4, <1>5 DEF DropInv

LEMMA DropStep == TypeOK /\ DropInv /\ [Next]_vars => DropInv'
<1> SUFFICES ASSUME TypeOK, DropInv, [Next]_vars PROVE DropInv'
  OBVIOUS
<1>1. ASSUME NEW p \in Process, Acts(p) PROVE DropInv'
  <2>1. \A c \in Change : Dropped(c)' => Dropped(c)
    BY <1>1, DrainDropsNothing, ReportDropsNothing DEF Acts
  <2> QED BY <1>1, <2>1, LossesShrink DEF Acts
<1>2. ASSUME NEW p \in Process, Dies(p) PROVE DropInv'
  BY <1>2, DeathDropsOne
<1>3. CASE UNCHANGED <<stage, process, faults>>
  <2>1. \A c \in Change : Dropped(c)' => Dropped(c) BY <1>3 DEF Dropped, Is
  <2> QED BY <1>3, <2>1, LossesShrink
<1>4. ASSUME NEW c \in Change, RetryComesDue(c) PROVE DropInv'
  BY <1>3, <1>4 DEF RetryComesDue
<1>5. CASE SetStop \/ UNCHANGED vars
  BY <1>3, <1>5 DEF SetStop, vars, tables
<1> QED BY <1>1, <1>2, <1>4, <1>5 DEF Next

\* A change of a task is lost to its readers only by a death between the three
\* statements of transition, and a death loses one change at most: neither the stop
\* flag, nor a delivery that fails, nor any order of the processes' statements can.
THEOREM LossesAreDeaths == Spec => []UnreportedByDeath
<1>1. Init => DropInv
  <2> SUFFICES ASSUME Init PROVE DropInv
    OBVIOUS
  <2>1. Losses = {} BY DEF Init, Losses, Dropped
  <2> QED BY <2>1, FS_EmptySet DEF Init, DropInv
<1>2. DropInv => UnreportedByDeath BY DEF DropInv, UnreportedByDeath, Losses
<1> QED BY <1>1, <1>2, DropStep, OutboxInit, OutboxStep, PTL DEF Spec

=============================================================================
