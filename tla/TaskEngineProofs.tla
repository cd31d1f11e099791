-------------------------- MODULE TaskEngineProofs --------------------------
(***************************************************************************)
(* What module TaskEngine promises, proved for every set of tasks, workers  *)
(* and capabilities and every bound.                                        *)
(***************************************************************************)
EXTENDS TaskEngine, TLAPS

-----------------------------------------------------------------------------
(* Types                                                                   *)

LEMMA InitTyped == EngineInit => EngineTypeOK
<1> SUFFICES ASSUME EngineInit PROVE EngineTypeOK
  OBVIOUS
<1>1. NoRow \in Row BY DEF NoRow, Row, Ownership
<1>2. NoClaim \in Ownership BY DEF Ownership
<1>3. ledger \in [Task -> [Lane -> Row]] BY <1>1 DEF EngineInit
<1>4. approvals \in [Task -> Seq(Approval)] /\ created \in Seq(Task) BY DEF EngineInit
<1>5. issued \in 0..MaxClaims /\ recorded \in [Task -> 0..MaxRecords]
  BY EngineAssumption DEF EngineInit
<1>6. status \in [Task -> Status] /\ owner \in [Task -> Ownership]
  BY <1>2 DEF EngineInit, Status
<1>7. profile \in [Task -> Profile \cup {NoProfile}] /\ stale \in [Task -> BOOLEAN]
      /\ billed \in SUBSET Task /\ stop \in BOOLEAN
  BY DEF EngineInit
<1> QED BY <1>3, <1>4, <1>5, <1>6, <1>7 DEF EngineTypeOK

\* The ledger keeps its type when the status of a row is written, or its result
\* is stored.
LEMMA RowWritten ==
  ASSUME NEW f \in [Task -> [Lane -> Row]], NEW t \in Task, NEW l \in Lane,
         NEW s \in Open \cup Terminal
  PROVE  [f EXCEPT ![t][l].status = s] \in [Task -> [Lane -> Row]]
<1> DEFINE r == [f[t][l] EXCEPT !.status = s]
<1>1. f[t][l] \in Row OBVIOUS
<1>2. r \in Row BY <1>1 DEF Row
<1>3. [f EXCEPT ![t][l] = r] \in [Task -> [Lane -> Row]]
  <2> HIDE DEF r
  <2> QED BY <1>2
<1> QED BY <1>3

LEMMA RowSealed ==
  ASSUME NEW f \in [Task -> [Lane -> Row]], NEW t \in Task, NEW l \in Lane
  PROVE  [f EXCEPT ![t][l].status = "completed", ![t][l].sealed = TRUE]
            \in [Task -> [Lane -> Row]]
<1> DEFINE g == [f EXCEPT ![t][l].status = "completed"]
           r == [g[t][l] EXCEPT !.sealed = TRUE]
<1>1. g \in [Task -> [Lane -> Row]] BY RowWritten DEF Terminal
<1>2. r \in Row
  <2> HIDE DEF g
  <2>1. g[t][l] \in Row BY <1>1
  <2> QED BY <2>1 DEF Row
<1>3. [g EXCEPT ![t][l] = r] \in [Task -> [Lane -> Row]]
  <2> HIDE DEF g, r
  <2> QED BY <1>1, <1>2
<1> QED BY <1>3

\* A claim names a worker and a token that has been drawn.
LEMMA FreshClaimTyped ==
  ASSUME EngineTypeOK, NEW w \in Worker, issued < MaxClaims
  PROVE  FreshClaim(w) \in Claim /\ issued + 1 \in 0..MaxClaims
  BY EngineAssumption DEF EngineTypeOK, FreshClaim, Claim

LEMMA MovedTyped ==
  ASSUME EngineTypeOK, NEW t \in Task, NEW s \in Status, NEW own
  PROVE  Moved(t, s, own) \in [Task -> Status]
  BY DEF EngineTypeOK, Moved

LEMMA TypeStep == EngineTypeOK /\ [EngineNext]_engineVars => EngineTypeOK'
<1> SUFFICES ASSUME EngineTypeOK, [EngineNext]_engineVars PROVE EngineTypeOK'
  OBVIOUS
<1> USE EngineAssumption DEF EngineTypeOK, taskVars, ledgerVars
<1>1. ASSUME NEW t \in Task, NEW p \in Profile, CreateTask(t, p) PROVE EngineTypeOK'
  BY <1>1 DEF CreateTask, Status
<1>2. ASSUME NEW t \in Task, NEW s \in Requested, NEW own \in Named, Transition(t, s, own)
      PROVE EngineTypeOK'
  <2>1. s \in Status BY DEF Requested
  <2>2. Moved(t, s, own) \in [Task -> Status] BY <2>1, MovedTyped
  <2> QED BY <1>2, <2>2 DEF Transition
<1>3. ASSUME NEW t \in Task, NEW w \in Worker, ClaimNext(w, t) PROVE EngineTypeOK'
  <2>1. FreshClaim(w) \in Ownership /\ issued + 1 \in 0..MaxClaims
    BY <1>3, FreshClaimTyped DEF ClaimNext, Ownership
  <2> QED BY <1>3, <2>1 DEF ClaimNext, Status
<1>4. ASSUME NEW t \in Task, NEW own \in Named, Heartbeat(t, own) PROVE EngineTypeOK'
  BY <1>4 DEF Heartbeat
<1>5. ASSUME NEW t \in Task, LeaseExpires(t) PROVE EngineTypeOK'
  BY <1>5 DEF LeaseExpires
<1>6. ASSUME NEW t \in Task, NEW l \in Lane, NEW own \in Named, NEW r \in BOOLEAN, Prepare(t, l, own, r)
      PROVE EngineTypeOK'
  <2>1. [status |-> "dispatching", by |-> own, receiver |-> r, sealed |-> FALSE] \in Row
    BY DEF Row, Open, Named
  <2> QED BY <1>6, <2>1 DEF Prepare
<1>7. ASSUME NEW t \in Task, NEW s \in Terminal, FinishCodex(t, s) PROVE EngineTypeOK'
  <2>1. Codex \in Lane BY DEF Lane
  <2>2. ledger' \in [Task -> [Lane -> Row]] BY <1>7, <2>1, RowWritten DEF FinishCodex
  <2> QED BY <1>7, <2>2 DEF FinishCodex
<1>8. ASSUME NEW t \in Task, NEW c \in Capability, NEW s \in Terminal, FinishCapability(t, c, s)
      PROVE EngineTypeOK'
  <2>1. c \in Lane BY DEF Lane
  <2>2. ledger' \in [Task -> [Lane -> Row]] BY <1>8, <2>1, RowWritten DEF FinishCapability
  <2> QED BY <1>8, <2>2 DEF FinishCapability
<1>9. ASSUME NEW t \in Task, NEW c \in Capability, Consume(t, c) PROVE EngineTypeOK'
  <2>1. c \in Lane BY DEF Lane
  <2>2. ledger' \in [Task -> [Lane -> Row]] BY <1>9, <2>1, RowWritten DEF Consume, Open
  <2> QED BY <1>9, <2>2 DEF Consume
<1>10. ASSUME NEW t \in Task, NEW c \in Capability, NEW own \in Named, Finalize(t, c, own)
       PROVE EngineTypeOK'
  <2>1. c \in Lane BY DEF Lane
  <2>2. ledger' \in [Task -> [Lane -> Row]] BY <1>10, <2>1, RowSealed DEF Finalize
  <2>3. status' \in [Task -> Status] BY <1>10 DEF Finalize, Status
  <2> QED BY <1>10, <2>2, <2>3 DEF Finalize
<1>11. ASSUME NEW t \in Task, RecordAttempt(t) PROVE EngineTypeOK'
  BY <1>11 DEF RecordAttempt
<1>12. ASSUME NEW t \in Task, NEW ttl \in BOOLEAN, CreateApproval(t, ttl) PROVE EngineTypeOK'
  <2>1. [status |-> "pending", ttl |-> ttl, cold |-> FALSE] \in Approval BY DEF Approval
  <2> QED BY <1>12, <2>1 DEF CreateApproval
<1>13. ASSUME NEW t \in Task, NEW d \in Decision, DecideApproval(t, d) PROVE EngineTypeOK'
  <2>1. PICK i \in 1..Len(approvals[t]) :
          approvals' = [approvals EXCEPT ![t][i].status = IF approvals[t][i].cold THEN "expired" ELSE d]
    BY <1>13 DEF DecideApproval
  <2>2. approvals[t] \in Seq(Approval) /\ approvals[t][i] \in Approval OBVIOUS
  <2>3. [approvals[t][i] EXCEPT !.status = IF approvals[t][i].cold THEN "expired" ELSE d] \in Approval
    BY <2>2 DEF Approval
  <2>4. approvals' \in [Task -> Seq(Approval)] BY <2>1, <2>2, <2>3
  <2> QED BY <1>13, <2>4 DEF DecideApproval
<1>14. ASSUME NEW t \in Task, ApprovalGoesCold(t) PROVE EngineTypeOK'
  <2>1. PICK i \in 1..Len(approvals[t]) : approvals' = [approvals EXCEPT ![t][i].cold = TRUE]
    BY <1>14 DEF ApprovalGoesCold
  <2>2. approvals[t] \in Seq(Approval) /\ approvals[t][i] \in Approval OBVIOUS
  <2>3. [approvals[t][i] EXCEPT !.cold = TRUE] \in Approval BY <2>2 DEF Approval
  <2>4. approvals' \in [Task -> Seq(Approval)] BY <2>1, <2>2, <2>3
  <2> QED BY <1>14, <2>4 DEF ApprovalGoesCold
<1>15. ASSUME NEW on \in BOOLEAN, SetStop(on) PROVE EngineTypeOK'
  BY <1>15 DEF SetStop
<1>16. CASE UNCHANGED engineVars BY <1>16 DEF engineVars
<1> HIDE DEF EngineTypeOK, taskVars, ledgerVars
<1> QED
  BY <1>1, <1>2, <1>3, <1>4, <1>5, <1>6, <1>7, <1>8, <1>9, <1>10, <1>11, <1>12, <1>13, <1>14, <1>15, <1>16
  DEF EngineNext, EngineStep

\* Every table keeps its type (tasks, provider_attempts, approvals, system_flags).
THEOREM EngineTyped == EngineSpec => []EngineTypeOK
  BY InitTyped, TypeStep, PTL DEF EngineSpec

-----------------------------------------------------------------------------
(* Cancellation                                                            *)

\* No operation takes a cancelled task out of its status.
LEMMA CancelledStep ==
  ASSUME EngineTypeOK, [EngineNext]_engineVars, NEW t \in Task, status[t] = "cancelled"
  PROVE  status'[t] = "cancelled"
<1> USE DEF EngineTypeOK, taskVars, ledgerVars
<1>1. ASSUME NEW u \in Task, NEW p \in Profile, CreateTask(u, p) PROVE status'[t] = "cancelled"
  BY <1>1 DEF CreateTask, Exists
<1>2. ASSUME NEW u \in Task, NEW s \in Requested, NEW own \in Named, Transition(u, s, own)
      PROVE status'[t] = "cancelled"
  BY <1>2 DEF Transition, Moved, MayMove
<1>3. ASSUME NEW u \in Task, NEW w \in Worker, ClaimNext(w, u) PROVE status'[t] = "cancelled"
  <2>1. status[u] # "cancelled" BY <1>3 DEF ClaimNext, OldestClaimable, Claimable, Active
  <2> QED BY <1>3, <2>1 DEF ClaimNext
<1>4. ASSUME NEW u \in Task, NEW c \in Capability, NEW own \in Named, Finalize(u, c, own)
      PROVE status'[t] = "cancelled"
  BY <1>4 DEF Finalize, MayFinalize
<1>5. CASE UNCHANGED status BY <1>5
<1>6. (\E u \in Task, p \in Profile : CreateTask(u, p))
      \/ (\E u \in Task, s \in Requested, own \in Named : Transition(u, s, own))
      \/ (\E u \in Task, w \in Worker : ClaimNext(w, u))
      \/ (\E u \in Task, c \in Capability, own \in Named : Finalize(u, c, own))
      \/ UNCHANGED status
  BY DEF EngineNext, EngineStep, engineVars, Heartbeat, LeaseExpires, Prepare, FinishCodex,
         FinishCapability, Consume, RecordAttempt, CreateApproval, DecideApproval,
         ApprovalGoesCold, SetStop
<1> QED BY <1>1, <1>2, <1>3, <1>4, <1>5, <1>6

\* Cancellation is absorbing for every caller (the predicate of transition, and
\* the statuses claimNext and finalizeCapabilitySuccess ask for).
THEOREM CancellationAbsorbs == EngineSpec => CancelledIsFinal
<1>1. EngineTypeOK /\ [EngineNext]_engineVars
        => [\A t \in Task : status[t] = "cancelled" => status'[t] = "cancelled"]_engineVars
  BY CancelledStep
<1> QED BY <1>1, EngineTyped, PTL DEF EngineSpec, CancelledIsFinal

-----------------------------------------------------------------------------
(* Approvals                                                               *)

\* No operation rewrites an approval row that has left pending.
LEMMA DecisionStep ==
  ASSUME EngineTypeOK, [EngineNext]_engineVars,
         NEW t \in Task, NEW i \in 1..Len(approvals[t]), approvals[t][i].status # "pending"
  PROVE  approvals'[t][i].status = approvals[t][i].status
<1> DEFINE Kept == approvals'[t][i].status = approvals[t][i].status
<1>0. approvals \in [Task -> Seq(Approval)] BY DEF EngineTypeOK
<1>1. ASSUME NEW u \in Task, NEW ttl \in BOOLEAN, CreateApproval(u, ttl) PROVE Kept
  <2>1. approvals[t] \in Seq(Approval) BY <1>0
  <2>2. approvals'[t] = approvals[t]
        \/ approvals'[t] = Append(approvals[t], [status |-> "pending", ttl |-> ttl, cold |-> FALSE])
    BY <1>0, <1>1 DEF CreateApproval
  <2> QED BY <2>1, <2>2
<1>2. ASSUME NEW u \in Task, NEW d \in Decision, DecideApproval(u, d) PROVE Kept
  <2>1. PICK j \in 1..Len(approvals[u]) :
          /\ approvals[u][j].status = "pending"
          /\ approvals' = [approvals EXCEPT ![u][j].status =
                              IF approvals[u][j].cold THEN "expired" ELSE d]
    BY <1>2 DEF DecideApproval, NewestPending
  <2> QED BY <1>0, <2>1
<1>3. ASSUME NEW u \in Task, ApprovalGoesCold(u) PROVE Kept
  <2>1. PICK j \in 1..Len(approvals[u]) : approvals' = [approvals EXCEPT ![u][j].cold = TRUE]
    BY <1>3 DEF ApprovalGoesCold
  <2>2. approvals[u][j] \in Approval BY <1>0
  <2> QED BY <1>0, <2>1, <2>2 DEF Approval
<1>4. CASE UNCHANGED approvals BY <1>4
<1>5. (\E u \in Task, ttl \in BOOLEAN : CreateApproval(u, ttl))
      \/ (\E u \in Task, d \in Decision : DecideApproval(u, d))
      \/ (\E u \in Task : ApprovalGoesCold(u))
      \/ UNCHANGED approvals
  BY DEF EngineNext, EngineStep, engineVars, CreateTask, Transition, ClaimNext, Heartbeat,
         LeaseExpires, Prepare, FinishCodex, FinishCapability, Consume, Finalize,
         RecordAttempt, SetStop
<1> QED BY <1>1, <1>2, <1>3, <1>4, <1>5

\* A decision once recorded stands (decideApproval picks pending rows only).
THEOREM DecisionsStand == EngineSpec => DecisionStands
<1>1. EngineTypeOK /\ [EngineNext]_engineVars
        => [\A t \in Task : \A i \in 1..Len(approvals[t]) :
              approvals[t][i].status # "pending" =>
                  approvals'[t][i].status = approvals[t][i].status]_engineVars
  BY DecisionStep
<1> QED BY <1>1, EngineTyped, PTL DEF EngineSpec, DecisionStands

-----------------------------------------------------------------------------
(* The dispatch ledger                                                     *)

\* What a step may do to one row of the ledger, and to the bill that goes with
\* it.  Every property of the ledger below follows from this case analysis.
Reserved(t, l) ==
    /\ ledger[t][l].status = "none" /\ ledger'[t][l].status = "dispatching"
    /\ ~ledger'[t][l].sealed

Started(t, l) ==
    /\ ledger[t][l].status = "dispatching" /\ ledger'[t][l].status = "started"
    /\ ledger'[t][l].sealed = ledger[t][l].sealed

Closed(t, l) ==
    /\ ledger[t][l].status \in Open /\ ledger'[t][l].status \in Terminal
    /\ ledger'[t][l].sealed = ledger[t][l].sealed

Sealed(t, l) ==
    /\ ledger[t][l].status \in Open /\ ledger'[t][l].status = "completed"
    /\ status'[t] = "completed" /\ owner'[t] = ledger[t][l].by /\ ~stop
    /\ ledger[t][l].receiver => ledger[t][l].status = "started"

\* Every row but one, and every bill but that of its task, stay as they are.
Alone(t, l) ==
    \A u \in Task, m \in Lane : <<u, m>> # <<t, l>> => ledger'[u][m] = ledger[u][m]

LedgerMove(t, l) ==
    /\ Alone(t, l)
    /\ \/ (Reserved(t, l) \/ Started(t, l)) /\ UNCHANGED billed
       \/ Closed(t, l) /\ l # Codex /\ UNCHANGED billed
       \/ Closed(t, l) /\ l = Codex /\ billed' = billed \cup {t}
       \/ Sealed(t, l) /\ l # Codex /\ UNCHANGED billed

LEMMA LedgerStep ==
  ASSUME EngineTypeOK, [EngineNext]_engineVars
  PROVE  UNCHANGED <<ledger, billed>> \/ \E t \in Task, l \in Lane : LedgerMove(t, l)
<1> USE EngineAssumption DEF LedgerMove, Alone
<1>0. /\ ledger \in [Task -> [Lane -> Row]]
      /\ \A t \in Task, l \in Lane : ledger[t][l] \in Row
  BY DEF EngineTypeOK
<1>1. ASSUME NEW t \in Task, NEW l \in Lane, NEW own \in Named, NEW r \in BOOLEAN, Prepare(t, l, own, r)
      PROVE LedgerMove(t, l)
  BY <1>0, <1>1 DEF Prepare, Reserved
<1>2. ASSUME NEW t \in Task, NEW s \in Terminal, FinishCodex(t, s) PROVE LedgerMove(t, Codex)
  <2>1. Codex \in Lane BY DEF Lane
  <2> QED BY <1>0, <1>2, <2>1 DEF FinishCodex, Closed, InFlight, Row
<1>3. ASSUME NEW t \in Task, NEW c \in Capability, NEW s \in Terminal, FinishCapability(t, c, s)
      PROVE LedgerMove(t, c)
  <2>1. c \in Lane /\ c # Codex BY DEF Lane
  <2> QED BY <1>0, <1>3, <2>1 DEF FinishCapability, Closed, InFlight, Row
<1>4. ASSUME NEW t \in Task, NEW c \in Capability, Consume(t, c) PROVE LedgerMove(t, c)
  <2>1. c \in Lane BY DEF Lane
  <2> QED BY <1>0, <1>4, <2>1 DEF Consume, Started, Row
<1>5. ASSUME NEW t \in Task, NEW c \in Capability, NEW own \in Named, Finalize(t, c, own)
      PROVE LedgerMove(t, c)
  <2>1. c \in Lane /\ c # Codex BY DEF Lane
  <2>2. ledger[t][c].status \in Open /\ (ledger[t][c].receiver => ledger[t][c].status = "started")
    BY <1>5 DEF Finalize, MayFinalize, InFlight, Open
  <2>3. ledger'[t][c].status = "completed" BY <1>0, <1>5, <2>1 DEF Finalize, Row
  <2>4. status'[t] = "completed" /\ owner'[t] = ledger[t][c].by /\ ~stop
    BY <1>5 DEF Finalize, MayFinalize, EngineTypeOK
  <2>5. Alone(t, c) /\ UNCHANGED billed BY <1>0, <1>5, <2>1 DEF Finalize
  <2> QED BY <2>1, <2>2, <2>3, <2>4, <2>5 DEF Sealed
<1>6. UNCHANGED <<ledger, billed>>
      \/ (\E t \in Task, l \in Lane, own \in Named, r \in BOOLEAN : Prepare(t, l, own, r))
      \/ (\E t \in Task, s \in Terminal : FinishCodex(t, s))
      \/ (\E t \in Task, c \in Capability, s \in Terminal : FinishCapability(t, c, s))
      \/ (\E t \in Task, c \in Capability : Consume(t, c))
      \/ (\E t \in Task, c \in Capability, own \in Named : Finalize(t, c, own))
  BY DEF EngineNext, EngineStep, engineVars, ledgerVars, CreateTask, Transition, ClaimNext,
         Heartbeat, LeaseExpires, RecordAttempt, CreateApproval, DecideApproval,
         ApprovalGoesCold, SetStop
<1>7. Codex \in Lane /\ Capability \subseteq Lane BY DEF Lane
<1> QED BY <1>1, <1>2, <1>3, <1>4, <1>5, <1>6, <1>7

\* A Codex attempt is settled if and only if its usage row is there
\* (finishCodexDispatchWithUsage commits both, and nothing else settles it).
THEOREM UsageSettles == EngineSpec => []UsageWithOutcome
<1>1. EngineInit => UsageWithOutcome
  <2> SUFFICES ASSUME EngineInit, NEW t \in Task PROVE t \in billed <=> ledger[t][Codex].status \in Terminal
    BY DEF UsageWithOutcome
  <2>1. Codex \in Lane BY DEF Lane
  <2>2. t \notin billed /\ ledger[t][Codex].status = "none" BY <2>1 DEF EngineInit, NoRow
  <2> QED BY <2>2 DEF Terminal
<1>2. ASSUME EngineTypeOK, UsageWithOutcome, [EngineNext]_engineVars PROVE UsageWithOutcome'
  <2> SUFFICES ASSUME NEW t \in Task
               PROVE  t \in billed' <=> ledger'[t][Codex].status \in Terminal
    BY DEF UsageWithOutcome
  <2>0. Codex \in Lane /\ (t \in billed <=> ledger[t][Codex].status \in Terminal)
    BY <1>2 DEF UsageWithOutcome, Lane
  <2>1. CASE UNCHANGED <<ledger, billed>> BY <2>0, <2>1
  <2>2. ASSUME NEW u \in Task, NEW l \in Lane, LedgerMove(u, l)
        PROVE  t \in billed' <=> ledger'[t][Codex].status \in Terminal
    <3>1. CASE u = t /\ l = Codex
      BY <2>0, <2>2, <3>1 DEF LedgerMove, Reserved, Started, Closed, Open, Terminal
    <3>2. CASE ~(u = t /\ l = Codex)
      <4>1. ledger'[t][Codex] = ledger[t][Codex] BY <2>0, <2>2, <3>2 DEF LedgerMove, Alone
      <4>2. t \in billed' <=> t \in billed BY <2>2, <3>2 DEF LedgerMove
      <4> QED BY <2>0, <4>1, <4>2
    <3> QED BY <3>1, <3>2
  <2> QED BY <1>2, <2>1, <2>2, LedgerStep
<1> QED BY <1>1, <1>2, EngineTyped, PTL DEF EngineSpec

\* A result is stored only by the claim that dispatched it, with the completion
\* of its task, under no stop, for a dispatch the receiver had accepted.
THEOREM SealsComplete == EngineSpec => SealCompletesTask
<1>1. ASSUME EngineTypeOK, [EngineNext]_engineVars, NEW t \in Task, NEW l \in Lane,
             ledger'[t][l].sealed, ~ledger[t][l].sealed
      PROVE  /\ status'[t] = "completed"
             /\ owner'[t] = ledger[t][l].by
             /\ ledger[t][l].receiver => ledger[t][l].status = "started"
             /\ ~stop
  <2>1. ~ UNCHANGED <<ledger, billed>> BY <1>1
  <2>2. PICK u \in Task, m \in Lane : LedgerMove(u, m) BY <1>1, <2>1, LedgerStep
  <2>3. u = t /\ m = l BY <1>1, <2>2 DEF LedgerMove, Alone
  <2> QED BY <1>1, <2>2, <2>3 DEF LedgerMove, Reserved, Started, Closed, Sealed
<1>2. EngineTypeOK /\ [EngineNext]_engineVars
        => [\A t \in Task, l \in Lane :
              (ledger'[t][l].sealed /\ ~ledger[t][l].sealed) =>
                  /\ status'[t] = "completed"
                  /\ owner'[t] = ledger[t][l].by
                  /\ ledger[t][l].receiver => ledger[t][l].status = "started"
                  /\ ~stop]_engineVars
  BY <1>1
<1> QED BY <1>2, EngineTyped, PTL DEF EngineSpec, SealCompletesTask

-----------------------------------------------------------------------------
(* The refinement                                                          *)

\* The engine's tables implement the abstract dispatch ledger of module
\* DispatchLedger: no caller can reserve a dispatch twice, start it twice, settle
\* it twice, or settle a Codex dispatch without its bill.
THEOREM LedgerRefined == EngineSpec => LedgerRefinement
<1> DEFINE Phase == [k \in Task \X Lane |-> ledger[k[1]][k[2]].status]
           Bills == billed \X {Codex}
<1>1. EngineInit => Ledger!LedgerInit
  <2> SUFFICES ASSUME EngineInit PROVE Ledger!LedgerInit
    OBVIOUS
  <2>1. \A t \in Task, l \in Lane : ledger[t][l].status = "none" BY DEF EngineInit, NoRow
  <2>2. Phase = [k \in Task \X Lane |-> "none"] BY <2>1
  <2>3. Bills = {} BY DEF EngineInit
  <2> QED BY <2>2, <2>3 DEF Ledger!LedgerInit
<1>2. ASSUME EngineTypeOK, [EngineNext]_engineVars PROVE [Ledger!LedgerNext]_(Ledger!ledgerVars)
  <2>1. CASE UNCHANGED <<ledger, billed>>
    BY <2>1 DEF Ledger!ledgerVars
  <2>2. ASSUME NEW t \in Task, NEW l \in Lane, LedgerMove(t, l) PROVE Ledger!LedgerNext
    <3> DEFINE k == <<t, l>>
    <3>1. k \in Task \X Lane /\ Phase[k] = ledger[t][l].status OBVIOUS
    <3>2. Phase' = [Phase EXCEPT ![k] = ledger'[t][l].status]
      <4>1. \A j \in Task \X Lane : j # k => ledger'[j[1]][j[2]] = ledger[j[1]][j[2]]
        BY <2>2 DEF LedgerMove, Alone
      <4>2. \A j \in Task \X Lane : j # k => Phase'[j] = Phase[j] BY <4>1
      <4>3. Phase'[k] = ledger'[t][l].status BY <3>1
      <4>4. Phase' = [j \in Task \X Lane |-> Phase'[j]] /\ Phase = [j \in Task \X Lane |-> Phase[j]]
        OBVIOUS
      <4> HIDE DEF Phase, k
      <4> QED BY <3>1, <4>2, <4>3, <4>4
    <3>3. k \in Task \X {Codex} <=> l = Codex OBVIOUS
    <3>4. billed' = billed => Bills' = Bills OBVIOUS
    <3>5. (l = Codex /\ billed' = billed \cup {t}) => Bills' = Bills \cup {k} OBVIOUS
    <3> HIDE DEF Phase, Bills, k
    <3>6. CASE Reserved(t, l) /\ UNCHANGED billed
      <4>1. Ledger!Reserve(k) BY <3>1, <3>2, <3>4, <3>6 DEF Reserved, Ledger!Reserve, Phase, Bills
      <4> QED BY <3>1, <4>1 DEF Ledger!LedgerNext
    <3>7. CASE Started(t, l) /\ UNCHANGED billed
      <4>1. Ledger!Start(k) BY <3>1, <3>2, <3>4, <3>7 DEF Started, Ledger!Start, Phase, Bills
      <4> QED BY <3>1, <4>1 DEF Ledger!LedgerNext
    <3>8. CASE Closed(t, l) /\ (IF l = Codex THEN billed' = billed \cup {t} ELSE UNCHANGED billed)
      <4>1. ledger'[t][l].status \in Ledger!Outcome BY <3>8 DEF Closed, Terminal, Ledger!Outcome
      <4>2. PICK o \in Ledger!Outcome : o = ledger'[t][l].status BY <4>1
      <4>3. Ledger!Settle(k, o)
        BY <3>1, <3>2, <3>3, <3>4, <3>5, <3>8, <4>2
        DEF Closed, Open, Ledger!Settle, Ledger!Opened, Phase, Bills
      <4> QED BY <3>1, <4>3 DEF Ledger!LedgerNext
    <3>9. CASE Sealed(t, l) /\ l # Codex /\ UNCHANGED billed
      <4>1. Ledger!Settle(k, "completed")
        BY <3>1, <3>2, <3>3, <3>4, <3>9
        DEF Sealed, Open, Ledger!Settle, Ledger!Opened, Phase, Bills
      <4> QED BY <3>1, <4>1 DEF Ledger!LedgerNext, Ledger!Outcome
    <3> QED BY <2>2, <3>6, <3>7, <3>8, <3>9 DEF LedgerMove
  <2> QED BY <1>2, <2>1, <2>2, LedgerStep
<1> QED BY <1>1, <1>2, EngineTyped, PTL DEF EngineSpec, LedgerRefinement, Ledger!LedgerSpec

=============================================================================
