------------------------- MODULE OrchestratorProofs -------------------------
(***************************************************************************)
(* What module Orchestrator promises, proved for every set of runs and     *)
(* processes and every limit.                                              *)
(*                                                                         *)
(* That an approval serves one run is no invariant of its own: RunInv says *)
(* how the calls of a run follow from where it is and that a run which has *)
(* called holds an approval it consumed itself, WarnedInv where a run may  *)
(* be that awaited a call when the stop was raised, SlotInv that a slot is *)
(* one of a run's, held from acquire to release.                           *)
(***************************************************************************)
EXTENDS Orchestrator, FiniteSetTheorems, TLAPS

RunRecord == [at : Points, process : Process \cup {NoProcess}, attempt : 1..MaxAttempts,
              approval : 0..MaxApprovals, mode : Modes, seen : 0..Threshold]

Untried == {"new", "stopFlag", "approval", "admit"}

Calls(r) ==
    /\ calls[r] <= run[r].attempt
    /\ run[r].at \in Untried => calls[r] = 0 /\ run[r].attempt = 1
    /\ run[r].at = "recheck" => calls[r] + 1 = run[r].attempt
    /\ run[r].at = "reserve" => calls[r] = 0 /\ run[r].attempt = 1 /\ r \in Guarded
    /\ run[r].at \in {"calling", "health", "failure"} => calls[r] = run[r].attempt

Approved(r) ==
    r \in Guarded /\ (run[r].at \in {"admit", "recheck", "reserve"} \/ calls[r] > 0) =>
       run[r].approval \in DOMAIN approvals

RunInv == \A r \in Run : Calls(r) /\ Approved(r)

ApprovalInv ==
    \A r \in Guarded : calls[r] > 0 =>
       /\ approvals[run[r].approval] = "consumed"
       /\ \A s \in Guarded : calls[s] > 0 /\ run[s].approval = run[r].approval => s = r

WarnedInv ==
    \A r \in warned : stop /\ run[r].at \notin Untried \cup {"reserve"}

Holding(p) == {r \in Run : run[r].process = p /\ run[r].at \in Slotted}

SlotInv ==
    /\ \A r \in Run : run[r].at \notin {"new", "dead"} => run[r].process \in Process
    /\ \A r \in Run : run[r].at = "new" => run[r].process = NoProcess
    /\ \A p \in Process : active[p] = Cardinality(Holding(p)) /\ active[p] <= Limit

IInv == TypeOK /\ RunInv /\ ApprovalInv /\ WarnedInv /\ SlotInv

-----------------------------------------------------------------------------
(* Types                                                                   *)

\* A run that moves keeps its type when the fields it writes have theirs.
LEMMA Moves ==
  ASSUME TypeOK, NEW r \in Run, NEW next \in RunRecord, run' = [run EXCEPT ![r] = next]
  PROVE  run' \in [Run -> RunRecord] /\ run'[r] = next /\ \A s \in Run \ {r} : run'[s] = run[s]
BY DEF TypeOK, RunRecord

\* A step changes one run, which stays with its process.
Alone(r) ==
    /\ run' \in [Run -> RunRecord]
    /\ run'[r].process = run[r].process
    /\ \A s \in Run \ {r} : run'[s] = run[s]

LEMMA GoesTo ==
  ASSUME TypeOK, NEW r \in Run, NEW point \in Points, To(r, point)
  PROVE  /\ Alone(r)
         /\ run'[r].at = point /\ run'[r].attempt = run[r].attempt
         /\ run'[r].approval = run[r].approval /\ run'[r].mode = run[r].mode
<1> DEFINE next == [run[r] EXCEPT !.at = point]
<1>1. run[r] \in RunRecord BY DEF TypeOK, RunRecord
<1>2. next \in RunRecord BY <1>1 DEF RunRecord
<1>3. run' = [run EXCEPT ![r] = next] BY DEF To
<1>4. next.at = point /\ next.attempt = run[r].attempt /\ next.approval = run[r].approval
      /\ next.mode = run[r].mode /\ next.process = run[r].process
  BY <1>1 DEF RunRecord
<1> HIDE DEF next
<1> QED BY <1>2, <1>3, <1>4, Moves DEF Alone

LEMMA ReturnsFrom ==
  ASSUME TypeOK, NEW r \in Run, NEW mode \in Modes, Returns(r, mode)
  PROVE  /\ Alone(r)
         /\ run'[r].at = "returned" /\ run'[r].attempt = run[r].attempt
         /\ run'[r].approval = run[r].approval /\ run'[r].mode = mode
<1> DEFINE next == [run[r] EXCEPT !.at = "returned", !.mode = mode, !.seen = 0]
<1>1. run[r] \in RunRecord /\ 0 \in 0..Threshold
  BY OrchestratorAssumption DEF TypeOK, RunRecord
<1>2. next \in RunRecord BY <1>1 DEF RunRecord, Points
<1>3. run' = [run EXCEPT ![r] = next] BY DEF Returns
<1>4. next.at = "returned" /\ next.attempt = run[r].attempt /\ next.approval = run[r].approval
      /\ next.mode = mode /\ next.process = run[r].process
  BY <1>1 DEF RunRecord
<1> HIDE DEF next
<1> QED BY <1>2, <1>3, <1>4, Moves DEF Alone

\* Where a step of a run leads, what it counts and which approval it keeps.
Leads(r) ==
    /\ Alone(r)
    /\ run'[r].at # run[r].at
    /\ \/ /\ run[r].at \in {"stopFlag", "approval"} /\ run'[r].at \in {"approval", "admit", "ended"}
          /\ run'[r].attempt = run[r].attempt /\ UNCHANGED <<calls, active, approvals>>
          /\ run'[r].at = "admit" /\ r \in Guarded => run'[r].approval \in DOMAIN approvals
       \/ /\ run[r].at = "admit" /\ run'[r].at \in {"recheck", "returned"}
          /\ run'[r].attempt = run[r].attempt /\ run'[r].approval = run[r].approval
          /\ UNCHANGED <<calls, approvals>>
          /\ IF run'[r].at = "returned" THEN UNCHANGED active
             ELSE /\ active[run[r].process] < Limit
                  /\ active' = [active EXCEPT ![run[r].process] = @ + 1]
       \/ /\ run[r].at = "recheck" /\ run'[r].at = "reserve" /\ r \in Guarded
          /\ run[r].attempt = 1
          /\ run'[r].attempt = run[r].attempt /\ run'[r].approval = run[r].approval
          /\ ~stop /\ UNCHANGED <<calls, active, approvals>>
       \/ /\ run[r].at \in {"recheck", "reserve"} /\ run'[r].at = "calling"
          /\ run[r].at = "recheck" => ~stop /\ (r \notin Guarded \/ run[r].attempt > 1)
          /\ run'[r].attempt = run[r].attempt /\ run'[r].approval = run[r].approval
          /\ calls' = [calls EXCEPT ![r] = @ + 1] /\ UNCHANGED active
          /\ IF run[r].at = "recheck" THEN UNCHANGED approvals
             ELSE /\ approvals[run[r].approval] = "granted"
                  /\ approvals' = [approvals EXCEPT ![run[r].approval] = "consumed"]
       \/ /\ run[r].at \in {"calling", "health"} /\ run'[r].at \in {"health", "failure"}
          /\ run'[r].attempt = run[r].attempt /\ run'[r].approval = run[r].approval
          /\ UNCHANGED <<calls, active, approvals>>
       \/ /\ run[r].at = "failure" /\ run'[r].at = "recheck"
          /\ run'[r].attempt = run[r].attempt + 1 /\ run'[r].approval = run[r].approval
          /\ UNCHANGED <<calls, active, approvals>>
       \/ /\ run[r].at \in Slotted /\ run'[r].at = "returned"
          /\ run'[r].attempt = run[r].attempt /\ run'[r].approval = run[r].approval
          /\ UNCHANGED <<calls, approvals>>
          /\ active' = [active EXCEPT ![run[r].process] = IF @ > 0 THEN @ - 1 ELSE 0]
       \/ /\ run[r].at \in {"returned", "complete"} /\ run'[r].at \in {"complete", "ended"}
          /\ run'[r].attempt = run[r].attempt /\ run'[r].approval = run[r].approval
          /\ UNCHANGED <<calls, active, approvals>>

LEMMA StepLeads == ASSUME TypeOK, NEW r \in Run, Step(r) PROVE Leads(r)
<1>0. run[r] \in RunRecord BY DEF TypeOK, RunRecord
<1>1. CASE CheckStop(r)
  <2>1. run[r].at = "stopFlag" /\ UNCHANGED <<calls, active, approvals>>
    BY <1>1 DEF CheckStop, Finish, Passes
  <2>2. \E point \in {"ended", "approval", "admit"} :
          To(r, point) /\ (r \in Guarded => point # "admit")
    BY <1>1 DEF CheckStop, Finish, Passes
  <2> QED BY <2>1, <2>2, GoesTo DEF Leads, Points, Stretch
<1>2. CASE CheckApproval(r)
  <2>1. CASE Finish(r, "blocked")
    BY <1>2, <2>1, GoesTo DEF CheckApproval, Finish, Leads, Points, Stretch
  <2>2. CASE ~Finish(r, "blocked")
    <3> DEFINE next == [run[r] EXCEPT !.at = "admit", !.approval = Len(approvals)]
    <3>1. /\ run' = [run EXCEPT ![r] = next] /\ UNCHANGED <<calls, active, approvals>>
          /\ run[r].at = "approval" /\ approvals # << >>
      BY <1>2, <2>2 DEF CheckApproval
    <3>2. Len(approvals) \in 0..MaxApprovals /\ Len(approvals) \in DOMAIN approvals
      BY <3>1, OrchestratorAssumption DEF TypeOK
    <3>3. next \in RunRecord /\ next.at = "admit" /\ next.approval = Len(approvals)
          /\ next.attempt = run[r].attempt /\ next.process = run[r].process
      BY <1>0, <3>2 DEF RunRecord, Points, Stretch
    <3> HIDE DEF next
    <3> QED BY <3>1, <3>2, <3>3, Moves DEF Leads, Alone
  <2> QED BY <2>1, <2>2
<1>3. CASE Admit(r)
  <2>1. run[r].at = "admit" /\ UNCHANGED <<calls, approvals>>
    BY <1>3 DEF Admit, Returns
  <2>2. CASE Returns(r, "blocked")
    BY <2>1, <2>2, ReturnsFrom DEF Leads, Modes, Returns, Slotted
  <2>3. CASE ~Returns(r, "blocked") BY <1>3, <2>1, <2>3, GoesTo DEF Admit, Leads, Points, Stretch
  <2> QED BY <2>2, <2>3
<1>4. CASE Recheck(r)
  <2>1. run[r].at = "recheck" BY <1>4 DEF Recheck
  <2>2. CASE Returns(r, "blocked") \/ Returns(r, "cancelled")
    BY <2>1, <2>2, ReturnsFrom DEF Leads, Modes, Returns, Slotted
  <2>3. CASE r \in Guarded /\ run[r].attempt = 1 /\ Passes(r, "reserve") /\ ~stop
    BY <2>1, <2>3, GoesTo DEF Leads, Passes, Points, Stretch
  <2>4. CASE (r \notin Guarded \/ run[r].attempt > 1) /\ Dispatch(r) /\ UNCHANGED approvals /\ ~stop
    BY <2>1, <2>4, GoesTo DEF Leads, Dispatch, Points
  <2> QED BY <1>4, <2>2, <2>3, <2>4 DEF Recheck, Stopped
<1>5. CASE Reserve(r)
  <2>1. run[r].at = "reserve" BY <1>5 DEF Reserve
  <2>2. CASE Returns(r, "blocked") BY <2>1, <2>2, ReturnsFrom DEF Leads, Modes, Returns, Slotted
  <2>3. CASE ~Returns(r, "blocked")
    <3>1. /\ approvals[run[r].approval] = "granted" /\ Dispatch(r)
          /\ approvals' = [approvals EXCEPT ![run[r].approval] = "consumed"]
      BY <1>5, <2>3 DEF Reserve
    <3> QED BY <2>1, <3>1, GoesTo DEF Leads, Dispatch, Points
  <2> QED BY <2>2, <2>3
<1>6. ASSUME NEW mode \in {"real", "failed", "cancelled"}, Answer(r, mode) PROVE Leads(r)
  <2> DEFINE next == [run[r] EXCEPT !.at = "health", !.mode = mode]
  <2>1. run' = [run EXCEPT ![r] = next] /\ run[r].at = "calling" /\ UNCHANGED <<calls, active, approvals>>
    BY <1>6 DEF Answer
  <2>2. next \in RunRecord /\ next.at = "health" /\ next.approval = run[r].approval
        /\ next.attempt = run[r].attempt /\ next.process = run[r].process
    BY <1>0 DEF RunRecord, Points, Stretch, Modes
  <2> HIDE DEF next
  <2> QED BY <2>1, <2>2, Moves DEF Leads, Alone
<1>7. CASE RecordSuccess(r)
  BY <1>7, ReturnsFrom DEF RecordSuccess, Leads, Modes, Returns, Slotted
<1>8. CASE ReadFailures(r)
  <2> DEFINE next == [run[r] EXCEPT !.at = "failure", !.seen = failures]
  <2>1. run' = [run EXCEPT ![r] = next] /\ run[r].at = "health" /\ UNCHANGED <<calls, active, approvals>>
    BY <1>8 DEF ReadFailures
  <2>2. next \in RunRecord /\ next.at = "failure" /\ next.approval = run[r].approval
        /\ next.attempt = run[r].attempt /\ next.process = run[r].process
    BY <1>0 DEF RunRecord, Points, Stretch, TypeOK
  <2> HIDE DEF next
  <2> QED BY <2>1, <2>2, Moves DEF Leads, Alone
<1>9. CASE RecordFailure(r)
  <2>1. run[r].at = "failure" /\ run[r].mode \in Modes BY <1>0, <1>9 DEF RecordFailure, RunRecord
  <2>2. CASE Returns(r, run[r].mode)
    BY <2>1, <2>2, ReturnsFrom DEF Leads, Returns, Slotted
  <2>3. CASE ~Returns(r, run[r].mode)
    <3> DEFINE next == [run[r] EXCEPT !.at = "recheck", !.attempt = @ + 1, !.seen = 0]
    <3>1. /\ run' = [run EXCEPT ![r] = next] /\ UNCHANGED <<calls, active, approvals>>
          /\ run[r].attempt # MaxAttempts
      BY <1>9, <2>3 DEF RecordFailure, LastAttempt
    <3>2. run[r].attempt + 1 \in 1..MaxAttempts /\ 0 \in 0..Threshold
      BY <1>0, <3>1, OrchestratorAssumption DEF RunRecord
    <3>3. next \in RunRecord /\ next.at = "recheck" /\ next.approval = run[r].approval
          /\ next.attempt = run[r].attempt + 1 /\ next.process = run[r].process
      BY <1>0, <3>2 DEF RunRecord, Points, Stretch
    <3> HIDE DEF next
    <3> QED BY <2>1, <3>1, <3>3, Moves DEF Leads, Alone
  <2> QED BY <2>2, <2>3
<1>10. CASE Conclude(r)
  <2>1. run[r].at = "returned" /\ UNCHANGED <<calls, active, approvals>>
    BY <1>10 DEF Conclude, Finish
  <2>2. To(r, "ended") \/ To(r, "complete") BY <1>10 DEF Conclude, Finish
  <2> QED BY <2>1, <2>2, GoesTo DEF Leads, Points, Stretch
<1>11. CASE Complete(r) BY <1>11, GoesTo DEF Leads, Complete, Finish, Points
<1> QED BY <1>1, <1>2, <1>3, <1>4, <1>5, <1>6, <1>7, <1>8, <1>9, <1>10, <1>11 DEF Step

LEMMA Received ==
  ASSUME TypeOK, NEW r \in Run, NEW p \in Process, Receive(r, p)
  PROVE  /\ run' \in [Run -> RunRecord] /\ \A s \in Run \ {r} : run'[s] = run[s]
         /\ run[r].at = "new" /\ run'[r].at = "stopFlag" /\ run'[r].process = p
         /\ run'[r].attempt = run[r].attempt /\ UNCHANGED <<calls, active, approvals>>
<1> DEFINE next == [run[r] EXCEPT !.at = "stopFlag", !.process = p]
<1>1. run[r] \in RunRecord BY DEF TypeOK, RunRecord
<1>2. /\ next \in RunRecord /\ next.at = "stopFlag" /\ next.process = p
      /\ next.attempt = run[r].attempt
  BY <1>1 DEF RunRecord, Points, Stretch
<1>3. run' = [run EXCEPT ![r] = next] /\ run[r].at = "new" /\ UNCHANGED <<calls, active, approvals>>
  BY DEF Receive
<1> HIDE DEF next
<1> QED BY <1>2, <1>3, Moves

LEMMA Died ==
  ASSUME TypeOK, NEW p \in Process, Dies(p)
  PROVE  /\ run' \in [Run -> RunRecord]
         /\ \A r \in Run : IF run[r].process = p /\ run[r].at # "ended"
                           THEN /\ run'[r].at = "dead" /\ run'[r].process = p
                                /\ run'[r].attempt = run[r].attempt
                                /\ run'[r].approval = run[r].approval
                           ELSE run'[r] = run[r]
         /\ active' = [active EXCEPT ![p] = 0] /\ UNCHANGED <<calls, approvals, stop, warned>>
<1>1. ASSUME NEW r \in Run
      PROVE  [run[r] EXCEPT !.at = "dead"] \in RunRecord
  BY DEF TypeOK, RunRecord, Points
<1>2. \A r \in Run : run[r] \in RunRecord BY DEF TypeOK, RunRecord
<1>3. run' \in [Run -> RunRecord] BY <1>1, <1>2 DEF Dies
<1>4. ASSUME NEW r \in Run, run[r].process = p, run[r].at # "ended"
      PROVE  /\ run'[r].at = "dead" /\ run'[r].process = p
             /\ run'[r].attempt = run[r].attempt /\ run'[r].approval = run[r].approval
  <2>1. run'[r] = [run[r] EXCEPT !.at = "dead"] BY <1>4 DEF Dies
  <2> QED BY <1>2, <1>4, <2>1 DEF RunRecord
<1>5. \A r \in Run : ~(run[r].process = p /\ run[r].at # "ended") => run'[r] = run[r] BY DEF Dies
<1> QED BY <1>3, <1>4, <1>5 DEF Dies

LEMMA RunTyped == ASSUME TypeOK, Next PROVE run' \in [Run -> RunRecord]
<1>1. ASSUME NEW r \in Run, Step(r) PROVE run' \in [Run -> RunRecord]
  BY <1>1, StepLeads DEF Leads, Alone
<1>2. ASSUME NEW r \in Run, NEW p \in Process, Receive(r, p) PROVE run' \in [Run -> RunRecord]
  BY <1>2, Received
<1>3. ASSUME NEW p \in Process, Dies(p) PROVE run' \in [Run -> RunRecord] BY <1>3, Died
<1>4. CASE UNCHANGED run BY <1>4 DEF TypeOK, RunRecord
<1> QED BY <1>1, <1>2, <1>3, <1>4 DEF Next, Grant, Expire, CooldownEnds, RaiseStop, LiftStop

Rest ==
    /\ status \in [Run -> {"none", "running", "blocked", "failed", "cancelled", "completed"}]
    /\ calls \in [Run -> Nat]
    /\ candidates \subseteq Run
    /\ active \in [Process -> Nat]
    /\ approvals \in Seq({"granted", "consumed", "expired"}) /\ Len(approvals) <= MaxApprovals
    /\ failures \in 0..Threshold
    /\ cooling \in BOOLEAN /\ stop \in BOOLEAN
    /\ warned \subseteq Run
    /\ faults \in 0..MaxFaults

LEMMA Slots ==
  ASSUME NEW slots \in [Process -> Nat], NEW p
  PROVE  /\ [slots EXCEPT ![p] = @ + 1] \in [Process -> Nat]
         /\ [slots EXCEPT ![p] = IF @ > 0 THEN @ - 1 ELSE 0] \in [Process -> Nat]
<1>1. \A n \in Nat : n + 1 \in Nat /\ (IF n > 0 THEN n - 1 ELSE 0) \in Nat OBVIOUS
<1> QED BY <1>1

LEMMA ApprovalRow ==
  ASSUME NEW list \in Seq({"granted", "consumed", "expired"}), NEW i
  PROVE  /\ [list EXCEPT ![i] = "consumed"] \in Seq({"granted", "consumed", "expired"})
         /\ Len([list EXCEPT ![i] = "consumed"]) = Len(list)
<1>1. CASE i \in 1..Len(list) BY <1>1
<1>2. CASE i \notin 1..Len(list)
  <2>1. [list EXCEPT ![i] = "consumed"] = list BY <1>2
  <2> QED BY <2>1
<1> QED BY <1>1, <1>2

LEMMA HealthRange == 0 \in 0..Threshold /\ Threshold \in Nat
BY OrchestratorAssumption

\* What a run writes beside its own record and the health of the provider.
LEMMA ReturnsRest ==
  ASSUME TypeOK, NEW r \in Run, NEW mode, Returns(r, mode),
         failures' \in 0..Threshold, cooling' \in BOOLEAN
  PROVE  Rest'
<1>1. active' \in [Process -> Nat] BY Slots DEF TypeOK, Returns
<1> QED BY <1>1 DEF TypeOK, Rest, Returns, rows, Outside

LEMMA DispatchRest ==
  ASSUME TypeOK, NEW r \in Run, Dispatch(r), approvals' \in Seq({"granted", "consumed", "expired"}),
         Len(approvals') = Len(approvals)
  PROVE  Rest'
<1>1. calls' \in [Run -> Nat] BY DEF TypeOK, Dispatch
<1> QED BY <1>1 DEF TypeOK, Rest, Dispatch, rows, health, Outside

LEMMA TypeStep == ASSUME TypeOK, Next PROVE TypeOK'
<1> SUFFICES Rest' BY RunTyped DEF TypeOK, Rest, RunRecord
<1> USE OrchestratorAssumption DEF TypeOK, Rest, rows, health, Outside
<1>1. ASSUME NEW r \in Run, Step(r) PROVE Rest'
  <2>1. CASE CheckStop(r) BY <2>1 DEF CheckStop, Finish, Passes
  <2>2. CASE CheckApproval(r) BY <2>2 DEF CheckApproval, Finish
  <2>3. CASE Admit(r)
    <3>1. CASE Returns(r, "blocked") /\ UNCHANGED health BY <3>1, ReturnsRest
    <3>2. CASE ~(Returns(r, "blocked") /\ UNCHANGED health)
      <4>1. active' = [active EXCEPT ![run[r].process] = @ + 1] BY <2>3, <3>2 DEF Admit
      <4>2. active' \in [Process -> Nat] BY <4>1, Slots
      <4> QED BY <2>3, <3>2, <4>2 DEF Admit
    <3> QED BY <3>1, <3>2
  <2>4. CASE Recheck(r)
    <3>1. \/ \E mode : Returns(r, mode) /\ UNCHANGED health
          \/ Passes(r, "reserve")
          \/ Dispatch(r) /\ UNCHANGED approvals
      BY <2>4 DEF Recheck
    <3> QED BY <3>1, ReturnsRest, DispatchRest DEF Passes
  <2>5. CASE Reserve(r)
    <3>1. CASE Returns(r, "blocked") /\ UNCHANGED health BY <3>1, ReturnsRest
    <3>2. CASE ~(Returns(r, "blocked") /\ UNCHANGED health)
      <4>1. approvals' = [approvals EXCEPT ![run[r].approval] = "consumed"] /\ Dispatch(r)
        BY <2>5, <3>2 DEF Reserve
      <4>2. /\ approvals' \in Seq({"granted", "consumed", "expired"})
            /\ Len(approvals') = Len(approvals)
        BY <4>1, ApprovalRow
      <4> QED BY <4>1, <4>2, DispatchRest
    <3> QED BY <3>1, <3>2
  <2>6. ASSUME NEW mode \in {"real", "failed", "cancelled"}, Answer(r, mode) PROVE Rest'
    BY <2>6 DEF Answer
  <2>7. CASE RecordSuccess(r)
    <3>0. failures' = 0 /\ cooling' = FALSE BY <2>7 DEF RecordSuccess
    <3>1. failures' \in 0..Threshold /\ cooling' \in BOOLEAN BY <3>0, HealthRange
    <3> QED BY <2>7, <3>1, ReturnsRest DEF RecordSuccess
  <2>8. CASE ReadFailures(r) BY <2>8 DEF ReadFailures
  <2>9. CASE RecordFailure(r)
    <3>1. run[r].seen \in 0..Threshold BY DEF TypeOK
    <3>0. /\ failures' = IF run[r].seen < Threshold THEN run[r].seen + 1 ELSE Threshold
          /\ cooling' = (failures' = Threshold)
      BY <2>9 DEF RecordFailure
    <3>2. failures' \in 0..Threshold /\ cooling' \in BOOLEAN BY <3>0, <3>1, HealthRange
    <3>3. CASE Returns(r, run[r].mode) BY <3>2, <3>3, ReturnsRest
    <3>4. CASE ~Returns(r, run[r].mode)
      <4>1. UNCHANGED <<rows, calls, active, approvals, stop, warned, faults>>
        BY <2>9, <3>4 DEF RecordFailure
      <4> QED BY <3>2, <4>1
    <3> QED BY <3>3, <3>4
  <2>10. CASE Conclude(r) BY <2>10 DEF Conclude, Finish
  <2>11. CASE Complete(r) BY <2>11 DEF Complete, Finish
  <2> QED BY <1>1, <2>1, <2>2, <2>3, <2>4, <2>5, <2>6, <2>7, <2>8, <2>9, <2>10, <2>11 DEF Step
<1>2. ASSUME NEW r \in Run, NEW p \in Process, Receive(r, p) PROVE Rest'
  BY <1>2 DEF Receive
<1>3. CASE Grant BY <1>3 DEF Grant
<1>4. ASSUME NEW i \in DOMAIN approvals, Expire(i) PROVE Rest' BY <1>4 DEF Expire
<1>5. CASE CooldownEnds BY <1>5 DEF CooldownEnds
<1>6. CASE RaiseStop BY <1>6 DEF RaiseStop, Fault
<1>7. CASE LiftStop BY <1>7 DEF LiftStop
<1>8. ASSUME NEW p \in Process, Dies(p) PROVE Rest' BY <1>8 DEF Dies, Fault
<1> QED BY <1>1, <1>2, <1>3, <1>4, <1>5, <1>6, <1>7, <1>8 DEF Next

-----------------------------------------------------------------------------
(* The steps preserve the invariant                                        *)

\* The operator and the clock move no run; no row of an approval goes away.
Around == Grant \/ (\E i \in DOMAIN approvals : Expire(i)) \/ CooldownEnds \/ RaiseStop \/ LiftStop

LEMMA AroundKeeps ==
  ASSUME TypeOK, Around
  PROVE  /\ UNCHANGED <<run, calls, active>>
         /\ DOMAIN approvals \subseteq DOMAIN approvals'
         /\ \A i \in DOMAIN approvals : approvals[i] # "granted" => approvals'[i] = approvals[i]
<1>1. CASE Grant
  <2>1. approvals' = Append(approvals, "granted") /\ approvals \in Seq({"granted", "consumed", "expired"})
    BY <1>1 DEF Grant, TypeOK
  <2> QED BY <1>1, <2>1 DEF Grant
<1>2. ASSUME NEW i \in DOMAIN approvals, Expire(i)
      PROVE  /\ DOMAIN approvals \subseteq DOMAIN approvals'
             /\ \A k \in DOMAIN approvals : approvals[k] # "granted" => approvals'[k] = approvals[k]
             /\ UNCHANGED <<run, calls, active>>
  BY <1>2 DEF Expire, TypeOK
<1> QED BY <1>1, <1>2 DEF Around, CooldownEnds, RaiseStop, LiftStop

LEMMA NextCases ==
  ASSUME Next
  PROVE  \/ \E r \in Run : Step(r)
         \/ \E r \in Run, p \in Process : Receive(r, p)
         \/ \E p \in Process : Dies(p)
         \/ Around
BY DEF Next, Around

LEMMA RunInvStep == ASSUME IInv, Next PROVE RunInv'
<1> USE DEF IInv, Untried
<1>0. /\ run \in [Run -> RunRecord] /\ calls \in [Run -> Nat]
      /\ \A i \in DOMAIN approvals : i \in DOMAIN approvals
  BY DEF TypeOK, RunRecord
<1>1. ASSUME NEW r \in Run, Step(r) PROVE RunInv'
  <2>1. Leads(r) BY <1>1, StepLeads
  <2>2. DOMAIN approvals' = DOMAIN approvals BY <2>1 DEF Leads, TypeOK
  <2>3. \A s \in Run \ {r} : run'[s] = run[s] /\ calls'[s] = calls[s]
    BY <1>0, <2>1 DEF Leads, Alone
  <2>4. run[r].attempt \in Nat /\ calls[r] \in Nat BY <1>0 DEF RunRecord
  <2>5. Calls(r)' BY <1>0, <2>1, <2>4 DEF RunInv, Calls, Leads, Slotted
  <2>6. Approved(r)'
    <3>1. CASE run[r].at \in {"stopFlag", "approval"}
      <4>1. calls'[r] = 0 BY <2>1, <3>1 DEF RunInv, Calls, Leads, Slotted
      <4>2. /\ run'[r].at \in {"approval", "admit", "ended"}
            /\ run'[r].at = "admit" /\ r \in Guarded => run'[r].approval \in DOMAIN approvals
        BY <2>1, <3>1 DEF Leads, Slotted
      <4> QED BY <2>2, <4>1, <4>2 DEF Approved
    <3>2. CASE run[r].at \notin {"stopFlag", "approval"}
      <4>1. run'[r].approval = run[r].approval BY <2>1, <3>2 DEF Leads
      <4>2. run'[r].at \in {"admit", "recheck", "reserve"} \/ calls'[r] > 0 =>
              run[r].at \in {"admit", "recheck", "reserve"} \/ calls[r] > 0
        <5>1. run[r].attempt >= 1 BY <1>0 DEF RunRecord
        <5> QED BY <2>1, <2>4, <3>2, <5>1 DEF RunInv, Calls, Leads, Slotted
      <4> QED BY <2>2, <4>1, <4>2 DEF RunInv, Approved
    <3> QED BY <3>1, <3>2
  <2>7. \A s \in Run \ {r} : Calls(s)' /\ Approved(s)'
    BY <2>2, <2>3 DEF RunInv, Calls, Approved
  <2> QED BY <2>5, <2>6, <2>7 DEF RunInv
<1>2. ASSUME NEW r \in Run, NEW p \in Process, Receive(r, p) PROVE RunInv'
  BY <1>2, Received DEF RunInv, Calls, Approved
<1>3. ASSUME NEW p \in Process, Dies(p) PROVE RunInv' BY <1>3, Died DEF RunInv, Calls, Approved
<1>4. CASE Around BY <1>4, AroundKeeps DEF RunInv, Calls, Approved
<1> QED BY <1>1, <1>2, <1>3, <1>4, NextCases

LEMMA ApprovalInvStep == ASSUME IInv, Next PROVE ApprovalInv'
<1> USE DEF IInv
<1>0. /\ run \in [Run -> RunRecord] /\ calls \in [Run -> Nat] /\ Guarded \subseteq Run
  BY OrchestratorAssumption DEF TypeOK, RunRecord
<1>1. ASSUME NEW r \in Run, Step(r) PROVE ApprovalInv'
  <2>1. Leads(r) BY <1>1, StepLeads
  <2>2. \A s \in Run \ {r} : run'[s] = run[s] /\ calls'[s] = calls[s]
    BY <1>0, <2>1 DEF Leads, Alone
  <2>3. CASE UNCHANGED <<calls, approvals>>
    <3>1. calls[r] > 0 => run'[r].approval = run[r].approval
      BY <2>1 DEF Leads, RunInv, Calls, Approved, Untried
    <3> QED BY <1>0, <2>2, <2>3, <3>1 DEF ApprovalInv
  <2>4. CASE run[r].at = "recheck" /\ UNCHANGED approvals /\ calls' = [calls EXCEPT ![r] = @ + 1]
    <3>1. r \in Guarded => calls[r] > 0 /\ run'[r].approval = run[r].approval
      BY <1>0, <2>1, <2>4 DEF Leads, RunInv, Calls, Approved, RunRecord
    <3>2. \A s \in Guarded : calls'[s] > 0 => calls[s] > 0 /\ run'[s].approval = run[s].approval
      BY <2>2, <3>1, <1>0
    <3> QED BY <1>0, <2>4, <3>2 DEF ApprovalInv
  <2>5. CASE run[r].at = "reserve" /\ run'[r].at = "calling"
    <3>1. /\ r \in Guarded /\ calls[r] = 0 /\ run[r].approval \in DOMAIN approvals
          /\ run'[r].approval = run[r].approval
      BY <2>1, <2>5 DEF Leads, RunInv, Calls, Approved, Slotted
    <3>2. /\ approvals[run[r].approval] = "granted"
          /\ approvals' = [approvals EXCEPT ![run[r].approval] = "consumed"]
      BY <2>1, <2>5 DEF Leads, Slotted
    <3>3. approvals'[run[r].approval] = "consumed" BY <3>1, <3>2
    <3>4. ASSUME NEW s \in Guarded \ {r}, calls'[s] > 0
          PROVE  /\ calls[s] > 0 /\ run'[s] = run[s] /\ run[s].approval # run[r].approval
                 /\ approvals'[run[s].approval] = "consumed"
      <4>1. calls[s] > 0 /\ run'[s] = run[s] BY <1>0, <2>2, <3>4
      <4>2. approvals[run[s].approval] = "consumed" BY <4>1 DEF ApprovalInv
      <4>3. run[s].approval # run[r].approval BY <3>2, <4>2
      <4>4. run[s].approval \in DOMAIN approvals BY <1>0, <4>1 DEF RunInv, Calls, Approved
      <4> QED BY <3>2, <4>1, <4>2, <4>3, <4>4
    <3> QED BY <1>0, <3>1, <3>3, <3>4 DEF ApprovalInv
  <2> QED BY <2>1, <2>3, <2>4, <2>5 DEF Leads
<1>2. ASSUME NEW r \in Run, NEW p \in Process, Receive(r, p) PROVE ApprovalInv'
  <2>1. calls[r] = 0 BY <1>2, Received DEF RunInv, Calls, Approved, Untried
  <2> QED BY <1>0, <1>2, <2>1, Received DEF ApprovalInv
<1>3. ASSUME NEW p \in Process, Dies(p) PROVE ApprovalInv'
  <2>1. \A r \in Run : run'[r].approval = run[r].approval BY <1>3, Died
  <2> QED BY <1>0, <1>3, <2>1, Died DEF ApprovalInv
<1>4. CASE Around BY <1>0, <1>4, AroundKeeps DEF ApprovalInv, RunInv, Calls, Approved
<1> QED BY <1>1, <1>2, <1>3, <1>4, NextCases

LEMMA WarnedInvStep == ASSUME IInv, Next PROVE WarnedInv'
<1> USE DEF IInv, Untried
<1>1. ASSUME NEW r \in Run, Step(r) PROVE WarnedInv'
  <2>1. Leads(r) BY <1>1, StepLeads
  <2>2. UNCHANGED <<stop, warned>>
    BY <1>1 DEF Step, CheckStop, CheckApproval, Admit, Recheck, Reserve, Answer, RecordSuccess,
       ReadFailures, RecordFailure, Conclude, Complete, Finish, Passes, Returns, Dispatch, Outside
  <2>3. r \in warned => run'[r].at \notin Untried \cup {"reserve"}
    BY <2>1 DEF Leads, WarnedInv, Slotted
  <2>4. \A s \in warned \ {r} : run'[s] = run[s] BY <2>1 DEF Leads, Alone, TypeOK
  <2> QED BY <2>2, <2>3, <2>4 DEF WarnedInv
<1>2. ASSUME NEW r \in Run, NEW p \in Process, Receive(r, p) PROVE WarnedInv'
  <2>1. r \notin warned BY <1>2, Received DEF WarnedInv
  <2>2. UNCHANGED <<stop, warned>> BY <1>2 DEF Receive, Outside
  <2> QED BY <1>2, <2>1, <2>2, Received DEF WarnedInv, TypeOK
<1>3. ASSUME NEW p \in Process, Dies(p) PROVE WarnedInv'
  <2>1. \A r \in Run : run'[r].at \in {run[r].at, "dead"} BY <1>3, Died
  <2> QED BY <1>3, <2>1, Died DEF WarnedInv, TypeOK
<1>4. CASE Around
  BY <1>4, AroundKeeps DEF Around, Grant, Expire, CooldownEnds, RaiseStop, LiftStop, Outside, WarnedInv
<1> QED BY <1>1, <1>2, <1>3, <1>4, NextCases

LEMMA HoldingFinite == ASSUME NEW p PROVE IsFiniteSet(Holding(p))
BY OrchestratorAssumption, FS_Subset DEF Holding

LEMMA SlotInvStep == ASSUME IInv, Next PROVE SlotInv'
<1> USE DEF IInv
<1>0. Limit \in Nat /\ active \in [Process -> Nat] BY OrchestratorAssumption DEF TypeOK
<1>1. ASSUME NEW r \in Run, Step(r) PROVE SlotInv'
  <2>1. Leads(r) BY <1>1, StepLeads
  <2>2. run[r].at \notin {"new", "dead"} /\ run[r].process \in Process
    BY <2>1 DEF Leads, SlotInv, Slotted
  <2>3. run'[r].at \notin {"new", "dead"} BY <2>1 DEF Leads
  <2>4. \A s \in Run : /\ run'[s].process = run[s].process
                       /\ run'[s].at \in {"new", "dead"} <=> run[s].at \in {"new", "dead"}
                       /\ s # r => run'[s] = run[s]
    BY <2>1, <2>2, <2>3 DEF Leads, Alone
  <2>5. \A s \in Run : run'[s].at = "new" => run[s].at = "new" BY <2>3, <2>4
  <2>6. ASSUME NEW p \in Process
        PROVE  active'[p] = Cardinality(Holding(p)') /\ active'[p] <= Limit
    <3>1. active[p] = Cardinality(Holding(p)) /\ active[p] <= Limit BY DEF SlotInv
    <3>2. CASE p # run[r].process
      <4>1. Holding(p)' = Holding(p) BY <2>4, <3>2 DEF Holding
      <4>2. active'[p] = active[p] BY <1>0, <2>1, <3>2 DEF Leads
      <4> QED BY <3>1, <4>1, <4>2
    <3>3. CASE p = run[r].process /\ run[r].at \notin Slotted /\ run'[r].at \in Slotted
      <4>1. active[p] < Limit /\ active'[p] = active[p] + 1
        BY <1>0, <2>1, <3>3 DEF Leads, Slotted
      <4>2. Holding(p)' = Holding(p) \cup {r} /\ r \notin Holding(p)
        BY <2>4, <3>3 DEF Holding
      <4>3. Cardinality(Holding(p)') = Cardinality(Holding(p)) + 1
        BY <4>2, HoldingFinite, FS_AddElement
      <4> QED BY <1>0, <3>1, <4>1, <4>3
    <3>4. CASE p = run[r].process /\ run[r].at \in Slotted /\ run'[r].at \notin Slotted
      <4>1. active'[p] = IF active[p] > 0 THEN active[p] - 1 ELSE 0
        BY <1>0, <2>1, <3>4 DEF Leads, Slotted
      <4>2. Holding(p)' = Holding(p) \ {r} /\ r \in Holding(p) BY <2>4, <3>4 DEF Holding
      <4>3. /\ Cardinality(Holding(p)') = Cardinality(Holding(p)) - 1
            /\ Cardinality(Holding(p)) \in Nat /\ Cardinality(Holding(p)') \in Nat
        BY <4>2, HoldingFinite, FS_RemoveElement, FS_CardinalityType
      <4> QED BY <1>0, <3>1, <4>1, <4>3
    <3>5. CASE p = run[r].process /\ (run[r].at \in Slotted <=> run'[r].at \in Slotted)
      <4>1. Holding(p)' = Holding(p) BY <2>4, <3>5 DEF Holding
      <4>2. UNCHANGED active BY <2>1, <3>5 DEF Leads, Slotted
      <4> QED BY <3>1, <4>1, <4>2
    <3> QED BY <3>2, <3>3, <3>4, <3>5
  <2> QED BY <2>4, <2>5, <2>6 DEF SlotInv
<1>2. ASSUME NEW r \in Run, NEW p \in Process, Receive(r, p) PROVE SlotInv'
  <2>1. \A q \in Process : Holding(q)' = Holding(q)
    BY <1>2, Received, OrchestratorAssumption DEF Holding, SlotInv, Slotted
  <2> QED BY <1>2, <2>1, Received DEF SlotInv
<1>3. ASSUME NEW p \in Process, Dies(p) PROVE SlotInv'
  <2>1. Holding(p)' = {} BY <1>3, Died DEF Holding, Slotted
  <2>2. \A q \in Process \ {p} : Holding(q)' = Holding(q) BY <1>3, Died DEF Holding, Slotted
  <2>3. active'[p] = 0 /\ \A q \in Process \ {p} : active'[q] = active[q]
    BY <1>0, <1>3, Died
  <2>0. Cardinality(Holding(p)') = 0 /\ 0 <= Limit BY <1>0, <2>1, FS_EmptySet
  <2>4. \A q \in Process : active'[q] = Cardinality(Holding(q)') /\ active'[q] <= Limit
    BY <2>0, <2>2, <2>3 DEF SlotInv
  <2>5. \A r \in Run : /\ run'[r].at \notin {"new", "dead"} => run'[r] = run[r]
                       /\ run'[r].at = "new" => run'[r] = run[r]
    BY <1>3, Died
  <2> QED BY <2>4, <2>5 DEF SlotInv
<1>4. CASE Around
  <2>1. \A q \in Process : Holding(q)' = Holding(q) BY <1>4, AroundKeeps DEF Holding
  <2> QED BY <1>4, <2>1, AroundKeeps DEF SlotInv
<1> QED BY <1>1, <1>2, <1>3, <1>4, NextCases

-----------------------------------------------------------------------------
(* Theorems                                                                *)

LEMMA IInvInit == Init => IInv
<1> SUFFICES ASSUME Init PROVE IInv OBVIOUS
<1>1. TypeOK
  <2>1. << >> \in Seq({"granted", "consumed", "expired"}) /\ Len(<< >>) = 0 OBVIOUS
  <2>2. /\ 1 \in 1..MaxAttempts /\ 0 \in 0..MaxApprovals /\ 0 \in 0..Threshold
        /\ 0 \in 0..MaxFaults /\ 0 <= MaxApprovals
    BY OrchestratorAssumption
  <2>3. run \in [Run -> RunRecord] BY <2>2 DEF Init, RunRecord, Points, Modes
  <2> QED BY <2>1, <2>2, <2>3 DEF Init, TypeOK, RunRecord
<1>2. RunInv /\ ApprovalInv /\ WarnedInv
  BY OrchestratorAssumption DEF Init, RunInv, Calls, Approved, ApprovalInv, WarnedInv, Untried
<1>3. SlotInv
  <2>1. \A p \in Process : Holding(p) = {} BY DEF Init, Holding, Slotted
  <2>2. 0 <= Limit BY OrchestratorAssumption
  <2>3. \A p \in Process : Cardinality(Holding(p)) = 0 BY <2>1, FS_EmptySet
  <2> QED BY <2>2, <2>3 DEF Init, SlotInv
<1> QED BY <1>1, <1>2, <1>3 DEF IInv

LEMMA IInvStep == IInv /\ [Next]_vars => IInv'
<1>1. ASSUME IInv, Next PROVE IInv'
  BY <1>1, TypeStep, RunInvStep, ApprovalInvStep, WarnedInvStep, SlotInvStep DEF IInv
<1>2. ASSUME IInv, UNCHANGED vars PROVE IInv'
  <2>1. UNCHANGED <<run, calls, active, approvals, stop, warned>> BY <1>2 DEF vars
  <2>2. TypeOK' BY <1>2 DEF IInv, TypeOK, vars, rows, health
  <2>3. RunInv' BY <1>2, <2>1 DEF IInv, RunInv, Calls, Approved
  <2>4. ApprovalInv' /\ WarnedInv' BY <1>2, <2>1 DEF IInv, ApprovalInv, WarnedInv
  <2>5. SlotInv'
    <3>1. \A p : Holding(p)' = Holding(p) BY <2>1 DEF Holding
    <3> QED BY <1>2, <2>1, <3>1 DEF IInv, SlotInv
  <2> QED BY <2>2, <2>3, <2>4, <2>5 DEF IInv
<1> QED BY <1>1, <1>2

\* The inductive invariant.
THEOREM RunsAreSafe == Spec => []IInv
BY IInvInit, IInvStep, PTL DEF Spec

\* Every variable keeps its type.
THEOREM OrchestratorTyped == Spec => []TypeOK
<1>1. IInv => TypeOK BY DEF IInv
<1> QED BY <1>1, RunsAreSafe, PTL

\* The calls made under one approval are those of one run, at most 1 + maxRetries,
\* for any number of runs and processes (execute.js 75-82).
THEOREM ApprovalsServeOneRun == Spec => []OneRunPerApproval
<1>1. IInv => OneRunPerApproval
  <2> SUFFICES ASSUME IInv, NEW r \in Guarded, calls[r] > 0
               PROVE  /\ calls[r] <= MaxAttempts
                      /\ run[r].approval \in DOMAIN approvals /\ approvals[run[r].approval] = "consumed"
                      /\ \A s \in Guarded : calls[s] > 0 /\ run[s].approval = run[r].approval => s = r
    BY DEF OneRunPerApproval
  <2>1. r \in Run BY OrchestratorAssumption
  <2>2. calls[r] \in Nat /\ run[r].attempt \in 1..MaxAttempts BY <2>1 DEF IInv, TypeOK
  <2>3. calls[r] <= MaxAttempts
    BY <2>1, <2>2, OrchestratorAssumption DEF IInv, RunInv, Calls
  <2> QED BY <2>1, <2>3 DEF IInv, RunInv, Approved, ApprovalInv
<1> QED BY <1>1, RunsAreSafe, PTL

\* The slots taken are those of the runs between acquire and release, and never
\* above the limit (concurrency.js 10-22).
THEOREM SlotsStayHonest == Spec => []SlotsAreHonest
<1>1. IInv => SlotsAreHonest BY DEF IInv, SlotInv, Holding, SlotsAreHonest
<1> QED BY <1>1, RunsAreSafe, PTL

\* A run that awaited a call when the stop was raised does not call again before
\* it is lifted (execute.js 67-74).
THEOREM StopHolds == Spec => StopPreventsRetry
<1>1. IInv /\ [Next]_vars => [\A r \in warned \cap warned' : calls'[r] = calls[r]]_vars
  <2> SUFFICES ASSUME IInv, Next, NEW r \in warned PROVE calls'[r] = calls[r]
    OBVIOUS
  <2>1. r \in Run BY DEF IInv, TypeOK
  <2>2. ASSUME NEW s \in Run, Step(s) PROVE calls'[r] = calls[r]
    <3>1. Leads(s) BY <2>2, StepLeads DEF IInv
    <3>2. CASE s = r BY <2>1, <3>1, <3>2 DEF Leads, IInv, WarnedInv, TypeOK
    <3>3. CASE s # r BY <2>1, <3>1, <3>3 DEF Leads, IInv, TypeOK
    <3> QED BY <3>2, <3>3
  <2>3. ASSUME NEW s \in Run, NEW p \in Process, Receive(s, p) PROVE calls'[r] = calls[r]
    BY <2>3 DEF Receive
  <2>4. ASSUME NEW p \in Process, Dies(p) PROVE calls'[r] = calls[r] BY <2>4 DEF Dies
  <2>5. CASE Around BY <2>5, AroundKeeps DEF IInv
  <2> QED BY <2>2, <2>3, <2>4, <2>5, NextCases
<1> QED BY <1>1, RunsAreSafe, PTL DEF Spec, StopPreventsRetry

-----------------------------------------------------------------------------
(* Termination, as a measure                                               *)

\* How far a point is from the end of the call, within one attempt.
Distance == [new |-> 11, stopFlag |-> 10, approval |-> 9, admit |-> 8, recheck |-> 7,
             reserve |-> 6, calling |-> 5, health |-> 4, failure |-> 3, returned |-> 2,
             complete |-> 1, ended |-> 0, dead |-> 0]

\* The steps a run still has: a retry goes back by four points and spends an attempt.
Rank(r) == Distance[run[r].at] + 5 * (MaxAttempts - run[r].attempt)

RankFalls(r) == run'[r] # run[r] => Rank(r)' < Rank(r)

\* A measure of numbers, at most five to an attempt and six around them.
RankBounded(r) == Rank(r) \in 0..(5 * MaxAttempts + 6)

LEMMA RankIsBounded == ASSUME TypeOK, NEW r \in Run PROVE RankBounded(r)
<1>1. /\ run[r].at \in Points /\ run[r].attempt \in Nat /\ 1 <= run[r].attempt
      /\ run[r].attempt <= MaxAttempts /\ MaxAttempts \in Nat
  BY OrchestratorAssumption DEF TypeOK
<1>2. Distance[run[r].at] \in 0..11 BY <1>1 DEF Distance, Points, Stretch
<1> HIDE DEF Distance
<1> QED BY <1>1, <1>2 DEF Rank, RankBounded

LEMMA StepRankFalls == ASSUME TypeOK, NEW r \in Run, Step(r) PROVE Rank(r)' < Rank(r)
<1>1. Leads(r) BY StepLeads
<1>2. run[r].attempt \in Nat /\ run'[r].attempt \in Nat /\ MaxAttempts \in Nat
  BY <1>1, OrchestratorAssumption DEF TypeOK, Leads, Alone, RunRecord
<1>3. CASE run'[r].attempt = run[r].attempt
  <2>1. /\ Distance[run'[r].at] \in Nat /\ Distance[run[r].at] \in Nat
        /\ Distance[run'[r].at] < Distance[run[r].at]
    BY <1>1, <1>2, <1>3 DEF Leads, Distance, Slotted
  <2> HIDE DEF Distance
  <2> QED BY <1>2, <1>3, <2>1 DEF Rank
<1>4. CASE run'[r].attempt # run[r].attempt
  <2>1. run[r].at = "failure" /\ run'[r].at = "recheck" /\ run'[r].attempt = run[r].attempt + 1
    BY <1>1, <1>4 DEF Leads
  <2>2. Distance[run[r].at] = 3 /\ Distance[run'[r].at] = 7 BY <2>1 DEF Distance
  <2> HIDE DEF Distance
  <2> QED BY <1>2, <2>1, <2>2 DEF Rank
<1> QED BY <1>3, <1>4

\* Every step of a run brings it nearer to its end: no run can take more than
\* 5 * (1 + maxRetries) + 6 steps, whatever the provider answers, the operator and
\* the other runs do, and however often its process dies (execute.js 57-109).
THEOREM RunsTakeFewSteps ==
  Spec => [](\A r \in Run : RankBounded(r)) /\ [][\A r \in Run : RankFalls(r)]_vars
<1>1. TypeOK => \A r \in Run : RankBounded(r) BY RankIsBounded
<1>2. TypeOK /\ [Next]_vars => [\A r \in Run : RankFalls(r)]_vars
  <2> SUFFICES ASSUME TypeOK, Next, NEW r \in Run, run'[r] # run[r] PROVE Rank(r)' < Rank(r)
    BY DEF RankFalls
  <2>0. run[r].attempt \in Nat /\ MaxAttempts \in Nat BY OrchestratorAssumption DEF TypeOK
  <2>1. ASSUME NEW s \in Run, Step(s) PROVE Rank(r)' < Rank(r)
    <3>1. s = r BY <2>1, StepLeads DEF Leads, Alone
    <3> QED BY <2>1, <3>1, StepRankFalls
  <2>2. ASSUME NEW s \in Run, NEW p \in Process, Receive(s, p) PROVE Rank(r)' < Rank(r)
    <3>1. run[r].at = "new" /\ run'[r].at = "stopFlag" /\ run'[r].attempt = run[r].attempt
      BY <2>2, Received
    <3>2. Distance[run[r].at] = 11 /\ Distance[run'[r].at] = 10 BY <3>1 DEF Distance
    <3> HIDE DEF Distance
    <3> QED BY <2>0, <3>1, <3>2 DEF Rank
  <2>3. ASSUME NEW p \in Process, Dies(p) PROVE Rank(r)' < Rank(r)
    <3>1. /\ run'[r] = [run[r] EXCEPT !.at = "dead"] /\ run[r].at # "ended"
      BY <2>3 DEF Dies
    <3>2. run[r] \in RunRecord BY DEF TypeOK, RunRecord
    <3>3. run[r].at # "dead"
      <4>1. run[r].at = "dead" => run'[r] = run[r] BY <3>1, <3>2 DEF RunRecord
      <4> QED BY <4>1
    <3>4. run'[r].at = "dead" /\ run'[r].attempt = run[r].attempt BY <3>1, <3>2 DEF RunRecord
    <3>5. Distance[run'[r].at] = 0 BY <3>4 DEF Distance
    <3>6. Distance[run[r].at] \in 1..11
      BY <3>1, <3>2, <3>3 DEF Distance, RunRecord, Points, Stretch
    <3> HIDE DEF Distance
    <3> QED BY <2>0, <3>4, <3>5, <3>6 DEF Rank
  <2>4. CASE Around BY <2>4, AroundKeeps
  <2> QED BY <2>1, <2>2, <2>3, <2>4, NextCases
<1> QED BY <1>1, <1>2, OrchestratorTyped, PTL DEF Spec
=============================================================================
