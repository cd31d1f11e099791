--------------------------- MODULE CapabilityRun ----------------------------
(***************************************************************************)
(* executeRegisteredCapability (packages/capabilities/execute.js): a task   *)
(* whose lane is a registered read capability.  The call goes over HTTP to   *)
(* the receiving API, which turns the persisted authority into one started   *)
(* dispatch (receiver-authority.js) before it reads.  A request that has     *)
(* been sent may arrive late, more than once, or after its worker has died.  *)
(***************************************************************************)
EXTENDS Worker

VARIABLES
    sent,     \* claims whose request is in the network
    served    \* claims whose request the receiver has accepted and read for

wireVars == <<sent, served>>

WireInit == sent = {} /\ served = {}

Cap(w) == profile[Mine(w)].lane
CapIs(w, step) == Is(w, "capability", step)
Quiet == UNCHANGED <<engineVars, launches, wireVars>>

\* finishCapabilityDispatch with the outcome, then on; the row being terminal
\* already it throws, which ends at thrown.
Finish(w, outcome, next, thrown) ==
    /\ \/ FinishCapability(Mine(w), Cap(w), outcome) /\ next
       \/ ~InFlight(Mine(w), Cap(w)) /\ thrown /\ UNCHANGED engineVars
    /\ UNCHANGED <<launches, wireVars>>

CapOwn(w) ==
    /\ CapIs(w, "own")
    /\ IF ~Holds(w) THEN Return(w)
       ELSE IF profile[Mine(w)].intent # "read_only" THEN Leave(w, "failed")
       ELSE Step(w, "flag")
    /\ Quiet

CapFlag(w) ==
    /\ CapIs(w, "flag")
    /\ IF stop THEN Leave(w, "cancelled") ELSE Step(w, "row")
    /\ Quiet

\* Principal, permissions, input and the release context that issues the
\* authority are outside: each may refuse.
CapRow(w) ==
    /\ CapIs(w, "row")
    /\ IF status[Mine(w)] = "cancelled" THEN Leave(w, "cancelled")
                                        ELSE Leave(w, "failed") \/ Step(w, "prepare")
    /\ Quiet

CapPrepare(w) ==
    /\ CapIs(w, "prepare")
    /\ \/ Prepare(Mine(w), Cap(w), Held(w), TRUE) /\ Step(w, "running")
       \/ /\ ledger[Mine(w)][Cap(w)].status # "none"
          /\ IF InFlight(Mine(w), Cap(w)) THEN Step(w, "recover") ELSE Leave(w, "outcome_unknown")
          /\ UNCHANGED engineVars
    /\ UNCHANGED <<launches, wireVars>>

\* An earlier dispatch was never settled: its outcome is unknown, replay refused.
CapRecover(w) ==
    /\ CapIs(w, "recover")
    /\ Finish(w, "outcome_unknown", Leave(w, "outcome_unknown"), Leave(w, "failed"))

\* Mutant: the task is set running without the predicate of transition.
CapRunningBlind(w) ==
    /\ CapIs(w, "running")
    /\ status' = [status EXCEPT ![Mine(w)] = "running"]
    /\ Step(w, "own again")
    /\ UNCHANGED <<profile, owner, stale, created, issued, ledgerVars, approvals, stop>>
    /\ UNCHANGED <<launches, wireVars>>

CapRunning(w) ==
    /\ CapIs(w, "running")
    /\ Transition(Mine(w), "running", Held(w))
    /\ Step(w, "own again")
    /\ UNCHANGED <<launches, wireVars>>

CapOwnAgain(w) ==
    /\ CapIs(w, "own again")
    /\ Step(w, IF Holds(w) THEN "flag again" ELSE "superseded")
    /\ Quiet

CapFlagAgain(w) ==
    /\ CapIs(w, "flag again")
    /\ Step(w, IF stop THEN "halt" ELSE "row again")
    /\ Quiet

CapRowAgain(w) ==
    /\ CapIs(w, "row again")
    /\ Step(w, IF status[Mine(w)] = "cancelled" THEN "halt" ELSE "call")
    /\ Quiet

CapCall(w) ==
    /\ CapIs(w, "call")
    /\ sent' = sent \cup {Held(w)}
    /\ Step(w, "wait")
    /\ UNCHANGED <<engineVars, launches, served>>

\* The receiver accepts the request of claim c: one compare-and-swap.
Serve(c) ==
    /\ c \in sent
    /\ \E t \in Task : \E l \in Capability :
        /\ ledger[t][l].by = c
        /\ Consume(t, l)
        /\ launches' = [launches EXCEPT ![t] = @ + 1]
    /\ served' = served \cup {c}
    /\ UNCHANGED <<run, sent>>

\* The network gives the request up, or its 15 seconds are over.
Drop(c) ==
    /\ c \in sent
    /\ sent' = sent \ {c}
    /\ UNCHANGED <<engineVars, workerVars, served>>

\* The answer arrives; or an error, or the hard timeout, does.
CapAnswer(w) ==
    /\ CapIs(w, "wait")
    /\ \/ Held(w) \in served /\ Step(w, "own last")
       \/ Step(w, "error")
    /\ Quiet

CapOwnLast(w) ==
    /\ CapIs(w, "own last")
    /\ Step(w, IF Holds(w) THEN "flag last" ELSE "superseded late")
    /\ Quiet

CapFlagLast(w) ==
    /\ CapIs(w, "flag last")
    /\ Step(w, IF stop THEN "discard" ELSE "row last")
    /\ Quiet

\* Then the principal's permissions, and the shape of the answer.
CapRowLast(w) ==
    /\ CapIs(w, "row last")
    /\ IF status[Mine(w)] = "cancelled" THEN Step(w, "discard")
       ELSE \E s \in {"revoked", "error", "finalize"} : Step(w, s)
    /\ Quiet

\* A late answer is settled as completed, and not disclosed.
CapDiscard(w) ==
    /\ CapIs(w, "discard")
    /\ Finish(w, "completed", Leave(w, "cancelled"), Step(w, "error"))

CapRevoked(w) ==
    /\ CapIs(w, "revoked")
    /\ Finish(w, "completed", Leave(w, "failed"), Step(w, "error"))

\* The authorize callback may refuse what the fence lets through.
CapFinalize(w) ==
    /\ CapIs(w, "finalize")
    /\ \/ Finalize(Mine(w), Cap(w), Held(w)) /\ Return(w)
       \/ Step(w, "error") /\ UNCHANGED engineVars
    /\ UNCHANGED <<launches, wireVars>>

\* Ownership is gone: the outcome is unknown, and the task is failed without
\* naming a claim.  After the answer a throw lands in the catch block.
CapSuperseded(w) ==
    \/ CapIs(w, "superseded") /\ Finish(w, "outcome_unknown", Step(w, "disown"), Leave(w, "failed"))
    \/ CapIs(w, "superseded late") /\ Finish(w, "outcome_unknown", Step(w, "disown"), Step(w, "error"))

CapDisown(w) ==
    /\ CapIs(w, "disown")
    /\ Transition(Mine(w), "failed", NoClaim)
    /\ Return(w)
    /\ UNCHANGED <<launches, wireVars>>

\* The catch block.
CapCatch(w) ==
    /\ CapIs(w, "error")
    /\ Step(w, IF status[Mine(w)] = "cancelled" THEN "halt" ELSE "error flag")
    /\ Quiet

CapCatchFlag(w) ==
    /\ CapIs(w, "error flag")
    /\ Step(w, IF stop THEN "halt" ELSE "unknown")
    /\ Quiet

CapHalt(w) ==
    /\ CapIs(w, "halt")
    /\ Finish(w, "outcome_unknown", Step(w, "halted"), Step(w, "halted"))

CapHalted(w) ==
    /\ CapIs(w, "halted")
    /\ IF Holds(w) THEN Leave(w, "cancelled") ELSE Step(w, "halt unowned")
    /\ Quiet

CapHaltUnowned(w) ==
    /\ CapIs(w, "halt unowned")
    /\ Transition(Mine(w), "cancelled", NoClaim)
    /\ Return(w)
    /\ UNCHANGED <<launches, wireVars>>

CapUnknown(w) ==
    /\ CapIs(w, "unknown")
    /\ Finish(w, "outcome_unknown", Leave(w, "outcome_unknown"), Leave(w, "failed"))

CapabilityStep(w) ==
    \/ CapOwn(w) \/ CapFlag(w) \/ CapRow(w) \/ CapPrepare(w) \/ CapRecover(w)
    \/ CapRunning(w) \/ CapOwnAgain(w) \/ CapFlagAgain(w) \/ CapRowAgain(w) \/ CapCall(w)
    \/ CapAnswer(w) \/ CapOwnLast(w) \/ CapFlagLast(w) \/ CapRowLast(w)
    \/ CapDiscard(w) \/ CapRevoked(w) \/ CapFinalize(w)
    \/ CapSuperseded(w) \/ CapDisown(w)
    \/ CapCatch(w) \/ CapCatchFlag(w) \/ CapHalt(w) \/ CapHalted(w) \/ CapHaltUnowned(w) \/ CapUnknown(w)

=============================================================================
