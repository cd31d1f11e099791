---------------------------- MODULE ConfigSwitch ----------------------------
(***************************************************************************)
(* What an upgrade of a configuration promises, whatever files and         *)
(* journals it takes: each operation puts its configuration in force at    *)
(* most once, never while another one's is in force, and one that has      *)
(* been switched back, or given up before it began, stays off for good.    *)
(***************************************************************************)
CONSTANT Ops

VARIABLE stage

SwitchTypeOK == stage \in [Ops -> {"pending", "on", "off"}]

SwitchInit == stage = [op \in Ops |-> "pending"]

TurnOn(op) ==
    /\ stage[op] = "pending"
    /\ \A other \in Ops : stage[other] # "on"
    /\ stage' = [stage EXCEPT ![op] = "on"]

TurnOff(op) ==
    /\ stage[op] # "off"
    /\ stage' = [stage EXCEPT ![op] = "off"]

SwitchNext == \E op \in Ops : TurnOn(op) \/ TurnOff(op)

SwitchSpec == SwitchInit /\ [][SwitchNext]_stage
=============================================================================
