------------------------------ MODULE MCHermes ------------------------------
(* Hermes for TLC: the profiles of the runs.                               *)
EXTENDS Hermes, TLC

CONSTANT sellerSearch

\* Tasks are interchangeable, and so are workers.
Perms == Permutations(Task) \cup Permutations(Worker)

Asked(decision, lane, intent) ==
    [decision |-> decision, restricted |-> FALSE, lane |-> lane, intent |-> intent]

CapabilityProfiles == {Asked("allowed", sellerSearch, "read_only")}
CodexProfiles == {Asked("allowed", Codex, "workspace_mutation")}
ManualProfiles == {Asked("allowed", Manual, "read_only")}

\* The lanes with a pre-dispatch ledger, and all of them.
LedgerProfiles == CapabilityProfiles \cup CodexProfiles
LaneProfiles ==
    LedgerProfiles \cup ManualProfiles \cup {Asked("allowed", Inline, "workspace_mutation")}

\* Every policy outcome, on the lane with the fewest steps.
PolicyProfiles ==
    {Asked("approval_required", sellerSearch, "read_only"), Asked("denied", sellerSearch, "read_only"),
     [Asked("denied", sellerSearch, "read_only") EXCEPT !.restricted = TRUE]}
=============================================================================
