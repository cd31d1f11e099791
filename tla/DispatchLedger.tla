--------------------------- MODULE DispatchLedger ---------------------------
(***************************************************************************)
(* What the pre-dispatch rows of provider_attempts promise, with nothing   *)
(* said of tasks, workers or claims: a dispatch is reserved once, runs at   *)
(* most once, settles once, is billed when it settles, and is never armed   *)
(* again.  Module TaskEngine implements this specification.                 *)
(***************************************************************************)
CONSTANTS
    Key,     \* one per dispatch: a task and the lane it goes out on
    Billed   \* the keys whose settlement carries a usage row

VARIABLES
    phase,   \* free, then open (dispatching or started), then an outcome
    bills    \* keys with a usage row

ledgerVars == <<phase, bills>>

Outcome == {"completed", "failed", "outcome_unknown"}
Opened == {"dispatching", "started"}

LedgerInit ==
    /\ phase = [k \in Key |-> "none"]
    /\ bills = {}

Reserve(k) ==
    /\ phase[k] = "none"
    /\ phase' = [phase EXCEPT ![k] = "dispatching"]
    /\ UNCHANGED bills

Start(k) ==
    /\ phase[k] = "dispatching"
    /\ phase' = [phase EXCEPT ![k] = "started"]
    /\ UNCHANGED bills

Settle(k, outcome) ==
    /\ phase[k] \in Opened
    /\ phase' = [phase EXCEPT ![k] = outcome]
    /\ bills' = IF k \in Billed THEN bills \cup {k} ELSE bills

LedgerNext ==
    \E k \in Key : Reserve(k) \/ Start(k) \/ \E o \in Outcome : Settle(k, o)

LedgerSpec == LedgerInit /\ [][LedgerNext]_ledgerVars
=============================================================================
